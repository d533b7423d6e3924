-------------------------- MODULE KernelDriveProofs --------------------------
(***************************************************************************)
(* The reducer and the executors never meet a position they cannot go on   *)
(* from (NoDeadEnd), what the kernel reports as done can be settled        *)
(* (DoneSettles), and no action of the loop is without effect (NoSpin).    *)
(*                                                                         *)
(* The first two are about project tasks.  The argument: as long as no     *)
(* outcome is unknown, the leaf says where the results of tool calls are   *)
(* (Waits), which response it goes back to (Cites, Recalls) and which      *)
(* decision it carries (Decides); the batch that the driver's sink         *)
(* remembers may still be sent (Remembers).  Once an outcome is unknown,   *)
(* the driver has nothing left but to say so (UnknownInv).                 *)
(***************************************************************************)
EXTENDS KernelLedgerProofs

Last == Len(sends)

(* The batches that the unsettled send carries.                             *)
Carried == {sends[n].batch : n \in Unsettled}

(* Open, and not on its way.                                                *)
Loose == {b \in OpenBatches : b \notin Carried}

Sendable(b) == Open(b) /\ \A n \in ActiveAttempts(b) : sends[n].st = "not_sent"

Outcomes == {"done", "question", "closing"}

(* A request that delivers something names the response it came from, and   *)
(* it closes the exchange exactly when it delivers an outcome.  Results go  *)
(* with a plain request, or with a closing one.                             *)
Grounded(r) ==
  /\ r.work # "" \/ r.batch # 0 => r.src # 0
  /\ r.batch # 0 => r.work \in {"", "closing"}
  /\ r.close => r.work \in Outcomes
  /\ ~r.close => r.work \in {"", "retry"}

RecordInv ==
  /\ \A n \in 1..Last : Grounded(sends[n])
  /\ \A n \in Unsettled : sends[n].batch # 0 =>
       Open(sends[n].batch) /\ n \in ActiveAttempts(sends[n].batch)
  /\ \A b \in 1..Len(batches) : \A n \in batches[b].tried : sends[n].batch = b

(* The response that position o cites is that of the last send.             *)
Cites(o) ==
  /\ o.resp \in {0, Last}
  /\ o.leaf # "provider_effect_pending" /\ Unsettled # {} => o.resp = Last
  /\ o.leaf \in {"provider_effect_pending", "provider_response_ready"} =>
       o.turn = Last /\ Last \in Unsettled /\ o.work = sends[Last].work
  /\ o.leaf \in {"provider_response_ready", "plan_ready", "completion_pending",
                 "tool_effect_pending"} => o.resp # 0
  /\ o.leaf \in {"kernel_settled", "writer_running", "repair_running"} => Unsettled = {}

(* The decision it carries.                                                 *)
Decides(o) ==
  /\ o.leaf \notin WorkLeaves => o.work = ""
  /\ o.leaf = "control_ready" => o.work # ""
  /\ o.leaf \in {"closing", "kernel_settled"} => o.work \in Outcomes

(* A prepared request can be submitted.                                     *)
Asks(o) ==
  o.leaf = "provider_request_ready" =>
    /\ Unsettled = {} => o.resp = 0
    /\ o.req # NoRequest
    /\ Grounded(o.req)
    /\ o.req.work = o.work
    /\ o.req.batch # 0 => Sendable(o.req.batch)

(* A decision whose delivery was proven unsent finds its source again.      *)
Recalls(o) ==
  o.leaf = "control_ready" /\ o.resp = 0 =>
    /\ o.turn \in 1..Last
    /\ sends[o.turn].st = "not_sent"
    /\ sends[o.turn].work = o.work

(* The results to deliver were never sent, or are back.                     *)
Fresh(turn) ==
  Loose = {Newest} /\ batches[Newest].tried = {} /\ batches[Newest].turn = turn

Back(turn) ==
  /\ Unsettled = {}
  /\ \E b \in OpenBatches : \E n \in ActiveAttempts(b) :
       /\ OpenBatches = {b} /\ batches[b].turn = turn
       /\ sends[n].st = "not_sent" /\ sends[n].batch = b

(* Where results wait.  A closing phase may leave some behind.              *)
Waits(o) ==
  /\ o.leaf = "tool_effect_pending" => Fresh(o.turn)
  /\ o.leaf = "tool_delivery_pending" => (o.resp # 0 /\ Fresh(o.turn)) \/ Back(o.turn)
  /\ o.leaf = "provider_request_ready" /\ o.work # "closing" =>
       Loose \subseteq {o.req.batch}
  /\ o.leaf \notin {"tool_effect_pending", "tool_delivery_pending",
                    "provider_request_ready"} /\ o.work # "closing" => Loose = {}

Sound(o) == Cites(o) /\ Decides(o) /\ Asks(o) /\ Recalls(o) /\ Waits(o)

(* The batch the driver's sink remembers.                                   *)
Remembers(o, m) ==
  m.batch # 0 /\ m.pc \notin {"end", "send", "sent"} =>
    /\ Sendable(m.batch)
    /\ \/ o.leaf \in {"tool_effect_pending", "tool_delivery_pending",
                      "provider_request_ready"}
       \/ o.leaf \in {"closing", "kernel_settled"} /\ o.work = "closing"

(* What the reducer chose can be executed.                                  *)
Choice(o, m) ==
  m.pc = "act" => m.act # "fail" /\ (m.act = "resume" => o.work = "question")

Regular == RecordInv /\ Sound(op) /\ Remembers(op, mem) /\ Choice(op, mem)

UnknownInv ==
  OutcomeUnknown =>
    \/ mem.pc \in {"off", "loop", "end"}
    \/ mem.pc = "act" /\ mem.act \in {"synthesize", "fail_unknown"}

EndInv ==
  mem.pc = "end" /\ mem.res = "done" =>
    op.leaf = "kernel_settled" /\ op.work = "done" /\ ~OutcomeUnknown

DInv ==
  /\ ProgressValid
  /\ Driveable
  /\ UnknownInv
  /\ EndInv
  /\ ~OutcomeUnknown => Regular

Project == mode.kind = "project"

(* The reducer chose an action that changes something.                      *)
ActInv ==
  mem.pc = "act" =>
    /\ mem.act = "begin_closing" => op.work # "closing"
    /\ mem.act = "observe" => op.last # DeliveryBatch

(* Every batch has a call, and a command is alone in its turn.              *)
ShapeInv ==
  \A b \in 1..Len(batches) :
    /\ 1 \in DOMAIN batches[b].items
    /\ Shell(b) => DOMAIN batches[b].items = {1}

(* A project task is never answered.                                        *)
PlainInv ==
  mode.kind = "project" =>
    /\ \A n \in 1..Last : sends[n].reply # "answer"
    /\ \A b \in 1..Len(batches) : \A i \in DOMAIN batches[b].items :
         batches[b].items[i].kind # "answer"

SInv == ActInv /\ ShapeInv /\ PlainInv

-----------------------------------------------------------------------------
(* Positions and commits.                                                  *)

(* The transitions of the loop.                                             *)
LEMMA Moves ==
  /\ \A l \in CancelLeaves : "closing" \in LeafNext[l]
  /\ "provider_effect_pending" \in LeafNext["provider_request_ready"]
  /\ \A l \in {"provider_response_ready", "control_ready", "tool_delivery_pending",
                "writer_running", "repair_running"} : l \in LeafNext["provider_effect_pending"]
  /\ \A l \in {"control_ready", "completion_pending", "plan_ready"} :
       l \in LeafNext["provider_response_ready"]
  /\ "tool_effect_pending" \in LeafNext["plan_ready"]
  /\ "tool_delivery_pending" \in LeafNext["tool_effect_pending"]
  /\ "control_ready" \in LeafNext["completion_pending"]
  /\ "completion_pending" \in LeafNext["control_ready"]
  /\ \A l \in {"writer_running", "repair_running", "tool_delivery_pending", "control_ready",
                "closing"} : "provider_request_ready" \in LeafNext[l]
  /\ \A l \in {"writer_running", "repair_running", "writer_settled", "repair_settled"} :
       l \in LeafNext["kernel_settled"]
  BY DEF LeafNext, CancelLeaves

(* What the driver keeps.                                                   *)
LEMMA Points ==
  ASSUME NEW m \in Driver, NEW res, NEW b, NEW pc, NEW act
  PROVE  /\ Loop(m).pc = "loop" /\ Loop(m).res = m.res /\ Loop(m).batch = m.batch
         /\ Halt(m, res).pc = "end" /\ Halt(m, res).res = res
         /\ [m EXCEPT !.batch = b].batch = b /\ [m EXCEPT !.batch = b].res = m.res
         /\ [m EXCEPT !.batch = b].pc = m.pc /\ [m EXCEPT !.batch = b].act = m.act
         /\ [m EXCEPT !.act = act].act = act /\ [m EXCEPT !.act = act].res = m.res
         /\ [m EXCEPT !.act = act].pc = m.pc /\ [m EXCEPT !.act = act].batch = m.batch
         /\ [m EXCEPT !.pc = pc].pc = pc /\ [m EXCEPT !.pc = pc].res = m.res
         /\ [m EXCEPT !.pc = pc].act = m.act /\ [m EXCEPT !.pc = pc].batch = m.batch
         /\ [m EXCEPT !.pc = pc, !.act = act].pc = pc
         /\ [m EXCEPT !.pc = pc, !.act = act].res = m.res
         /\ [m EXCEPT !.pc = pc, !.act = act].batch = m.batch
  BY DEF Driver, Loop, Halt

LEMMA OffPoints ==
  /\ Off \in Driver /\ Off.pc = "off" /\ Off.batch = 0 /\ Off.res = ""
  /\ Loop(Off).pc = "loop" /\ Loop(Off).batch = 0 /\ Loop(Off).res = ""
  BY DEF Off, Driver, Loop, Actions, Works

(* A commit goes through, or the drive ends and the store is as it was.     *)
LEMMA CommitEnds ==
  ASSUME KInv, NEW o, NEW s, NEW b, NEW m, Commit(o, s, b, m)
  PROVE  \/ op' = o /\ sends' = s /\ batches' = b /\ mem' = m
         \/ /\ UNCHANGED <<op, sends, batches>>
            /\ mem'.pc = "end"
            /\ Legal(o) => mem'.res = "stopped"
            /\ mem'.res \in {"stopped", "illegal"}
<1>1. mem \in Driver
  BY DEF KInv
<1>2. /\ Halt(mem, "stopped").pc = "end" /\ Halt(mem, "stopped").res = "stopped"
      /\ Halt(mem, "illegal").pc = "end" /\ Halt(mem, "illegal").res = "illegal"
  BY <1>1, Points
<1> QED
  BY <1>2 DEF Commit

LEMMA SaveEnds ==
  ASSUME KInv, NEW o, NEW m, Save(o, m)
  PROVE  \/ op' = o /\ UNCHANGED <<sends, batches>> /\ mem' = m
         \/ /\ UNCHANGED <<op, sends, batches>>
            /\ mem'.pc = "end"
            /\ Legal(o) => mem'.res = "stopped"
            /\ mem'.res \in {"stopped", "illegal"}
  BY CommitEnds DEF Save

(* freeze saves the request, or raises.                                     *)
LEMMA FreezeEnds ==
  ASSUME KInv, NEW m \in Driver, NEW lt, NEW close, NEW round, Freeze(m, lt, close, round)
  PROVE  \/ Save(Frozen(m, lt, close, round), Loop(m))
         \/ /\ (NeedsSource /\ Source = 0) \/ BusyBatches # {}
            /\ mem'.pc = "end" /\ UNCHANGED <<op, sends, batches>>
  BY Points DEF Freeze, Frozen

-----------------------------------------------------------------------------
(* No action of the loop is without effect.                                *)

Changed == op' # op \/ sends' # sends \/ batches' # batches

(* Saving another position is a change.                                     *)
LEMMA SaveMoves ==
  ASSUME KInv, NEW o, NEW m, Save(o, m), mem'.pc # "end", o # op
  PROVE  Changed
  BY SaveEnds DEF Changed

LEMMA FreezeMoves ==
  ASSUME KInv, NEW m \in Driver, NEW lt, NEW close, NEW round, Freeze(m, lt, close, round),
         mem'.pc # "end", op.leaf # "provider_request_ready"
  PROVE  Changed
<1>1. Save(Frozen(m, lt, close, round), Loop(m))
  BY FreezeEnds
<1>2. Frozen(m, lt, close, round).leaf = "provider_request_ready"
  BY DEF Frozen, Transition, KInv, Position, Operation
<1>3. Frozen(m, lt, close, round) # op
  BY <1>2
<1> QED
  BY <1>1, <1>3, SaveMoves


(* What interpret may save: it keeps the response, and decides.             *)
LEMMA InterpretSaves ==
  ASSUME KInv, NEW repeated \in BOOLEAN, Interpret(repeated)
  PROVE  \E o :
           /\ Save(o, Loop(mem))
           /\ o.resp = op.resp /\ o.turn = op.turn /\ o.last = op.last
           /\ \/ o.leaf = "closing" /\ o.work = op.work /\ sends[op.resp].close
              \/ o.leaf = "closing" /\ o.work = "closing"
              \/ /\ o.leaf = "control_ready" /\ o.work \in {"retry", "question"}
                 /\ ~sends[op.resp].close
              \/ /\ o.leaf \in {"completion_pending", "plan_ready"} /\ o.work = ""
                 /\ ~sends[op.resp].close
<1> DEFINE counted == [op EXCEPT !.invalid = op.invalid + 1]
           ready(leaf) == [Transition(op, leaf) EXCEPT !.invalid = 0]
           cut == [Decided(op, "control_ready", "retry") EXCEPT !.cut = TRUE]
           Stays(o) == o.resp = op.resp /\ o.turn = op.turn /\ o.last = op.last
<1>1. op \in Operation
  BY DEF KInv, Position
<1>2. \/ sends[op.resp].close /\ Save(Transition(op, "closing"), Loop(mem))
      \/ /\ ~sends[op.resp].close
         /\ \E o \in {Close(op), cut, Close(counted),
                     Decided(counted, "control_ready", "retry"),
                     Decided(op, "control_ready", "question"),
                     ready("completion_pending"), ready("plan_ready")} : Save(o, Loop(mem))
  BY DEF Interpret
<1>3. /\ Stays(Transition(op, "closing")) /\ Transition(op, "closing").leaf = "closing"
      /\ Transition(op, "closing").work = op.work
  BY <1>1 DEF Transition, Operation, ResponseLeaves, PendingLeaves, WorkLeaves
<1>4. ASSUME NEW o \in {Close(op), Close(counted)}
      PROVE  Stays(o) /\ o.leaf = "closing" /\ o.work = "closing"
  BY <1>1 DEF Close, Decided, Transition, Operation, ResponseLeaves, PendingLeaves
<1>5. ASSUME NEW o \in {cut, Decided(counted, "control_ready", "retry"),
                        Decided(op, "control_ready", "question")}
      PROVE  Stays(o) /\ o.leaf = "control_ready" /\ o.work \in {"retry", "question"}
  BY <1>1 DEF Decided, Transition, Operation, ResponseLeaves, PendingLeaves
<1>6. ASSUME NEW o \in {ready("completion_pending"), ready("plan_ready")}
      PROVE  Stays(o) /\ o.leaf \in {"completion_pending", "plan_ready"} /\ o.work = ""
  BY <1>1 DEF Transition, Operation, ResponseLeaves, PendingLeaves, WorkLeaves
<1> HIDE DEF counted, ready, cut
<1> QED
  BY <1>2, <1>3, <1>4, <1>5, <1>6

(* A position with another leaf is another position.                        *)
LEMMA LeafMoves ==
  ASSUME KInv, NEW o, NEW m, Save(o, m), mem'.pc # "end", o.leaf # op.leaf
  PROVE  Changed
<1>1. o # op
  OBVIOUS
<1> QED
  BY <1>1, SaveMoves

(* The reducer's action is executed where the reducer chose it.             *)
LEMMA ActsAt ==
  ASSUME KInv, LInv, NEW act, Do(act)
  PROVE  Chosen(act) /\ mem.pc = "act" /\ mem.act = act
  BY DEF LInv, ChoiceInv, Do

(* The executors that save a position or freeze a request.                  *)
LEMMA PositionMoves ==
  ASSUME KInv, LInv, mem'.pc # "end",
         \/ PrepareTurn \/ Redeliver \/ PrepareControl \/ ResumeQuestion \/ WriteBusy
         \/ \E complete, novel \in BOOLEAN : Evaluate(complete, novel)
         \/ \E repeated \in BOOLEAN : Interpret(repeated)
  PROVE  Changed
<1>0. op \in Operation /\ mem \in Driver
  BY DEF KInv, Position
<1>1. CASE PrepareTurn
  <2>1. op.leaf \in {"writer_running", "repair_running"}
    BY <1>1, ActsAt DEF PrepareTurn, Chosen
  <2>2. Save(Close(op), Loop(mem)) \/ Freeze(mem, op.lt + 1, FALSE, op.round)
    BY <1>1 DEF PrepareTurn
  <2> QED
    BY <1>0, <2>1, <2>2, TransitionLeaf, LeafMoves, FreezeMoves
<1>2. CASE Redeliver
  <2> DEFINE m == [mem EXCEPT !.batch = DeliveryBatch]
  <2>1. op.leaf = "tool_delivery_pending"
    BY <1>2, ActsAt DEF Redeliver, Chosen
  <2>2. m \in Driver
    BY <1>0, DeliveryRange, Lengths, DriverBatch
  <2>3. \/ Save(Transition(op, "completion_pending"), Loop(m))
        \/ Save(Close(op), Loop(m))
        \/ Freeze(m, op.turn + 1, FALSE, op.round)
    BY <1>2 DEF Redeliver
  <2> HIDE DEF m
  <2>4. /\ Transition(op, "completion_pending").leaf = "completion_pending"
        /\ Close(op).leaf = "closing"
    BY <1>0, TransitionLeaf
  <2>5. CASE Save(Transition(op, "completion_pending"), Loop(m))
    BY <2>1, <2>4, <2>5, LeafMoves
  <2>6. CASE Save(Close(op), Loop(m))
    BY <2>1, <2>4, <2>6, LeafMoves
  <2>7. CASE Freeze(m, op.turn + 1, FALSE, op.round)
    BY <2>1, <2>2, <2>7, FreezeMoves
  <2> QED
    BY <2>3, <2>5, <2>6, <2>7
<1>3. CASE PrepareControl
  <2>1. op.leaf = "control_ready" /\ op.work # ""
    BY <1>3, ActsAt DEF PrepareControl, Chosen, KInv, Decision, Do
  <2>2. ~(Source = 0 \/ Stranded)
    BY <1>3, DriverPoints DEF PrepareControl
  <2>3. op.work \in {"retry", "question", "done"}
    BY <1>0, <2>1, <2>2 DEF Operation, Works, Stranded
  <2>4. \/ \E lt, close, round : Freeze(mem, lt, close, round)
        \/ \E o \in {Transition(op, "closing"), Transition(op, "completion_pending"), Close(op)} :
             Save(o, Loop(mem))
    <3>1. CASE op.work = "retry"
      BY <1>3, <2>2, <3>1 DEF PrepareControl
    <3>2. CASE op.work = "question"
      BY <1>3, <2>2, <3>2 DEF PrepareControl
    <3>3. CASE op.work = "done" /\ sends[Source].reply = "answer"
      BY <1>3, <2>2, <3>3 DEF PrepareControl
    <3>4. CASE op.work = "done" /\ sends[Source].reply # "answer"
      BY <1>3, <2>2, <3>4 DEF PrepareControl
    <3> QED
      BY <2>3, <3>1, <3>2, <3>3, <3>4
  <2>5. CASE \E lt, close, round : Freeze(mem, lt, close, round)
    BY <1>0, <2>1, <2>5, FreezeMoves
  <2>6. ASSUME NEW o \in {Transition(op, "closing"), Transition(op, "completion_pending"), Close(op)},
               Save(o, Loop(mem))
        PROVE  Changed
    <3>1. o.leaf # "control_ready"
      BY <1>0, TransitionLeaf
    <3> QED
      BY <2>1, <2>6, <3>1, LeafMoves
  <2> QED
    BY <2>4, <2>5, <2>6
<1>4. CASE ResumeQuestion
  <2>1. op.leaf = "kernel_settled"
    BY <1>4, ActsAt DEF ResumeQuestion, Chosen
  <2>2. Save(Transition(op, Running(op.phase)), Loop(mem))
    BY <1>4 DEF ResumeQuestion
  <2>3. Transition(op, Running(op.phase)).leaf = Running(op.phase)
    BY <1>0, TransitionLeaf
  <2>4. Running(op.phase) # "kernel_settled"
    BY DEF Running
  <2> QED
    BY <2>1, <2>2, <2>3, <2>4, LeafMoves
<1>5. CASE WriteBusy
  <2>1. op.leaf = "plan_ready"
    BY <1>5, ActsAt DEF WriteBusy, Chosen
  <2>2. Save(Close(op), Loop(mem))
    BY <1>5 DEF WriteBusy
  <2> QED
    BY <1>0, <2>1, <2>2, TransitionLeaf, LeafMoves
<1>6. CASE \E complete, novel \in BOOLEAN : Evaluate(complete, novel)
  <2>1. op.leaf = "completion_pending"
    BY <1>6, ActsAt DEF Evaluate, Chosen
  <2>2. PICK o : /\ Save(o, Loop(mem))
                 /\ o \in {Decided(op, "control_ready", "done"),
                           [Decided(op, "control_ready", "retry") EXCEPT !.idle = @ + 1],
                           [Decided(op, "control_ready", "retry") EXCEPT !.idle = 0]}
    BY <1>6 DEF Evaluate
  <2>3. /\ Decided(op, "control_ready", "done").leaf = "control_ready"
        /\ [Decided(op, "control_ready", "retry") EXCEPT !.idle = @ + 1].leaf = "control_ready"
        /\ [Decided(op, "control_ready", "retry") EXCEPT !.idle = 0].leaf = "control_ready"
    BY <1>0 DEF Decided, Transition, Operation
  <2> QED
    BY <2>1, <2>2, <2>3, LeafMoves
<1>7. CASE \E repeated \in BOOLEAN : Interpret(repeated)
  <2>1. op.leaf = "provider_response_ready"
    BY <1>7, ActsAt DEF Interpret, Chosen
  <2>2. PICK o : /\ Save(o, Loop(mem))
                 /\ o.leaf \in {"closing", "control_ready", "completion_pending", "plan_ready"}
    BY <1>0, <1>7, InterpretSaves
  <2> QED
    BY <2>1, <2>2, LeafMoves
<1> QED
  BY <1>1, <1>2, <1>3, <1>4, <1>5, <1>6, <1>7


(* settle_kernel_boundary: the verdict or the reopened phase, and the end   *)
(* of the generation if there is one.                                       *)
BoundaryReached ==
  /\ op'.resp = 0 /\ op'.last = op.last
  /\ \/ op'.leaf = "kernel_settled" /\ op'.work = op.work
     \/ op'.leaf \in {"writer_running", "repair_running"} /\ op'.work = "" /\ op.work = "done"
  /\ \/ Unsettled = {} /\ UNCHANGED <<sends, batches>>
     \/ \E n \in Unsettled : sends' = SettleSend(n, "ok") /\ batches' = Delivered(n)
  /\ mem' = Loop(mem)

LEMMA BoundaryEffect ==
  ASSUME KInv, LInv, KernelBoundary, op.leaf = "closing"
  PROVE  \/ BoundaryReached
         \/ UNCHANGED <<op, sends, batches>> /\ mem'.pc = "end" /\ mem'.res = "stopped"
<1> DEFINE settled == Transition(op, "kernel_settled")
           waiting == {x \in Unsettled : sends[x].reply # ""}
           n == CHOOSE x \in waiting : TRUE
<1>0. op \in Operation /\ mem \in Driver
  BY DEF KInv, Position
<1>1. /\ settled.leaf = "kernel_settled" /\ settled.resp = 0 /\ settled.last = op.last
      /\ settled.work = op.work
  BY <1>0 DEF Transition, Operation, ResponseLeaves, WorkLeaves
<1>2. settled \in Operation
  BY Lengths, LeavesAre, PositionTransition DEF KInv, Position
<1>3. waiting = Unsettled
  BY DEF LInv, SendsInv
<1>4. Halt(mem, "stopped").pc = "end" /\ Halt(mem, "stopped").res = "stopped"
  BY <1>0, Points
<1>5. \/ /\ op' = settled \/ (op.work = "done" /\ op' = Transition(settled, Running(op.phase)))
         /\ sends' = (IF waiting = {} THEN sends ELSE SettleSend(n, "ok"))
         /\ batches' = (IF waiting = {} THEN batches ELSE Delivered(n))
         /\ mem' = Loop(mem)
      \/ UNCHANGED <<op, sends, batches>> /\ mem' = Halt(mem, "stopped")
  BY DEF KernelBoundary
<1>6. waiting # {} => n \in Unsettled
  OBVIOUS
<1> HIDE DEF settled, waiting, n
<1>7. ASSUME NEW leaf \in {"writer_running", "repair_running"}
      PROVE  LET x == Transition(settled, leaf)
             IN  x.leaf = leaf /\ x.resp = 0 /\ x.last = op.last /\ x.work = ""
  BY <1>1, <1>2 DEF Transition, Operation, ResponseLeaves, WorkLeaves
<1>8. Running(op.phase) \in {"writer_running", "repair_running"}
  BY DEF Running
<1> QED
  BY <1>1, <1>3, <1>4, <1>5, <1>6, <1>7, <1>8 DEF BoundaryReached

(* close_protocol: an acknowledgement is prepared, from the sink's batch or *)
(* from results that were never sent; or the rounds are used up; or the     *)
(* boundary is reached.                                                     *)
Acknowledges(m) ==
  /\ m \in Driver /\ m.pc = "act" /\ m.res = mem.res
  /\ m.batch = mem.batch \/ (m.batch \in OpenBatches /\ batches[m.batch].tried = {})
  /\ op.resp # 0
  /\ \/ Freeze(m, sends[op.resp].lt, TRUE, op.round + 1)
     \/ Save(Close(op), [m EXCEPT !.act = "final_boundary"])

LEMMA CloseEffect ==
  ASSUME KInv, LInv, CloseProtocol
  PROVE  /\ op.leaf = "closing"
         /\ \/ op.work = "retry" /\ mem'.pc = "end" /\ UNCHANGED <<op, sends, batches>>
            \/ \E m : Acknowledges(m)
            \/ KernelBoundary
<1>0. op.leaf = "closing" /\ mem \in Driver /\ mem.pc = "act"
  BY ActsAt DEF CloseProtocol, Chosen, KInv
<1> DEFINE fresh == {b \in OpenBatches : batches[b].turn = op.turn /\ batches[b].tried = {}}
           m == IF op.resp # 0 /\ fresh # {}
                THEN [mem EXCEPT !.batch = CHOOSE b \in fresh : TRUE] ELSE mem
<1>1. /\ m \in Driver /\ m.pc = "act" /\ m.res = mem.res
      /\ m.batch = mem.batch \/ (m.batch \in OpenBatches /\ batches[m.batch].tried = {})
  <2>1. CASE op.resp # 0 /\ fresh # {}
    <3>1. PICK b \in fresh : b = CHOOSE x \in fresh : TRUE
      BY <2>1, ChosenMember
    <3>2. b \in Nat /\ b \in OpenBatches /\ batches[b].tried = {}
      BY <3>1, Lengths DEF OpenBatches
    <3>3. m = [mem EXCEPT !.batch = b]
      BY <2>1, <3>1
    <3> HIDE DEF m, fresh
    <3> QED
      BY <1>0, <3>2, <3>3, DriverBatch, Points
  <2>2. CASE ~(op.resp # 0 /\ fresh # {})
    BY <1>0, <2>2
  <2> QED
    BY <2>1, <2>2
<1>2. \/ op.work = "retry" /\ mem' = Halt(mem, "illegal") /\ UNCHANGED <<op, sends, batches>>
      \/ op.resp # 0 /\ Freeze(m, sends[op.resp].lt, TRUE, op.round + 1)
      \/ op.resp # 0 /\ Save(Close(op), [m EXCEPT !.act = "final_boundary"])
      \/ KernelBoundary
  BY DEF CloseProtocol
<1> HIDE DEF m
<1> QED
  BY <1>0, <1>1, <1>2, DriverPoints DEF Acknowledges

(* Settling the pending send is a change.                                   *)
LEMMA SettleMoves ==
  ASSUME KInv, LInv, NEW n \in Unsettled, sends' = SettleSend(n, "ok")
  PROVE  Changed
<1>1. sends[n].st = "pending" /\ sends'[n].st = "ok"
  BY SendsSettled DEF LInv
<1>2. sends' # sends
  BY <1>1
<1> QED
  BY <1>2 DEF Changed

(* The last settlement of a batch moves to its delivery.                    *)
LEMMA ItemMoves ==
  ASSUME KInv, LInv, op.leaf = "tool_effect_pending", NEW b, NEW i, NEW st, NEW m,
         SettleItem(b, i, st, m), PendingItems(b) = {i}, mem'.pc # "end"
  PROVE  Changed
<1>1. op \in Operation
  BY DEF KInv, Position
<1>2. \/ op' = Transition(op, "tool_delivery_pending")
      \/ mem'.pc = "end"
  BY CommitEnds DEF SettleItem
<1>3. Transition(op, "tool_delivery_pending").leaf = "tool_delivery_pending"
  BY <1>1, TransitionLeaf
<1> QED
  BY <1>2, <1>3 DEF Changed

(* The executors that settle calls and sends, and the boundaries.           *)
LEMMA LedgerMoves ==
  ASSUME KInv, LInv, SInv, mem.pc # "loop", mem'.pc = "loop",
         \/ \E reply \in Replies : Receive(reply)
         \/ SkipSlot \/ \E st \in {"ok", "error"} : SettleSlot(st)
         \/ Reconcile \/ Boundary \/ CloseProtocol \/ FinalBoundary
  PROVE  Changed
<1>0. op \in Operation /\ mem \in Driver
  BY DEF KInv, Position
<1>1. CASE \E reply \in Replies : Receive(reply)
  <2>1. PICK reply \in Replies : Receive(reply)
    BY <1>1
  <2>2. op.leaf = "provider_effect_pending"
    BY <2>1 DEF Receive, LInv, FlightInv
  <2>3. op' = [Transition(op, "provider_response_ready") EXCEPT !.resp = op.turn]
    <3>1. Commit([Transition(op, "provider_response_ready") EXCEPT !.resp = op.turn],
                 [sends EXCEPT ![op.turn].reply = reply], batches,
                 Loop([mem EXCEPT !.batch = 0]))
      BY <2>1 DEF Receive
    <3> QED
      BY <3>1, CommitEnds
  <2>4. op'.leaf = "provider_response_ready"
    BY <1>0, <2>3 DEF Transition, Operation
  <2> QED
    BY <2>2, <2>4 DEF Changed
<1>2. CASE SkipSlot \/ \E st \in {"ok", "error"} : SettleSlot(st)
  <2>1. mem.pc \in {"tools", "ran"} /\ op.leaf = "tool_effect_pending"
    BY <1>2 DEF SkipSlot, SettleSlot, LInv, ToolInv
  <2>2. PICK st : SettleItem(mem.batch, Slot, st, AfterSlot)
    BY <1>2 DEF SkipSlot, SettleSlot
  <2>3. mem' = AfterSlot
    BY <2>2, CommitEnds DEF SettleItem
  <2>4. PendingItems(mem.batch) = {Slot}
    <3>1. [mem EXCEPT !.pc = "tools"].pc = "tools"
      BY <1>0, Points
    <3> QED
      BY <2>3, <3>1 DEF AfterSlot
  <2> QED
    BY <2>1, <2>2, <2>4, ItemMoves
<1>3. CASE Reconcile
  <2>1. op.leaf = "tool_effect_pending" /\ Shell(Newest)
    BY <1>3, ActsAt DEF Reconcile, Chosen
  <2>2. /\ (CHOOSE b \in PendingTools : TRUE) = Newest /\ Newest \in 1..Len(batches)
        /\ PendingItems(Newest) # {} /\ PendingItems(Newest) \subseteq DOMAIN batches[Newest].items
    BY <2>1, NewestPending DEF LInv
  <2>3. PendingItems(Newest) = {1}
    BY <2>1, <2>2 DEF SInv, ShapeInv
  <2>4. \E st : SettleItem(Newest, 1, st, Loop(mem))
    BY <1>3, <2>2, DriverPoints DEF Reconcile
  <2> QED
    BY <2>1, <2>3, <2>4, ItemMoves
<1>4. CASE Boundary
  <2>1. Unsettled # {}
    BY <1>4 DEF Boundary, Do, KInv, Decision
  <2>2. PICK n \in Unsettled : Commit(op, SettleSend(n, "ok"), Delivered(n), Loop(mem))
    BY <1>4, <2>1, ChosenMember DEF Boundary
  <2>3. sends' = SettleSend(n, "ok")
    BY <2>2, CommitEnds
  <2> QED
    BY <2>3, SettleMoves
<1>5. CASE CloseProtocol \/ FinalBoundary
  <2>1. op.leaf = "closing"
    BY <1>5, ActsAt DEF CloseProtocol, FinalBoundary, Chosen
  <2>2. CASE KernelBoundary
    BY <2>1, <2>2, BoundaryEffect DEF Changed, BoundaryReached
  <2>3. ASSUME NEW m, Acknowledges(m)
        PROVE  Changed
    <3>1. m \in Driver /\ m.pc = "act"
      BY <2>3 DEF Acknowledges
    <3>2. CASE Freeze(m, sends[op.resp].lt, TRUE, op.round + 1)
      BY <2>1, <3>1, <3>2, FreezeMoves
    <3>3. CASE Save(Close(op), [m EXCEPT !.act = "final_boundary"])
      <4>1. mem' = [m EXCEPT !.act = "final_boundary"]
        BY <3>3, SaveEnds
      <4>2. mem'.pc = "act"
        BY <3>1, <4>1, Points
      <4> QED
        BY <4>2
    <3> QED
      BY <2>3, <3>2, <3>3 DEF Acknowledges
  <2> QED
    BY <1>5, <2>2, <2>3, CloseEffect DEF FinalBoundary
<1> QED
  BY <1>1, <1>2, <1>3, <1>4, <1>5

-----------------------------------------------------------------------------
(* What the steps do to the ledger.                                        *)

(* Sends keep what they carry.                                              *)
SameLoads(ss, tt) ==
  /\ Len(tt) = Len(ss)
  /\ \A n \in 1..Len(ss) :
       /\ tt[n].batch = ss[n].batch /\ tt[n].close = ss[n].close
       /\ tt[n].work = ss[n].work /\ tt[n].src = ss[n].src

LEMMA LoadsGrounded ==
  ASSUME RecordInv, SameLoads(sends, sends'), NEW m \in 1..Len(sends)
  PROVE  Grounded(sends'[m])
<1>1. /\ sends'[m].batch = sends[m].batch /\ sends'[m].close = sends[m].close
      /\ sends'[m].work = sends[m].work /\ sends'[m].src = sends[m].src
  BY DEF SameLoads
<1>2. Grounded(sends[m])
  BY DEF RecordInv, Last
<1> QED
  BY <1>1, <1>2 DEF Grounded

(* Batches keep the calls they were made of.                                *)
SameShape(bs, cs) ==
  /\ Len(cs) = Len(bs)
  /\ \A c \in 1..Len(bs) :
       /\ DOMAIN cs[c].items = DOMAIN bs[c].items
       /\ \A j \in DOMAIN bs[c].items : cs[c].items[j].kind = bs[c].items[j].kind

LEMMA ShapeKept ==
  ASSUME NEW bs, NEW cs
  PROVE  /\ SameCalls(bs, cs) => SameShape(bs, cs)
         /\ \A b, i : OneRun(bs, cs, b, i) => SameShape(bs, cs)
         /\ \A b, i, st : OneOutcome(bs, cs, b, i, st) => SameShape(bs, cs)
  BY DEF SameShape, SameCalls, OneRun, OneOutcome, SameHeads

(* One row of the sends gets an outcome.                                    *)
LEMMA SettledLoads ==
  ASSUME KInv, NEW n \in Unsettled, NEW st \in {"ok", "not_sent", "maybe_sent"},
         sends' = SettleSend(n, st)
  PROVE  /\ SameLoads(sends, sends')
         /\ \A m \in 1..Last : /\ sends'[m].reply = sends[m].reply
                               /\ sends'[m].st = IF m = n THEN st ELSE sends[m].st
<1>1. n \in 1..Len(sends) /\ sends \in Seq(SendRecord)
  BY Lengths DEF Unsettled
<1>2. sends[n] \in SendRecord
  BY <1>1, Lengths
<1> DEFINE r == [sends[n] EXCEPT !.st = st]
<1>3. /\ r.batch = sends[n].batch /\ r.close = sends[n].close /\ r.work = sends[n].work
      /\ r.src = sends[n].src /\ r.reply = sends[n].reply /\ r.st = st
  BY <1>2 DEF SendRecord
<1>4. sends' = [sends EXCEPT ![n] = r]
  BY DEF SettleSend
<1> HIDE DEF r
<1>5. /\ Len(sends') = Len(sends)
      /\ \A m \in 1..Len(sends) : sends'[m] = IF m = n THEN r ELSE sends[m]
  BY <1>1, <1>4
<1> QED
  BY <1>3, <1>5 DEF SameLoads, Last

LEMMA LengthsNext ==
  ASSUME KInv'
  PROVE  /\ Len(sends') \in Nat /\ DOMAIN sends' = 1..Len(sends')
         /\ Len(batches') \in Nat /\ DOMAIN batches' = 1..Len(batches')
         /\ sends' \in Seq(SendRecord) /\ batches' \in Seq(Batch)
         /\ \A n \in 1..Len(sends') : sends'[n] \in SendRecord
         /\ \A b \in 1..Len(batches') : batches'[b] \in Batch
  BY DEF KInv, Ledger

(* Outcomes that were known stay known.                                     *)
LEMMA StillKnown ==
  ASSUME KInv, KInv', ~OutcomeUnknown,
         \A n \in 1..Len(sends') : sends'[n].st = "maybe_sent" =>
           n \in 1..Len(sends) /\ sends[n].st = "maybe_sent",
         \A b \in 1..Len(batches') : \A i \in DOMAIN batches'[b].items :
           batches'[b].items[i].st = "interrupted" =>
             /\ b \in 1..Len(batches) /\ i \in DOMAIN batches[b].items
             /\ batches[b].items[i].st = "interrupted"
  PROVE  ~OutcomeUnknown'
  BY Lengths, LengthsNext DEF OutcomeUnknown

(* The calls are the same, and the sends but for one outcome or reply.      *)
LEMMA KnownSends ==
  ASSUME KInv, KInv', ~OutcomeUnknown, Len(sends') = Len(sends),
         \A n \in 1..Len(sends) : sends'[n].st = "maybe_sent" => sends[n].st = "maybe_sent",
         SameCalls(batches, batches')
  PROVE  ~OutcomeUnknown'
<1>1. \A b \in 1..Len(batches') : \A i \in DOMAIN batches'[b].items :
           batches'[b].items[i].st = "interrupted" =>
             /\ b \in 1..Len(batches) /\ i \in DOMAIN batches[b].items
             /\ batches[b].items[i].st = "interrupted"
  BY DEF SameCalls
<1> QED
  BY <1>1, StillKnown

(* The end of a generation: the send is settled, and the batch it carried   *)
(* is delivered.  What was loose stays open.                                *)
LEMMA GenerationRows ==
  ASSUME KInv, LInv, KInv', RecordInv, NEW n \in Unsettled,
         sends' = SettleSend(n, "ok"), batches' = Delivered(n)
  PROVE  /\ SameCalls(batches, batches') /\ SameLoads(sends, sends')
         /\ \A m \in 1..Last : sends'[m].reply = sends[m].reply
         /\ Unsettled' = {} /\ OpenBatches' = Loose /\ Loose' = Loose
         /\ \A c \in 1..Len(batches) :
              /\ batches'[c].tried = batches[c].tried
              /\ ActiveAttempts(c)' = ActiveAttempts(c)
              /\ Sendable(c) => Sendable(c)'
         /\ RecordInv'
         /\ ~OutcomeUnknown => ~OutcomeUnknown'
<1>1. /\ SameLoads(sends, sends') /\ Len(sends') = Len(sends)
      /\ \A m \in 1..Last : /\ sends'[m].reply = sends[m].reply
                            /\ sends'[m].st = IF m = n THEN "ok" ELSE sends[m].st
  BY SettledLoads DEF SameLoads
<1>2. /\ Unsettled' = {} /\ Unsettled = {n} /\ n \in 1..Len(sends) /\ sends[n].st = "pending"
  BY SendsSettled, NewestSend DEF LInv
<1>3. /\ SameCalls(batches, batches')
      /\ \A c \in 1..Len(batches) :
           batches'[c].tried = batches[c].tried /\ batches'[c].void = batches[c].void
  BY <1>2, DeliveredEnds
<1>4. ASSUME NEW c \in 1..Len(batches)
      PROVE  batches'[c].end = IF c = sends[n].batch /\ n \in ActiveAttempts(c)
                               THEN "delivered" ELSE batches[c].end
  <2> DEFINE b == sends[n].batch
  <2>1. b \in 0..Len(batches)
    BY <1>2 DEF KInv, Ledger
  <2>2. CASE b # 0 /\ n \in ActiveAttempts(b)
    <3>1. batches' = WithEnd(batches, b, "delivered")
      BY <2>2 DEF Delivered, WithEnd
    <3>2. b \in 1..Len(batches)
      BY <2>1, <2>2, Lengths
    <3> HIDE DEF b
    <3>3. batches'[c].end = IF c = b THEN "delivered" ELSE batches[c].end
      BY <3>1, <3>2, Lengths, EndRows
    <3> QED
      BY <2>2, <3>3 DEF b
  <2>3. CASE ~(b # 0 /\ n \in ActiveAttempts(b))
    <3>1. batches' = batches
      BY <2>3 DEF Delivered
    <3>2. c # 0
      BY Lengths
    <3> QED
      BY <2>3, <3>1, <3>2
  <2> QED
    BY <2>2, <2>3
<1>5. ASSUME NEW c \in 1..Len(batches)
      PROVE  ActiveAttempts(c)' = ActiveAttempts(c)
  BY <1>3 DEF ActiveAttempts
<1>6. /\ DOMAIN batches' = 1..Len(batches) /\ DOMAIN batches = 1..Len(batches)
      /\ Len(batches') = Len(batches)
  BY <1>3, Lengths, LengthsNext DEF SameCalls
<1>7. Carried = {sends[n].batch} /\ Carried' = {}
  BY <1>2 DEF Carried
<1>8. ASSUME NEW c \in 1..Len(batches)
      PROVE  Open(c)' <=> Open(c) /\ c # sends[n].batch
  <2>1. CASE c = sends[n].batch
    <3>1. n \in ActiveAttempts(c)
      BY <1>2, <2>1, Lengths DEF RecordInv
    <3> QED
      BY <1>4, <2>1, <3>1 DEF Open
  <2>2. CASE c # sends[n].batch
    BY <1>4, <2>2 DEF Open
  <2> QED
    BY <2>1, <2>2
<1>9. OpenBatches' = Loose /\ Loose' = Loose
  BY <1>6, <1>7, <1>8 DEF OpenBatches, Loose
<1>10. ASSUME NEW c \in 1..Len(batches), Sendable(c)
       PROVE  Sendable(c)'
  <2>1. c # sends[n].batch
    BY <1>2, <1>10, Lengths DEF RecordInv, Sendable
  <2>2. \A k \in ActiveAttempts(c) : k \in 1..Last /\ k # n
    BY <1>2, <1>10, AttemptSends DEF Sendable, Last
  <2> QED
    BY <1>1, <1>5, <1>8, <1>10, <2>1, <2>2 DEF Sendable
<1>11. RecordInv'
  <2>1. \A m \in 1..Last' : Grounded(sends'[m])
    BY <1>1, LoadsGrounded DEF Last
  <2>2. \A b \in 1..Len(batches') : \A m \in batches'[b].tried : sends'[m].batch = b
    <3>1. \A b \in 1..Len(batches) : batches[b].tried \subseteq 1..Len(sends)
      BY DEF KInv, Ledger
    <3> QED
      BY <1>1, <1>3, <1>6, <3>1 DEF RecordInv, SameLoads
  <2> QED
    BY <1>2, <2>1, <2>2 DEF RecordInv
<1>12. ~OutcomeUnknown => ~OutcomeUnknown'
  BY <1>1, <1>3, KnownSends DEF Last
<1> QED
  BY <1>1, <1>2, <1>3, <1>5, <1>9, <1>10, <1>11, <1>12


(* admit_provider_request begins one send, and joins it to its batch.       *)
SendBegun ==
  /\ op'.leaf = "provider_effect_pending" /\ op'.turn = Last + 1 /\ op'.resp = 0
  /\ op'.work = op.work /\ op'.last = op.last
  /\ Len(sends') = Last + 1 /\ Unsettled' = {Last + 1}
  /\ \A k \in 1..Last : sends'[k] = sends[k]
  /\ LET s == sends'[Last + 1]
     IN  /\ s.batch = op.req.batch /\ s.close = op.req.close /\ s.work = op.req.work
         /\ s.src = op.req.src /\ s.st = "pending" /\ s.reply = ""
  /\ SameCalls(batches, batches')
  /\ \A c \in 1..Len(batches) :
       /\ batches'[c].end = batches[c].end
       /\ batches'[c].tried = batches[c].tried \union
            (IF c = op.req.batch THEN {Last + 1} ELSE {})
       /\ ActiveAttempts(c)' = IF c = op.req.batch THEN {Last + 1} ELSE ActiveAttempts(c)
  /\ mem'.pc = "send" /\ mem'.res = mem.res

LEMMA SubmitEffect ==
  ASSUME KInv, LInv, KInv', Submit
  PROVE  \/ SendBegun
         \/ /\ UNCHANGED <<op, sends, batches>> /\ mem'.pc = "end"
            /\ \/ mem'.res = "stopped"
               \/ op.req.batch # 0 /\ ~Resendable(op.req.batch)
<1> DEFINE n == Len(sends) + 1
           b == op.req.batch
           s == [batch |-> b, close |-> op.req.close, work |-> op.req.work,
                 src |-> op.req.src, lt |-> op.req.lt, st |-> "pending",
                 reply |-> "", ran |-> FALSE]
           row == [batches[b] EXCEPT !.tried = @ \union {n},
                                     !.void  = @ \union ActiveAttempts(b)]
           cs == IF b = 0 THEN batches ELSE [batches EXCEPT ![b] = row]
           o == [Transition(op, "provider_effect_pending") EXCEPT
                   !.turn = n, !.round = op.req.round]
           m == [mem EXCEPT !.pc = "send", !.act = ""]
<1>0. /\ mem.pc = "act" /\ op.leaf = "provider_request_ready" /\ Unsettled = {}
      /\ op \in Operation /\ mem \in Driver
  BY DEF Submit, Do, LInv, ChoiceInv, Chosen, KInv, Position
<1>2. n \in Nat /\ Len(sends) \in Nat /\ Len(batches) \in Nat
  BY Lengths
<1>5. /\ o.leaf = "provider_effect_pending" /\ o.turn = n /\ o.resp = 0
      /\ o.work = op.work /\ o.last = op.last
  <2> HIDE DEF n
  <2> QED
    BY <1>0 DEF Transition, Operation, ResponseLeaves, WorkLeaves
<1>L. Legal(o)
  <2> HIDE DEF o
  <2> QED
    BY <1>0, <1>5 DEF Legal, LeafNext
<1>1. \/ op' = o /\ sends' = Append(sends, s) /\ batches' = cs /\ mem' = m
      \/ /\ UNCHANGED <<op, sends, batches>> /\ mem'.pc = "end"
         /\ mem'.res = "stopped" \/ (b # 0 /\ ~Resendable(b))
  <2>1. CASE ~MaySend \/ (b # 0 /\ ~Resendable(b))
    <3>1. mem' = Halt(mem, IF MaySend THEN "illegal" ELSE "stopped") /\ UNCHANGED <<op, sends, batches>>
      BY <2>1 DEF Submit
    <3>2. /\ Halt(mem, "illegal").pc = "end"
          /\ Halt(mem, "stopped").pc = "end" /\ Halt(mem, "stopped").res = "stopped"
      BY <1>0, Points
    <3> QED
      BY <2>1, <3>1, <3>2
  <2>2. CASE ~(~MaySend \/ (b # 0 /\ ~Resendable(b)))
    <3>1. Commit(o, Append(sends, s), cs, m)
      BY <2>2 DEF Submit
    <3> QED
      BY <1>L, <3>1, CommitEnds
  <2> QED
    BY <2>1, <2>2
<1>3. op.req \in Request /\ b \in 0..Len(batches)
  <2>1. op.req \in Request
    BY <1>0 DEF Operation
  <2> QED
    BY <2>1 DEF KInv, Position
<1>4. /\ s \in SendRecord /\ s.st = "pending" /\ s.reply = "" /\ s.batch = b
      /\ s.close = op.req.close /\ s.work = op.req.work /\ s.src = op.req.src
  BY <1>3 DEF Request, SendRecord
<1>6. b # 0 => b \in 1..Len(batches) /\ batches[b] \in Batch
  BY <1>2, <1>3, Lengths
<1>7. b # 0 => /\ row.end = batches[b].end
               /\ row.items = batches[b].items /\ row.turn = batches[b].turn
               /\ row.tried = batches[b].tried \union {n}
               /\ row.void = batches[b].void \union ActiveAttempts(b)
  <2> HIDE DEF b, n
  <2>1. ActiveAttempts(b) = batches[b].tried \ batches[b].void
    BY DEF ActiveAttempts
  <2> QED
    BY <1>2, <1>6, <2>1 DEF Batch
<1>8. /\ Len(cs) = Len(batches)
      /\ \A c \in 1..Len(batches) : cs[c] = IF c = b THEN row ELSE batches[c]
  <2> HIDE DEF b, row
  <2>1. CASE b = 0
    BY <2>1, Lengths
  <2>2. CASE b # 0
    BY <2>2, <1>6, Lengths
  <2> QED
    BY <2>1, <2>2
<1>10. m.pc = "send" /\ m.res = mem.res
  BY <1>0, Points
<1>12. CASE op' = o /\ sends' = Append(sends, s) /\ batches' = cs /\ mem' = m
  <2> HIDE DEF b, s, row, cs, o, m
  <2>0. /\ Len(sends') = n /\ \A k \in Unsettled' : k = n
        /\ \A k \in 1..Len(sends) : sends'[k] = sends[k]
    BY <1>0, <1>4, <1>12, SendsBegun
  <2>1. sends'[n] = s
    BY <1>12, Lengths
  <2>2. n \in Unsettled'
    <3>1. DOMAIN sends' = 1..n /\ n \in 1..n
      BY <1>2, <2>0, LengthsNext
    <3> QED
      BY <1>4, <2>1, <3>1 DEF Unsettled
  <2>3. SameCalls(batches, batches')
    BY <1>6, <1>7, <1>8, <1>12 DEF SameCalls
  <2> HIDE DEF n
  <2>4. ASSUME NEW c \in 1..Len(batches)
        PROVE  /\ batches'[c].end = batches[c].end
               /\ batches'[c].tried = batches[c].tried \union (IF c = b THEN {n} ELSE {})
               /\ ActiveAttempts(c)' = IF c = b THEN {n} ELSE ActiveAttempts(c)
    <3>1. CASE c = b
      <4>1. c # 0 /\ batches'[c] = row
        BY <1>2, <1>8, <1>12, <3>1
      <4>2. ActiveAttempts(c)' = {n}
        <5>1. batches[c].void \subseteq 1..Len(sends) /\ batches[c].tried \subseteq 1..Len(sends)
          BY DEF KInv, Ledger
        <5>2. n \notin batches[c].void /\ n \notin batches[c].tried
          BY <1>2, <5>1 DEF n
        <5>3. ActiveAttempts(c)' = (batches[c].tried \union {n}) \
                 (batches[c].void \union (batches[c].tried \ batches[c].void))
          BY <1>7, <3>1, <4>1, Zenon DEF ActiveAttempts
        <5> QED
          BY <5>2, <5>3
      <4> QED
        BY <1>7, <3>1, <4>1, <4>2
    <3>2. CASE c # b
      <4>1. batches'[c] = batches[c]
        BY <1>8, <1>12, <3>2
      <4>2. ActiveAttempts(c)' = ActiveAttempts(c)
        BY <4>1 DEF ActiveAttempts
      <4> QED
        BY <3>2, <4>1, <4>2
    <3> QED
      BY <3>1, <3>2
  <2>5. /\ op'.leaf = "provider_effect_pending" /\ op'.turn = n /\ op'.resp = 0
        /\ op'.work = op.work /\ op'.last = op.last
        /\ mem'.pc = "send" /\ mem'.res = mem.res
    BY <1>5, <1>10, <1>12
  <2>6. Unsettled' = {n} /\ Len(sends') = n /\ \A k \in 1..Len(sends) : sends'[k] = sends[k]
    BY <2>0, <2>2
  <2>7. /\ sends'[n].batch = b /\ sends'[n].close = op.req.close /\ sends'[n].work = op.req.work
        /\ sends'[n].src = op.req.src /\ sends'[n].st = "pending" /\ sends'[n].reply = ""
    BY <1>4, <2>1
  <2>8. n = Last + 1 /\ b = op.req.batch /\ 1..Last = 1..Len(sends)
    BY DEF n, b, Last
  <2> QED
    BY <2>3, <2>4, <2>5, <2>6, <2>7, <2>8, Zenon DEF SendBegun
<1> QED
  BY <1>1, <1>12


(* The send in progress reaches the provider.                               *)
LEMMA SendEffect ==
  ASSUME KInv, Send
  PROVE  /\ SameLoads(sends, sends') /\ UNCHANGED <<op, batches>>
         /\ \A k \in 1..Last : sends'[k].st = sends[k].st /\ sends'[k].reply = sends[k].reply
         /\ mem'.pc = "sent" /\ mem'.res = mem.res
<1>0. mem \in Driver /\ op.turn \in 1..Len(sends)
  BY Lengths DEF KInv, InFlight, Send
<1> DEFINE r == [sends[op.turn] EXCEPT !.ran = TRUE]
<1>1. sends[op.turn] \in SendRecord
  BY <1>0, Lengths
<1>2. /\ r.batch = sends[op.turn].batch /\ r.close = sends[op.turn].close
      /\ r.work = sends[op.turn].work /\ r.src = sends[op.turn].src
      /\ r.reply = sends[op.turn].reply /\ r.st = sends[op.turn].st
  BY <1>1 DEF SendRecord
<1>3. sends' = [sends EXCEPT ![op.turn] = r]
  BY DEF Send
<1> HIDE DEF r
<1>4. /\ Len(sends') = Len(sends)
      /\ \A m \in 1..Len(sends) : sends'[m] = IF m = op.turn THEN r ELSE sends[m]
  BY <1>0, <1>3, Lengths
<1>5. mem'.pc = "sent" /\ mem'.res = mem.res /\ UNCHANGED <<op, batches>>
  BY <1>0, Points DEF Send
<1> QED
  BY <1>2, <1>4, <1>5 DEF SameLoads, Last

(* The response is recorded.                                                *)
ReplyRecorded(reply) ==
  /\ SameLoads(sends, sends') /\ batches' = batches
  /\ \A k \in 1..Last :
       sends'[k].st = sends[k].st /\ sends'[k].reply = IF k = op.turn THEN reply ELSE sends[k].reply
  /\ op'.leaf = "provider_response_ready" /\ op'.resp = op.turn /\ op'.turn = op.turn
  /\ op'.work = op.work /\ op'.last = op.last
  /\ mem'.pc = "loop" /\ mem'.batch = 0 /\ mem'.res = mem.res

LEMMA ReceiveEffect ==
  ASSUME KInv, LInv, NEW reply \in Replies, Receive(reply)
  PROVE  \/ ReplyRecorded(reply)
         \/ UNCHANGED <<op, sends, batches>> /\ mem'.pc = "end" /\ mem'.res = "stopped"
<1>0. /\ mem \in Driver /\ op.turn \in 1..Len(sends) /\ op \in Operation
      /\ op.leaf = "provider_effect_pending" /\ op.turn # 0
  <2>1. mem \in Driver /\ op.turn \in 1..Len(sends) /\ op \in Operation
    BY Lengths DEF KInv, InFlight, Receive, Position
  <2> QED
    BY <2>1, Lengths DEF LInv, FlightInv, Receive
<1> DEFINE r == [sends[op.turn] EXCEPT !.reply = reply]
           o == [Transition(op, "provider_response_ready") EXCEPT !.resp = op.turn]
           z == [mem EXCEPT !.batch = 0]
<1>1. sends[op.turn] \in SendRecord
  BY <1>0, Lengths
<1>2. /\ r.batch = sends[op.turn].batch /\ r.close = sends[op.turn].close
      /\ r.work = sends[op.turn].work /\ r.src = sends[op.turn].src
      /\ r.reply = reply /\ r.st = sends[op.turn].st
  BY <1>1 DEF SendRecord
<1>3. Commit(o, [sends EXCEPT ![op.turn] = r], batches, Loop(z))
  BY DEF Receive
<1>4. /\ o.leaf = "provider_response_ready" /\ o.resp = op.turn /\ o.turn = op.turn
      /\ o.work = op.work /\ o.last = op.last
  BY <1>0 DEF Transition, Operation, WorkLeaves, PendingLeaves
<1>5. z \in Driver /\ z.batch = 0 /\ z.res = mem.res
  BY <1>0, DriverBatch, Points
<1> HIDE DEF r, o, z
<1>6. Loop(z).pc = "loop" /\ Loop(z).batch = 0 /\ Loop(z).res = mem.res
  BY <1>5, Points
<1>7. Legal(o)
  BY <1>0, <1>4 DEF Legal, LeafNext
<1>8. /\ Len([sends EXCEPT ![op.turn] = r]) = Len(sends)
      /\ \A m \in 1..Len(sends) :
           [sends EXCEPT ![op.turn] = r][m] = IF m = op.turn THEN r ELSE sends[m]
  BY <1>0, Lengths
<1>9. CASE op' = o /\ sends' = [sends EXCEPT ![op.turn] = r] /\ batches' = batches /\ mem' = Loop(z)
  <2>1. /\ Len(sends') = Len(sends)
        /\ \A m \in 1..Len(sends) : sends'[m] = IF m = op.turn THEN r ELSE sends[m]
    BY <1>8, <1>9
  <2> QED
    BY <1>2, <1>4, <1>6, <1>9, <2>1 DEF ReplyRecorded, SameLoads, Last
<1> QED
  BY <1>3, <1>7, <1>9, CommitEnds

(* The results that an unsent request carried are back.                     *)
Bounced(n, st) ==
  /\ st = "not_sent" /\ sends[n].batch # 0
  /\ Open(sends[n].batch) /\ n \in ActiveAttempts(sends[n].batch)

(* What a position becomes whose send failed.                               *)
LEMMA FailedFields ==
  ASSUME KInv, NEW n \in 1..Len(sends), NEW st
  PROVE  /\ FailedSend(n, st).last = op.last
         /\ FailedSend(n, st).work = op.work
         /\ op.work # "" =>
              /\ FailedSend(n, st).leaf = "control_ready"
              /\ FailedSend(n, st).resp = op.resp /\ FailedSend(n, st).turn = op.turn
         /\ op.work = "" /\ Bounced(n, st) =>
              /\ FailedSend(n, st).leaf = "tool_delivery_pending"
              /\ FailedSend(n, st).turn = batches[sends[n].batch].turn
              /\ FailedSend(n, st).resp = op.resp
         /\ op.work = "" /\ ~Bounced(n, st) =>
              /\ FailedSend(n, st).leaf = Running(op.phase)
              /\ FailedSend(n, st).resp = 0
<1>0. op \in Operation
  BY DEF KInv, Position
<1>1. CASE op.work # ""
  <2>1. FailedSend(n, st) = Transition(op, "control_ready")
    BY <1>1 DEF FailedSend
  <2> QED
    BY <1>0, <1>1, <2>1 DEF Transition, Operation, ResponseLeaves, PendingLeaves, WorkLeaves
<1>2. CASE op.work = ""
  <2> DEFINE b == sends[n].batch
             t == Transition(op, "tool_delivery_pending")
  <2>1. CASE Bounced(n, st)
    <3>1. FailedSend(n, st) = [t EXCEPT !.turn = batches[b].turn, !.lt = batches[b].turn]
      BY <1>2, <2>1 DEF FailedSend, Bounced
    <3>2. /\ t.last = op.last /\ t.work = "" /\ t.leaf = "tool_delivery_pending" /\ t.resp = op.resp
      BY <1>0 DEF Transition, Operation, ResponseLeaves, PendingLeaves, WorkLeaves
    <3>3. t \in Operation
      BY Lengths, LeavesAre, PositionTransition DEF KInv, Position
    <3> HIDE DEF t, b
    <3>4. LET x == [t EXCEPT !.turn = batches[b].turn, !.lt = batches[b].turn]
          IN  /\ x.last = op.last /\ x.work = "" /\ x.leaf = "tool_delivery_pending"
              /\ x.turn = batches[b].turn /\ x.resp = op.resp
      BY <3>2, <3>3 DEF Operation
    <3> QED
      BY <1>2, <2>1, <3>1, <3>4 DEF b
  <2>2. CASE ~Bounced(n, st)
    <3>1. FailedSend(n, st) = Transition(op, Running(op.phase))
      BY <1>2, <2>2 DEF FailedSend, Bounced
    <3>2. Running(op.phase) \in {"writer_running", "repair_running"}
      BY DEF Running
    <3>3. ASSUME NEW leaf \in {"writer_running", "repair_running"}
          PROVE  LET x == Transition(op, leaf)
                 IN  x.last = op.last /\ x.leaf = leaf /\ x.resp = 0 /\ x.work = ""
      BY <1>0 DEF Transition, Operation, ResponseLeaves, PendingLeaves, WorkLeaves
    <3> QED
      BY <1>2, <2>2, <3>1, <3>2, <3>3
  <2> QED
    BY <2>1, <2>2
<1> QED
  BY <1>1, <1>2


(* A send ends badly, or is found pending by another worker.                *)
SendFailed(st) ==
  /\ op' = FailedSend(op.turn, st) /\ sends' = SettleSend(op.turn, st) /\ batches' = batches
  /\ mem'.pc = "end" /\ mem'.res \in {"failed", "unknown"}

LEMMA RunningAt == \A phase : Running(phase) \in {"writer_running", "repair_running"}
  BY DEF Running

LEMMA FailEffect ==
  ASSUME KInv, LInv, SettleUnknown \/ \E st \in {"not_sent", "maybe_sent"} : SendFails(st)
  PROVE  /\ op.leaf = "provider_effect_pending" /\ op.turn \in Unsettled
         /\ \/ \E st \in {"not_sent", "maybe_sent"} : SendFailed(st)
            \/ UNCHANGED <<op, sends, batches>> /\ mem'.pc = "end" /\ mem'.res = "stopped"
<1>0. op \in Operation /\ mem \in Driver
  BY DEF KInv, Position
<1>1. op.leaf = "provider_effect_pending" /\ op.turn \in Unsettled
  <2>1. CASE SettleUnknown
    BY <2>1, ActsAt DEF SettleUnknown, Chosen, KInv, Decision, Do
  <2>2. CASE \E st \in {"not_sent", "maybe_sent"} : SendFails(st)
    <3>1. mem.pc \in {"send", "sent"}
      BY <2>2 DEF SendFails
    <3> QED
      BY <3>1, Lengths DEF KInv, InFlight, LInv, FlightInv, Unsettled
  <2> QED
    BY <2>1, <2>2
<1>2. PICK st \in {"not_sent", "maybe_sent"}, m \in {Halt(mem, "failed"), Halt(mem, "unknown")} :
        Commit(FailedSend(op.turn, st), SettleSend(op.turn, st), batches, m)
  BY DEF SettleUnknown, SendFails
<1>3. m.pc = "end" /\ m.res \in {"failed", "unknown"}
  BY <1>0, Points
<1>4. FailedSend(op.turn, st).leaf \in {"control_ready", "tool_delivery_pending",
                                         "writer_running", "repair_running"}
  <2>1. op.turn \in 1..Len(sends)
    BY <1>1, Lengths DEF Unsettled
  <2>2. Running(op.phase) \in {"writer_running", "repair_running"}
    BY RunningAt
  <2>3. CASE op.work # ""
    BY <2>1, <2>3, FailedFields
  <2>4. CASE op.work = "" /\ Bounced(op.turn, st)
    BY <2>1, <2>4, FailedFields
  <2>5. CASE op.work = "" /\ ~Bounced(op.turn, st)
    BY <2>1, <2>2, <2>5, FailedFields
  <2> QED
    BY <2>3, <2>4, <2>5
<1>5. Legal(FailedSend(op.turn, st))
  BY <1>1, <1>4, Moves DEF Legal
<1>6. CASE /\ op' = FailedSend(op.turn, st) /\ sends' = SettleSend(op.turn, st)
           /\ batches' = batches /\ mem' = m
  BY <1>1, <1>3, <1>6 DEF SendFailed
<1> QED
  BY <1>1, <1>2, <1>5, <1>6, CommitEnds

(* The calls of a turn begin.                                               *)
BatchBegun ==
  /\ op.leaf = "plan_ready" /\ sends' = sends
  /\ op'.leaf = "tool_effect_pending" /\ op'.turn = batches'[Newest + 1].turn
  /\ op'.resp = op.resp /\ op'.work = "" /\ op'.last = op.last
  /\ Len(batches') = Newest + 1
  /\ \A c \in 1..Newest : batches'[c] = batches[c]
  /\ LET new == batches'[Newest + 1]
     IN  /\ new.tried = {} /\ new.end = "open"
         /\ 1 \in DOMAIN new.items
         /\ new.items[1].kind = "shell" => DOMAIN new.items = {1}
         /\ \A i \in DOMAIN new.items :
              /\ new.items[i].st = "pending"
              /\ new.items[i].kind = "answer" => sends[op.resp].reply = "answer"
  /\ mem'.pc \in {"ask", "tools"} /\ mem'.batch = Newest + 1 /\ mem'.res = mem.res

LEMMA KindsOf ==
  ASSUME NEW reply, NEW items,
         items = [i \in DOMAIN ItemsOf(reply) |->
                    [kind |-> ItemsOf(reply)[i], st |-> "pending", runs |-> 0]]
  PROVE  /\ items[1].kind = "shell" => DOMAIN items = {1}
         /\ \A i \in DOMAIN items : items[i].kind = "answer" => reply = "answer"
<1> DEFINE kinds == ItemsOf(reply)
<1>1. /\ 1 \in DOMAIN kinds
      /\ kinds[1] = "shell" => DOMAIN kinds = {1}
      /\ \A i \in DOMAIN kinds : kinds[i] = "answer" => reply = "answer"
  <2>1. CASE reply = "mixed"
    BY <2>1 DEF ItemsOf
  <2>2. CASE reply = "shell"
    BY <2>2 DEF ItemsOf
  <2>3. CASE reply = "answer"
    BY <2>3 DEF ItemsOf
  <2>4. CASE reply \notin {"mixed", "shell", "answer"}
    BY <2>4 DEF ItemsOf
  <2> QED
    BY <2>1, <2>2, <2>3, <2>4
<1> HIDE DEF kinds
<1>2. items = [i \in DOMAIN kinds |-> [kind |-> kinds[i], st |-> "pending", runs |-> 0]]
  BY DEF kinds
<1> QED
  BY <1>1, <1>2

LEMMA BeginBatchEffect ==
  ASSUME KInv, LInv, KInv', BeginBatch
  PROVE  \/ BatchBegun
         \/ UNCHANGED <<op, sends, batches>> /\ mem'.pc = "end" /\ mem'.res = "stopped"
<1> DEFINE s == sends[op.resp]
           kinds == ItemsOf(s.reply)
           b == Len(batches) + 1
           items == [i \in DOMAIN kinds |-> [kind |-> kinds[i], st |-> "pending", runs |-> 0]]
           row == [turn |-> s.lt, tried |-> {}, void |-> {}, end |-> "open", items |-> items]
           o == [Transition(op, "tool_effect_pending") EXCEPT !.turn = s.lt]
           m == [mem EXCEPT !.batch = b, !.act = "",
                            !.pc = IF s.reply = "shell" THEN "ask" ELSE "tools"]
<1>0. op.leaf = "plan_ready" /\ op \in Operation /\ mem \in Driver
  BY ActsAt DEF BeginBatch, Chosen, KInv, Position
<1>1. /\ Halt(mem, "stopped").pc = "end" /\ Halt(mem, "stopped").res = "stopped"
  BY <1>0, Points
<1>2. /\ o.leaf = "tool_effect_pending" /\ o.turn = s.lt /\ o.resp = op.resp
      /\ o.work = "" /\ o.last = op.last
  <2> HIDE DEF s
  <2> QED
    BY <1>0 DEF Transition, Operation, ResponseLeaves, PendingLeaves, WorkLeaves
<1>3. m.pc \in {"ask", "tools"} /\ m.batch = b /\ m.res = mem.res
  <2> HIDE DEF s, b
  <2> QED
    BY <1>0 DEF Driver
<1>4. /\ 1 \in DOMAIN items
      /\ items[1].kind = "shell" => DOMAIN items = {1}
      /\ \A i \in DOMAIN items :
           items[i].st = "pending" /\ (items[i].kind = "answer" => s.reply = "answer")
  BY CallsOf, KindsOf
<1>5. /\ row.turn = s.lt /\ row.tried = {} /\ row.end = "open" /\ row.items = items
  BY DEF row
<1>6. \/ op' = o /\ batches' = Append(batches, row) /\ mem' = m /\ sends' = sends
      \/ UNCHANGED <<op, sends, batches>> /\ mem'.pc = "end" /\ mem'.res = "stopped"
  <2>1. CASE io.cancel
    BY <1>1, <2>1 DEF BeginBatch
  <2>2. CASE ~io.cancel
    <3>1. Commit(o, sends, Append(batches, row), m)
      BY <2>2 DEF BeginBatch
    <3> HIDE DEF o, row, m
    <3>2. Legal(o)
      BY <1>0, <1>2, Moves DEF Legal
    <3> QED
      BY <3>1, <3>2, CommitEnds
  <2> QED
    BY <2>1, <2>2
<1>7. CASE op' = o /\ batches' = Append(batches, row) /\ mem' = m /\ sends' = sends
  <2> HIDE DEF items, kinds, row, o, m, s
  <2>1. /\ Len(batches') = b /\ \A c \in 1..Len(batches) : batches'[c] = batches[c]
        /\ batches'[b] = row
    BY <1>7, Lengths
  <2>2. b = Newest + 1 /\ 1..Newest = 1..Len(batches) /\ s = sends[op.resp]
    BY DEF b, Newest, s
  <2> HIDE DEF b
  <2>3. /\ op'.leaf = "tool_effect_pending" /\ op'.turn = batches'[b].turn
        /\ op'.resp = op.resp /\ op'.work = "" /\ op'.last = op.last
        /\ mem'.pc \in {"ask", "tools"} /\ mem'.batch = b /\ mem'.res = mem.res
    BY <1>2, <1>3, <1>5, <1>7, <2>1
  <2>4. LET new == batches'[b]
        IN  /\ new.tried = {} /\ new.end = "open"
            /\ 1 \in DOMAIN new.items
            /\ new.items[1].kind = "shell" => DOMAIN new.items = {1}
            /\ \A i \in DOMAIN new.items :
                 /\ new.items[i].st = "pending"
                 /\ new.items[i].kind = "answer" => sends[op.resp].reply = "answer"
    BY <1>4, <1>5, <2>1, <2>2
  <2>5. BatchBegun
    <3>1. b = Newest + 1
      BY <2>2
    <3>2. sends' = sends /\ Len(batches') = b /\ \A c \in 1..Newest : batches'[c] = batches[c]
      BY <1>7, <2>1, <2>2
    <3> QED
      BY ONLY <1>0, <2>3, <2>4, <3>1, <3>2 DEF BatchBegun
  <2> QED
    BY <2>5
<1> QED
  BY <1>6, <1>7

(* A call runs.                                                             *)
LEMMA RunEffect ==
  ASSUME KInv, LInv, RunSlot \/ RunCommand
  PROVE  /\ op.leaf = "tool_effect_pending" /\ UNCHANGED <<op, sends>>
         /\ \E b, i : OneRun(batches, batches', b, i)
         /\ mem'.batch = mem.batch /\ mem'.res = mem.res
         /\ mem' = mem \/ (mem.pc = "tools" /\ mem'.pc = "ran")
<1>0. mem \in Driver
  BY DEF KInv
<1>1. CASE RunSlot
  <2>1. op.leaf = "tool_effect_pending" /\ mem.batch = Newest
    BY <1>1 DEF LInv, ToolInv, RunSlot
  <2>2. PICK i \in PendingItems(Newest) : i = Slot
    BY <2>1, FirstPending DEF LInv, Slot
  <2>3. Newest \in 1..Len(batches) /\ i \in DOMAIN batches[Newest].items
    BY <2>1, NewestPending DEF LInv
  <2>4. batches' = WithRun(batches, Newest, i)
    BY <1>1, <2>1, <2>2 DEF RunSlot, WithRun
  <2>5. OneRun(batches, batches', Newest, i)
    BY <2>3, <2>4, Lengths, RunRows
  <2>6. mem' = [mem EXCEPT !.pc = "ran"] /\ mem.pc = "tools" /\ UNCHANGED <<op, sends>>
    BY <1>1 DEF RunSlot
  <2> QED
    BY <1>0, <2>1, <2>5, <2>6, Points
<1>2. CASE RunCommand
  <2>1. op.leaf = "tool_effect_pending"
    BY <1>2 DEF LInv, ApprovalInv, ApprovalLive, RunCommand
  <2>2. PICK b \in PendingTools : batches' = WithRun(batches, b, 1)
    BY <1>2 DEF RunCommand, WithRun
  <2>3. b = Newest /\ Newest \in 1..Len(batches) /\ PendingItems(b) # {}
    BY <2>1, <2>2, NewestPending DEF LInv
  <2>4. 1 \in DOMAIN batches[b].items
    BY <2>3, FirstCall
  <2>5. OneRun(batches, batches', b, 1)
    BY <2>2, <2>3, <2>4, Lengths, RunRows
  <2> QED
    BY <1>2, <2>1, <2>5 DEF RunCommand
<1> QED
  BY <1>1, <1>2

(* A call takes its outcome.                                                *)
ItemDone(i, st) ==
  /\ sends' = sends /\ OneOutcome(batches, batches', Newest, i, st)
  /\ op'.last = op.last /\ op'.resp = op.resp /\ op'.turn = op.turn
  /\ op' = op \/ (op'.leaf = "tool_delivery_pending" /\ op'.work = "")

LEMMA ItemEffect ==
  ASSUME KInv, LInv, op.leaf = "tool_effect_pending", NEW i \in DOMAIN batches[Newest].items,
         NEW st, NEW m, SettleItem(Newest, i, st, m)
  PROVE  \/ ItemDone(i, st) /\ mem' = m
         \/ UNCHANGED <<op, sends, batches>> /\ mem'.pc = "end" /\ mem'.res = "stopped"
<1>0. op \in Operation
  BY DEF KInv, Position
<1> DEFINE t == Transition(op, "tool_delivery_pending")
<1>1. PICK o \in {op, t} : Commit(o, sends, WithOutcome(batches, Newest, i, st), m)
  BY DEF SettleItem, WithOutcome
<1>2. /\ t.last = op.last /\ t.resp = op.resp /\ t.turn = op.turn
      /\ t.leaf = "tool_delivery_pending" /\ t.work = ""
  BY <1>0 DEF Transition, Operation, ResponseLeaves, PendingLeaves, WorkLeaves
<1> HIDE DEF t
<1>3. Legal(o)
  <2>1. CASE o = op
    BY <2>1 DEF Legal
  <2>2. CASE o = t
    BY <1>2, <2>2, Moves DEF Legal
  <2> QED
    BY <2>1, <2>2
<1>4. Newest \in 1..Len(batches)
  BY NewestPending DEF LInv
<1>5. OneOutcome(batches, WithOutcome(batches, Newest, i, st), Newest, i, st)
  BY <1>4, Lengths, OutcomeRows
<1>6. CASE op' = o /\ sends' = sends /\ batches' = WithOutcome(batches, Newest, i, st) /\ mem' = m
  BY <1>1, <1>2, <1>5, <1>6 DEF ItemDone
<1> QED
  BY <1>1, <1>3, <1>6, CommitEnds

-----------------------------------------------------------------------------
(* The invariant behind NoSpin.                                            *)

(* A reply "answer" is not given to a project task.                         *)
PlainReplies ==
  \A n \in 1..Len(sends') : sends'[n].reply = "answer" =>
    mode.kind # "project" \/ (n \in 1..Len(sends) /\ sends[n].reply = "answer")

LEMMA GenerationShape ==
  ASSUME KInv, NEW n \in Unsettled, sends' = SettleSend(n, "ok"), batches' = Delivered(n)
  PROVE  SameShape(batches, batches') /\ PlainReplies
<1>1. n \in 1..Len(sends)
  BY Lengths DEF Unsettled
<1>2. SameShape(batches, batches')
  BY <1>1, DeliveredEnds, ShapeKept
<1>3. Len(sends') = Len(sends) /\ \A m \in 1..Len(sends) : sends'[m].reply = sends[m].reply
  BY SettledLoads DEF SameLoads, Last
<1> QED
  BY <1>2, <1>3 DEF PlainReplies

LEMMA StillShape ==
  ASSUME UNCHANGED <<sends, batches>>
  PROVE  SameShape(batches, batches') /\ PlainReplies
  BY DEF SameShape, PlainReplies

(* The executors that leave the ledger alone.                               *)
LEMMA QuietSteps ==
  ASSUME KInv,
         \/ Decide \/ BeginClosing \/ PrepareTurn \/ RequestApproval \/ ReplayBatch
         \/ WaitApproval \/ Redeliver \/ PrepareControl \/ Return \/ ResumeQuestion
         \/ FailInvariant \/ WriteBusy
         \/ \E repeated \in BOOLEAN : Interpret(repeated)
         \/ \E repeats \in BOOLEAN : Observe(repeats)
         \/ \E complete, novel \in BOOLEAN : Evaluate(complete, novel)
  PROVE  UNCHANGED <<mode, sends, batches>>
<1>1. ASSUME NEW o, NEW m, Save(o, m) PROVE UNCHANGED <<sends, batches>>
  BY <1>1, SaveEnds
<1>2. ASSUME NEW m, NEW lt, NEW close, NEW round, Freeze(m, lt, close, round)
      PROVE  UNCHANGED <<sends, batches>>
  BY <1>1, <1>2 DEF Freeze
<1>3. CASE Decide \/ RequestApproval \/ ReplayBatch \/ WaitApproval \/ Return \/ FailInvariant
  BY <1>3 DEF Decide, RequestApproval, ReplayBatch, WaitApproval, Return, FailInvariant
<1>4. CASE BeginClosing \/ WriteBusy \/ ResumeQuestion \/ PrepareTurn
  BY <1>1, <1>2, <1>4 DEF BeginClosing, WriteBusy, ResumeQuestion, PrepareTurn
<1>5. CASE Redeliver
  BY <1>1, <1>2, <1>5 DEF Redeliver
<1>6. CASE \/ \E repeated \in BOOLEAN : Interpret(repeated)
           \/ \E repeats \in BOOLEAN : Observe(repeats)
           \/ \E complete, novel \in BOOLEAN : Evaluate(complete, novel)
  BY <1>1, <1>6 DEF Interpret, Observe, Evaluate
<1>7. CASE PrepareControl
  <2>1. CASE Source = 0 \/ Stranded
    BY <1>7, <2>1 DEF PrepareControl
  <2>2. CASE ~(Source = 0 \/ Stranded)
    <3>1. op.work \in {"retry", "question", "done"}
      <4>1. op.work # "" /\ op \in Operation
        BY <1>7 DEF KInv, Decision, PrepareControl, Do, Position
      <4> QED
        BY <2>2, <4>1 DEF Operation, Works, Stranded
    <3>2. CASE op.work = "retry"
      BY <1>1, <1>2, <1>7, <2>2, <3>2 DEF PrepareControl
    <3>3. CASE op.work = "question"
      BY <1>1, <1>2, <1>7, <2>2, <3>3 DEF PrepareControl
    <3>4. CASE op.work = "done"
      BY <1>1, <1>2, <1>7, <2>2, <3>4 DEF PrepareControl
    <3> QED
      BY <3>1, <3>2, <3>3, <3>4
  <2> QED
    BY <2>1, <2>2
<1> QED
  BY <1>3, <1>4, <1>5, <1>6, <1>7

(* Steps around the driver that leave the ledger alone.                     *)
LEMMA QuietWorld ==
  ASSUME \/ StartWriter \/ StartDrive \/ CloseTask \/ Failover \/ Park
         \/ RecordProof \/ AdmitRepair \/ StartRepair \/ Finish \/ CancelIdle
         \/ RequestCancel \/ QueueInput \/ AnswerQuestion \/ ApprovalStep \/ Drift \/ Crash
         \/ Done \/ UNCHANGED vars
  PROVE  UNCHANGED <<mode, sends, batches>>
  BY ApprovalRests
  DEF StartWriter, StartDrive, CloseTask, Failover, Park, RecordProof, AdmitRepair,
      StartRepair, Finish, CancelIdle, RequestCancel, QueueInput, AnswerQuestion,
      Drift, Crash, Done, Outer, vars

(* Settling a slot, a command or a call that nobody finished.               *)
LEMMA SlotEffect ==
  ASSUME KInv, LInv, SkipSlot \/ (\E st \in {"ok", "error"} : SettleSlot(st)) \/ Reconcile \/ Synthesize
  PROVE  /\ op.leaf = "tool_effect_pending"
         /\ \/ \E i \in DOMAIN batches[Newest].items,
                  st \in {"ok", "error", "interrupted"} :
                 /\ ItemDone(i, st)
                 /\ ~Synthesize => st # "interrupted" /\ mem' \in {Loop(mem), [mem EXCEPT !.pc = "tools"]}
                 /\ Synthesize => st = "interrupted" /\ mem' \in {Halt(mem, "unknown"), mem}
            \/ UNCHANGED <<op, sends, batches>> /\ mem'.pc = "end" /\ mem'.res \in {"stopped", "unknown", "unready"}
<1>0. mem \in Driver
  BY DEF KInv
<1>1. CASE SkipSlot \/ \E st \in {"ok", "error"} : SettleSlot(st)
  <2>1. op.leaf = "tool_effect_pending" /\ mem.batch = Newest
    BY <1>1 DEF LInv, ToolInv, SkipSlot, SettleSlot
  <2>2. PICK i \in PendingItems(Newest) : i = Slot
    BY <2>1, FirstPending DEF LInv, Slot
  <2>3. i \in DOMAIN batches[Newest].items
    BY DEF PendingItems
  <2>4. PICK st \in {"ok", "error"} : SettleItem(Newest, i, st, AfterSlot)
    BY <1>1, <2>1, <2>2 DEF SkipSlot, SettleSlot
  <2>5. AfterSlot \in {Loop(mem), [mem EXCEPT !.pc = "tools"]} /\ ~Synthesize
    BY <1>1 DEF AfterSlot, Synthesize, SkipSlot, SettleSlot, Do
  <2> QED
    BY <2>1, <2>3, <2>4, <2>5, ItemEffect
<1>2. CASE Reconcile
  <2>1. op.leaf = "tool_effect_pending"
    BY <1>2, ActsAt DEF Reconcile, Chosen
  <2>2. /\ (CHOOSE x \in PendingTools : TRUE) = Newest /\ Newest \in 1..Len(batches)
        /\ PendingItems(Newest) # {}
    BY <2>1, NewestPending DEF LInv
  <2>3. 1 \in DOMAIN batches[Newest].items
    BY <2>2, FirstCall
  <2>4. ~Synthesize
    BY <1>2 DEF Reconcile, Synthesize, Do
  <2>5. CASE ReceiptMissing \/ io.approval = "denied"
    <3>1. PICK res \in {"unknown", "unready"} :
            mem' = Halt(mem, res) /\ UNCHANGED <<op, sends, batches>>
      BY <1>2, <2>5 DEF Reconcile
    <3> QED
      BY <1>0, <2>1, <2>4, <3>1, Points
  <2>6. CASE ~(ReceiptMissing \/ io.approval = "denied")
    <3>1. PICK st \in {"ok", "error"} : SettleItem(Newest, 1, st, Loop(mem))
      BY <1>2, <2>2, <2>6 DEF Reconcile
    <3> QED
      BY <2>1, <2>3, <2>4, <3>1, ItemEffect
  <2> QED
    BY <2>5, <2>6
<1>3. CASE Synthesize
  <2>1. op.leaf = "tool_effect_pending"
    BY <1>3, ActsAt DEF Synthesize, Chosen
  <2>2. /\ (CHOOSE x \in PendingTools : TRUE) = Newest /\ Newest \in 1..Len(batches)
    BY <2>1, NewestPending DEF LInv
  <2>3. PICK i \in PendingItems(Newest) :
          i = CHOOSE x \in PendingItems(Newest) : \A y \in PendingItems(Newest) : x <= y
    BY <2>1, FirstPending DEF LInv
  <2>4. i \in DOMAIN batches[Newest].items
    BY DEF PendingItems
  <2>5. PICK m \in {Halt(mem, "unknown"), mem} : SettleItem(Newest, i, "interrupted", m)
    BY <1>3, <2>2, <2>3 DEF Synthesize
  <2> QED
    BY <1>3, <2>1, <2>4, <2>5, ItemEffect
<1> QED
  BY <1>1, <1>2, <1>3


(* Every step keeps the calls of a batch, or begins one.                    *)
LEMMA Shapes ==
  ASSUME KInv, LInv, KInv', [Next]_vars
  PROVE  /\ mode' = mode /\ PlainReplies
         /\ SameShape(batches, batches') \/ BatchBegun
<1>1. CASE \/ Decide \/ BeginClosing \/ PrepareTurn \/ RequestApproval \/ ReplayBatch
           \/ WaitApproval \/ Redeliver \/ PrepareControl \/ Return \/ ResumeQuestion
           \/ FailInvariant \/ WriteBusy
           \/ \E repeated \in BOOLEAN : Interpret(repeated)
           \/ \E repeats \in BOOLEAN : Observe(repeats)
           \/ \E complete, novel \in BOOLEAN : Evaluate(complete, novel)
  BY <1>1, QuietSteps, StillShape
<1>2. CASE \/ StartWriter \/ StartDrive \/ CloseTask \/ Failover \/ Park
           \/ RecordProof \/ AdmitRepair \/ StartRepair \/ Finish \/ CancelIdle
           \/ RequestCancel \/ QueueInput \/ AnswerQuestion \/ ApprovalStep \/ Drift \/ Crash
           \/ Done \/ UNCHANGED vars
  BY <1>2, QuietWorld, StillShape
<1>3. CASE SkipSlot \/ (\E st \in {"ok", "error"} : SettleSlot(st)) \/ Reconcile \/ Synthesize
  <2>1. mode' = mode
    BY <1>3 DEF SkipSlot, SettleSlot, Reconcile, Synthesize
  <2>2. sends' = sends /\ SameShape(batches, batches')
    <3>1. ASSUME NEW i, NEW st, ItemDone(i, st)
          PROVE  sends' = sends /\ SameShape(batches, batches')
      BY <3>1, ShapeKept DEF ItemDone
    <3>2. UNCHANGED <<sends, batches>> => SameShape(batches, batches')
      BY StillShape
    <3> QED
      BY <1>3, <3>1, <3>2, SlotEffect
  <2> QED
    BY <2>1, <2>2 DEF PlainReplies
<1>4. CASE RunSlot \/ RunCommand
  <2>1. mode' = mode
    BY <1>4 DEF RunSlot, RunCommand
  <2>2. sends' = sends /\ SameShape(batches, batches')
    BY <1>4, RunEffect, ShapeKept
  <2> QED
    BY <2>1, <2>2 DEF PlainReplies
<1>5. CASE BeginBatch
  <2>1. mode' = mode
    BY <1>5 DEF BeginBatch
  <2>2. CASE BatchBegun
    BY <2>1, <2>2 DEF BatchBegun, PlainReplies
  <2> QED
    BY <1>5, <2>1, <2>2, BeginBatchEffect, StillShape
<1>6. CASE Submit
  <2>1. mode' = mode
    BY <1>6 DEF Submit
  <2>2. CASE SendBegun
    <3>1. SameShape(batches, batches')
      BY <2>2, ShapeKept DEF SendBegun
    <3>2. PlainReplies
      <4> SUFFICES ASSUME NEW n \in 1..Len(sends'), sends'[n].reply = "answer"
                   PROVE  n \in 1..Len(sends) /\ sends[n].reply = "answer"
        BY DEF PlainReplies
      <4>0. Len(sends') = Last + 1 /\ Last \in Nat
        BY <2>2, Lengths, Zenon DEF SendBegun, Last
      <4>1. n \in 1..Last \/ n = Last + 1
        BY <4>0
      <4> QED
        BY <2>2, <4>1 DEF SendBegun, Last
    <3> QED
      BY <2>1, <3>1, <3>2
  <2> QED
    BY <1>6, <2>1, <2>2, SubmitEffect, StillShape
<1>7. CASE Send
  <2>1. mode' = mode /\ batches' = batches
    BY <1>7 DEF Send
  <2>2. Len(sends') = Len(sends) /\ \A k \in 1..Len(sends) : sends'[k].reply = sends[k].reply
    BY <1>7, SendEffect DEF SameLoads, Last
  <2> QED
    BY <2>1, <2>2 DEF PlainReplies, SameShape
<1>8. CASE \E reply \in Replies : Receive(reply)
  <2>1. PICK reply \in Replies : Receive(reply)
    BY <1>8
  <2>2. mode' = mode /\ (reply = "answer" => mode.kind = "research")
    BY <2>1 DEF Receive
  <2>3. CASE ReplyRecorded(reply)
    <3>1. /\ Len(sends') = Len(sends) /\ batches' = batches
          /\ \A k \in 1..Len(sends) : sends'[k].reply \in {reply, sends[k].reply}
      BY <2>3 DEF ReplyRecorded, SameLoads, Last
    <3>2. PlainReplies
      BY <2>2, <3>1 DEF PlainReplies
    <3> QED
      BY <2>2, <3>1, <3>2 DEF SameShape
  <2> QED
    BY <2>1, <2>2, <2>3, ReceiveEffect, StillShape
<1>9. CASE SettleUnknown \/ \E st \in {"not_sent", "maybe_sent"} : SendFails(st)
  <2>1. mode' = mode
    BY <1>9 DEF SettleUnknown, SendFails
  <2>2. op.turn \in Unsettled
    BY <1>9, FailEffect
  <2>3. ASSUME NEW st \in {"not_sent", "maybe_sent"}, SendFailed(st)
        PROVE  PlainReplies /\ SameShape(batches, batches')
    <3>1. sends' = SettleSend(op.turn, st) /\ batches' = batches
      BY <2>3 DEF SendFailed
    <3>2. Len(sends') = Len(sends) /\ \A k \in 1..Len(sends) : sends'[k].reply = sends[k].reply
      BY <2>2, <3>1, SettledLoads DEF SameLoads, Last
    <3> QED
      BY <3>1, <3>2 DEF PlainReplies, SameShape
  <2> QED
    BY <1>9, <2>1, <2>3, FailEffect, StillShape
<1>10. CASE BeforeRequest
  <2>1. Unsettled # {} /\ mode' = mode
    BY <1>10, ActsAt DEF BeforeRequest, Chosen
  <2>2. PICK n \in Unsettled :
          Commit([op EXCEPT !.resp = 0], SettleSend(n, "ok"), Delivered(n),
                 [mem EXCEPT !.act = "submit"])
    BY <1>10, <2>1, NewestSend DEF BeforeRequest, LInv
  <2> QED
    BY <2>1, <2>2, CommitEnds, GenerationShape, StillShape
<1>11. CASE Boundary
  <2>1. Unsettled # {} /\ mode' = mode
    BY <1>11 DEF Boundary, Do, KInv, Decision
  <2>2. PICK n \in Unsettled : Commit(op, SettleSend(n, "ok"), Delivered(n), Loop(mem))
    BY <1>11, <2>1, ChosenMember DEF Boundary
  <2> QED
    BY <2>1, <2>2, CommitEnds, GenerationShape, StillShape
<1>12. CASE CloseProtocol \/ FinalBoundary
  <2>1. mode' = mode /\ op.leaf = "closing"
    BY <1>12, ActsAt DEF CloseProtocol, FinalBoundary, Chosen
  <2>2. CASE KernelBoundary
    BY <2>1, <2>2, BoundaryEffect, GenerationShape, StillShape DEF BoundaryReached
  <2>3. ASSUME NEW m, Acknowledges(m)
        PROVE  UNCHANGED <<sends, batches>>
    BY <2>3, FreezeEnds, SaveEnds DEF Acknowledges
  <2> QED
    BY <1>12, <2>1, <2>2, <2>3, CloseEffect, StillShape DEF FinalBoundary
<1>13. CASE SettlePhase
  <2>1. mode' = mode /\ sends' = sends /\ batches' = Abandoned
    BY <1>13 DEF SettlePhase
  <2>2. SameShape(batches, batches')
    BY <2>1, AbandonedEnds, ShapeKept
  <2> QED
    BY <2>1, <2>2 DEF PlainReplies
<1> QED
  BY <1>1, <1>2, <1>3, <1>4, <1>5, <1>6, <1>7, <1>8, <1>9, <1>10, <1>11, <1>12, <1>13
  DEF Next, KernelStep, OuterStep, WorldStep, ExecutorStep, ApprovalStep


(* Saving a position, or freezing a request, ends the executor.             *)
LEMMA Resumes ==
  ASSUME KInv, NEW m \in Driver
  PROVE  /\ \A o : Save(o, Loop(m)) => mem'.pc \in {"loop", "end"}
         /\ \A lt, close, round : Freeze(m, lt, close, round) => mem'.pc \in {"loop", "end"}
<1>1. ASSUME NEW o, Save(o, Loop(m)) PROVE mem'.pc \in {"loop", "end"}
  BY <1>1, SaveEnds, Points
<1>2. ASSUME NEW lt, NEW close, NEW round, Freeze(m, lt, close, round)
      PROVE  mem'.pc \in {"loop", "end"}
  BY <1>1, <1>2, FreezeEnds
<1> QED
  BY <1>1, <1>2

LEMMA Executors ==
  ASSUME KInv,
         \/ BeginClosing \/ PrepareTurn \/ WriteBusy \/ ResumeQuestion \/ Redeliver
         \/ PrepareControl
         \/ \E repeated \in BOOLEAN : Interpret(repeated)
         \/ \E repeats \in BOOLEAN : Observe(repeats)
         \/ \E complete, novel \in BOOLEAN : Evaluate(complete, novel)
  PROVE  mem'.pc \in {"loop", "end"}
<1>0. mem \in Driver
  BY DEF KInv
<1> DEFINE m == [mem EXCEPT !.batch = DeliveryBatch]
<1>1. m \in Driver
  BY <1>0, DeliveryRange, Lengths, DriverBatch
<1>2. CASE BeginClosing \/ WriteBusy \/ ResumeQuestion \/ PrepareTurn
  BY <1>0, <1>2, Resumes DEF BeginClosing, WriteBusy, ResumeQuestion, PrepareTurn
<1>3. CASE \/ \E repeated \in BOOLEAN : Interpret(repeated)
           \/ \E complete, novel \in BOOLEAN : Evaluate(complete, novel)
  BY <1>0, <1>3, Resumes DEF Interpret, Evaluate
<1>4. CASE \E repeats \in BOOLEAN : Observe(repeats)
  <2>1. \E o : Save(o, Loop(m))
    BY <1>4 DEF Observe
  <2> QED
    BY <1>1, <2>1, Resumes
<1>5. CASE Redeliver
  <2>1. \/ \E o : Save(o, Loop(m))
        \/ Freeze(m, op.turn + 1, FALSE, op.round)
    BY <1>5 DEF Redeliver
  <2> HIDE DEF m
  <2> QED
    BY <1>1, <2>1, Resumes
<1>6. CASE PrepareControl
  <2>1. CASE Source = 0 \/ Stranded
    BY <1>0, <1>6, <2>1, DriverPoints DEF PrepareControl
  <2>2. CASE ~(Source = 0 \/ Stranded)
    <3>1. op.work \in {"retry", "question", "done"}
      <4>1. op.work # "" /\ op \in Operation
        BY <1>6 DEF KInv, Decision, PrepareControl, Do, Position
      <4> QED
        BY <2>2, <4>1 DEF Operation, Works, Stranded
    <3>2. CASE op.work = "retry"
      BY <1>0, <1>6, <2>2, <3>2, Resumes DEF PrepareControl
    <3>3. CASE op.work = "question"
      BY <1>0, <1>6, <2>2, <3>3, Resumes DEF PrepareControl
    <3>4. CASE op.work = "done"
      BY <1>0, <1>6, <2>2, <3>4, Resumes DEF PrepareControl
    <3> QED
      BY <3>1, <3>2, <3>3, <3>4
  <2> QED
    BY <2>1, <2>2
<1> QED
  BY <1>2, <1>3, <1>4, <1>5, <1>6

(* Where an action waits to be executed: the reducer has just chosen it, it *)
(* goes on to its second half, or nothing happened to it.                   *)
LEMMA ActPoints ==
  ASSUME KInv, LInv, KInv', [Next]_vars, mem'.pc = "act"
  PROVE  \/ Decide
         \/ mem'.act \in {"submit", "final_boundary", "synthesize"}
         \/ UNCHANGED <<op, batches, mem>>
         \/ UNCHANGED <<op, mem>> /\ op.leaf = "tool_effect_pending"
<1>0. mem \in Driver
  BY DEF KInv
<1>1. CASE \/ BeginClosing \/ PrepareTurn \/ WriteBusy \/ ResumeQuestion \/ Redeliver
           \/ PrepareControl
           \/ \E repeated \in BOOLEAN : Interpret(repeated)
           \/ \E repeats \in BOOLEAN : Observe(repeats)
           \/ \E complete, novel \in BOOLEAN : Evaluate(complete, novel)
  BY <1>1, Executors
<1>2. CASE \/ RequestApproval \/ ReplayBatch \/ WaitApproval \/ Return \/ FailInvariant
  <2>1. /\ \A res : Halt(mem, res).pc = "end"
        /\ Loop(mem).pc = "loop"
        /\ \A b : [mem EXCEPT !.pc = "tools", !.act = "", !.batch = b].pc = "tools"
    BY <1>0, Points DEF Driver
  <2> QED
    BY <1>2, <2>1 DEF RequestApproval, ReplayBatch, WaitApproval, Return, FailInvariant
<1>3. CASE StartDrive \/ SettlePhase \/ CloseTask \/ Failover \/ Park \/ Crash
  BY <1>3, OffPoints DEF StartDrive, SettlePhase, CloseTask, Failover, Park, Crash
<1>4. CASE \/ StartWriter \/ RecordProof \/ AdmitRepair \/ StartRepair \/ Finish
  BY <1>4 DEF StartWriter, RecordProof, AdmitRepair, StartRepair, Finish, Outer, Idle
<1>5. CASE \/ CancelIdle \/ RequestCancel \/ QueueInput \/ AnswerQuestion \/ ApprovalStep \/ Drift
           \/ Done \/ UNCHANGED vars
  BY <1>5, ApprovalRests DEF CancelIdle, RequestCancel, QueueInput, AnswerQuestion, Drift, Done, vars
<1>6. CASE SkipSlot \/ (\E st \in {"ok", "error"} : SettleSlot(st)) \/ Reconcile \/ Synthesize
  <2>1. CASE Synthesize
    <3>1. mem' \in {Halt(mem, "unknown"), mem} \/ mem'.pc = "end"
      BY <2>1, SlotEffect
    <3>2. Halt(mem, "unknown").pc = "end" /\ mem.act = "synthesize"
      BY <1>0, <2>1, Points DEF Synthesize, Do
    <3> QED
      BY <3>1, <3>2
  <2>2. CASE ~Synthesize
    <3>1. mem' \in {Loop(mem), [mem EXCEPT !.pc = "tools"]} \/ mem'.pc = "end"
      BY <1>6, <2>2, SlotEffect
    <3>2. Loop(mem).pc = "loop" /\ [mem EXCEPT !.pc = "tools"].pc = "tools"
      BY <1>0, Points
    <3> QED
      BY <3>1, <3>2
  <2> QED
    BY <2>1, <2>2
<1>7. CASE RunSlot \/ RunCommand
  BY <1>7, RunEffect
<1>8. CASE BeginBatch
  BY <1>8, BeginBatchEffect DEF BatchBegun
<1>9. CASE Submit \/ Send
  BY <1>9, SubmitEffect, SendEffect DEF SendBegun
<1>10. CASE \E reply \in Replies : Receive(reply)
  BY <1>10, ReceiveEffect DEF ReplyRecorded
<1>11. CASE SettleUnknown \/ \E st \in {"not_sent", "maybe_sent"} : SendFails(st)
  BY <1>11, FailEffect DEF SendFailed
<1>12. CASE BeforeRequest
  <2>1. mem' = [mem EXCEPT !.act = "submit"]
    BY <1>12, CommitEnds DEF BeforeRequest
  <2> QED
    BY <1>0, <2>1, Points
<1>13. CASE Boundary
  <2>1. mem' = Loop(mem)
    BY <1>13, CommitEnds DEF Boundary
  <2> QED
    BY <1>0, <2>1, Points
<1>14. CASE CloseProtocol \/ FinalBoundary
  <2>1. op.leaf = "closing"
    BY <1>14, ActsAt DEF CloseProtocol, FinalBoundary, Chosen
  <2>2. CASE KernelBoundary
    BY <1>0, <2>1, <2>2, BoundaryEffect, Points DEF BoundaryReached
  <2>3. ASSUME NEW m, Acknowledges(m)
        PROVE  mem'.act = "final_boundary"
    <3>1. m \in Driver
      BY <2>3 DEF Acknowledges
    <3>2. CASE Freeze(m, sends[op.resp].lt, TRUE, op.round + 1)
      BY <3>1, <3>2, Resumes
    <3>3. CASE Save(Close(op), [m EXCEPT !.act = "final_boundary"])
      <4>1. mem' = [m EXCEPT !.act = "final_boundary"]
        BY <3>3, SaveEnds
      <4> QED
        BY <3>1, <4>1, Points
    <3> QED
      BY <2>3, <3>2, <3>3 DEF Acknowledges
  <2> QED
    BY <1>14, <2>1, <2>2, <2>3, CloseEffect DEF FinalBoundary
<1> QED
  BY <1>1, <1>2, <1>3, <1>4, <1>5, <1>6, <1>7, <1>8, <1>9, <1>10, <1>11, <1>12, <1>13, <1>14
  DEF Next, KernelStep, OuterStep, WorldStep, ExecutorStep, ApprovalStep

(* The reducer begins to close what is not closing, and observes a batch    *)
(* that it has not counted.                                                 *)
LEMMA DecideActs ==
  ASSUME KInv, LInv
  PROVE  /\ NextAction = "begin_closing" => op.work # "closing"
         /\ NextAction = "observe" => op.last # DeliveryBatch
<1>1. CASE ~ProgressValid \/ OutcomeUnknown
  BY <1>1 DEF NextAction
<1>2. CASE ProgressValid /\ ~OutcomeUnknown /\ io.cancel /\ op.work # "closing"
           /\ op.leaf \in CancelLeaves
  BY <1>2 DEF NextAction
<1>3. CASE /\ ProgressValid /\ ~OutcomeUnknown
           /\ ~(io.cancel /\ op.work # "closing" /\ op.leaf \in CancelLeaves)
  <2>1. CASE op.leaf = "provider_request_ready"
    BY <1>3, <2>1 DEF NextAction, PreparedRequestAction
  <2>2. CASE op.leaf = "provider_effect_pending"
    BY <1>3, <2>2 DEF NextAction, ProviderPendingAction
  <2>3. CASE op.leaf = "provider_response_ready"
    BY <1>3, <2>3 DEF NextAction, ResponseReadyAction
  <2>4. CASE op.leaf = "tool_effect_pending"
    <3>1. NextAction \in {ApprovalAction, ToolPendingAction}
      BY <1>3, <2>4 DEF NextAction
    <3>2. ApprovalAction \notin {"observe", "begin_closing"}
      BY DEF ApprovalAction
    <3>3. ToolPendingAction \notin {"observe", "begin_closing"}
      BY DEF ToolPendingAction
    <3> QED
      BY <3>1, <3>2, <3>3
  <2>5. CASE op.leaf = "tool_delivery_pending"
    <3>1. NextAction = ToolDeliveryAction
      BY <1>3, <2>5 DEF NextAction
    <3> QED
      BY <3>1 DEF ToolDeliveryAction
  <2>6. CASE op.leaf \in {"writer_running", "repair_running"}
    BY <1>3, <2>6 DEF NextAction, RunningAction
  <2>7. CASE op.leaf \notin {"provider_request_ready", "provider_effect_pending",
                             "provider_response_ready", "tool_effect_pending",
                             "tool_delivery_pending", "writer_running", "repair_running"}
    <3>1. NextAction = ExecutionAction
      BY <1>3, <2>7 DEF NextAction
    <3> QED
      BY <3>1 DEF ExecutionAction
  <2> QED
    BY <2>1, <2>2, <2>3, <2>4, <2>5, <2>6, <2>7
<1> QED
  BY <1>1, <1>2, <1>3


LEMMA SpinInit == Init => SInv
<1> SUFFICES ASSUME Init PROVE SInv
  OBVIOUS
<1>1. mem.pc = "off" /\ Len(sends) = 0 /\ Len(batches) = 0
  BY OffPoints DEF Init
<1> QED
  BY <1>1 DEF SInv, ActInv, ShapeInv, PlainInv, Last

LEMMA DeliveryKept ==
  ASSUME UNCHANGED <<op, batches>>
  PROVE  DeliveryBatch' = DeliveryBatch
  BY DEF DeliveryBatch, OpenBatches, Open

(* The batches after a step: their calls are the old ones, or the new batch's. *)
LEMMA SpinShape ==
  ASSUME KInv, LInv, KInv', ShapeInv, PlainInv, mode' = mode, PlainReplies,
         SameShape(batches, batches') \/ BatchBegun
  PROVE  ShapeInv' /\ PlainInv'
<1>0. Len(sends) \in Nat /\ Len(batches) \in Nat
  BY Lengths
<1>1. mode.kind = "project" => \A n \in 1..Last' : sends'[n].reply # "answer"
  BY DEF PlainInv, PlainReplies, Last
<1>2. CASE SameShape(batches, batches')
  <2>1. ASSUME NEW b \in 1..Len(batches')
        PROVE  /\ 1 \in DOMAIN batches'[b].items
               /\ Shell(b)' => DOMAIN batches'[b].items = {1}
               /\ mode.kind = "project" =>
                    \A i \in DOMAIN batches'[b].items : batches'[b].items[i].kind # "answer"
    <3>1. b \in 1..Len(batches)
      BY <1>2, <2>1 DEF SameShape
    <3>2. /\ DOMAIN batches'[b].items = DOMAIN batches[b].items
          /\ \A j \in DOMAIN batches[b].items : batches'[b].items[j].kind = batches[b].items[j].kind
      BY <1>2, <3>1 DEF SameShape
    <3>3. 1 \in DOMAIN batches[b].items /\ (Shell(b) => DOMAIN batches[b].items = {1})
      BY <3>1 DEF ShapeInv
    <3>4. mode.kind = "project" =>
            \A i \in DOMAIN batches[b].items : batches[b].items[i].kind # "answer"
      BY <3>1 DEF PlainInv
    <3> QED
      BY <3>2, <3>3, <3>4 DEF Shell
  <2> QED
    BY <1>1, <2>1 DEF ShapeInv, PlainInv
<1>3. CASE BatchBegun
  <2>0. Len(batches') = Newest + 1 /\ \A c \in 1..Newest : batches'[c] = batches[c]
    BY <1>3 DEF BatchBegun
  <2>1. ASSUME NEW b \in 1..Len(batches')
        PROVE  /\ 1 \in DOMAIN batches'[b].items
               /\ Shell(b)' => DOMAIN batches'[b].items = {1}
               /\ mode.kind = "project" =>
                    \A i \in DOMAIN batches'[b].items : batches'[b].items[i].kind # "answer"
    <3>1. CASE b \in 1..Newest
      <4>1. batches'[b] = batches[b]
        BY <2>0, <3>1
      <4> QED
        BY <3>1, <4>1 DEF ShapeInv, PlainInv, Shell, Newest
    <3>2. CASE b = Newest + 1
      <4>1. /\ 1 \in DOMAIN batches'[b].items
            /\ batches'[b].items[1].kind = "shell" => DOMAIN batches'[b].items = {1}
            /\ \A i \in DOMAIN batches'[b].items :
                 batches'[b].items[i].kind = "answer" => sends[op.resp].reply = "answer"
        BY <1>3, <3>2 DEF BatchBegun
      <4>2. op.resp \in 1..Last
        <5>1. op.leaf = "plan_ready"
          BY <1>3 DEF BatchBegun
        <5>2. op.resp \in 0..Len(sends) /\ op.resp # 0
          BY <5>1 DEF KInv, Position
        <5> QED
          BY <1>0, <5>2 DEF Last
      <4> QED
        BY <4>1, <4>2 DEF PlainInv, Shell
    <3> QED
      BY <1>0, <2>0, <3>1, <3>2 DEF Newest
  <2> QED
    BY <1>1, <2>1 DEF ShapeInv, PlainInv
<1> QED
  BY <1>2, <1>3

LEMMA SpinNext ==
  ASSUME KInv, LInv, SInv, KInv', [Next]_vars
  PROVE  SInv'
<1>1. ShapeInv' /\ PlainInv'
  BY Shapes, SpinShape DEF SInv
<1>2. ASSUME mem'.pc = "act"
      PROVE  /\ mem'.act = "begin_closing" => op'.work # "closing"
             /\ mem'.act = "observe" => op'.last # DeliveryBatch'
  <2>1. CASE Decide
    <3>1. UNCHANGED <<op, batches>> /\ mem'.act = NextAction
      BY <2>1 DEF Decide, KInv, Driver
    <3> QED
      BY <3>1, DecideActs, DeliveryKept
  <2>2. CASE mem'.act \in {"submit", "final_boundary", "synthesize"}
    BY <2>2
  <2>3. CASE UNCHANGED <<op, batches, mem>>
    BY <1>2, <2>3, DeliveryKept DEF SInv, ActInv
  <2>4. CASE UNCHANGED <<op, mem>> /\ op.leaf = "tool_effect_pending"
    BY <1>2, <2>4 DEF SInv, ActInv, LInv, ChoiceInv, Chosen
  <2> QED
    BY <1>2, <2>1, <2>2, <2>3, <2>4, ActPoints
<1> QED
  BY <1>1, <1>2 DEF SInv, ActInv

LEMMA SpinHolds == Spec => [](KInv /\ LInv /\ SInv)
<1>1. Init => KInv /\ LInv /\ SInv
  BY InitInv, LedgerInit, SpinInit
<1>2. KInv /\ LInv /\ SInv /\ [Next]_vars => (KInv /\ LInv /\ SInv)'
  BY NextInv, LedgerNext, SpinNext
<1> QED
  BY <1>1, <1>2, PTL DEF Spec

(* No step of the loop leaves everything as it was and begins again.        *)
LEMMA SpinFree ==
  ASSUME KInv, LInv, SInv, KInv', Next,
         mem.pc # "loop", mem'.pc = "loop", mem.pc \notin {"off", "ask", "end"}
  PROVE  Changed
<1>0. op \in Operation /\ mem \in Driver
  BY DEF KInv, Position
<1>1. CASE BeginClosing
  <2>1. Save(Close(op), Loop(mem)) /\ op.work # "closing"
    BY <1>1 DEF BeginClosing, Do, SInv, ActInv
  <2>2. Close(op).work = "closing"
    BY <1>0 DEF Close, Decided, Transition, Operation
  <2> QED
    BY <2>1, <2>2, SaveMoves
<1>2. CASE \E repeats \in BOOLEAN : Observe(repeats)
  <2>1. op.last # DeliveryBatch
    BY <1>2 DEF Observe, Do, SInv, ActInv
  <2>2. PICK idle, m : Save([op EXCEPT !.last = DeliveryBatch, !.idle = idle], m)
    BY <1>2 DEF Observe
  <2>3. [op EXCEPT !.last = DeliveryBatch, !.idle = idle].last = DeliveryBatch
    BY <1>0 DEF Operation
  <2>4. [op EXCEPT !.last = DeliveryBatch, !.idle = idle] # op
    BY <2>1, <2>3
  <2> QED
    BY <2>2, <2>4, SaveMoves
<1>3. CASE \/ PrepareTurn \/ Redeliver \/ PrepareControl \/ ResumeQuestion \/ WriteBusy
           \/ \E complete, novel \in BOOLEAN : Evaluate(complete, novel)
           \/ \E repeated \in BOOLEAN : Interpret(repeated)
  BY <1>3, PositionMoves
<1>4. CASE \/ \E reply \in Replies : Receive(reply)
           \/ SkipSlot \/ \E st \in {"ok", "error"} : SettleSlot(st)
           \/ Reconcile \/ Boundary \/ CloseProtocol \/ FinalBoundary
  BY <1>4, LedgerMoves
<1>5. CASE Decide \/ RequestApproval
  BY <1>5 DEF Decide, RequestApproval
<1>6. CASE ReplayBatch \/ WaitApproval \/ Return \/ FailInvariant
  <2>1. /\ \A res : Halt(mem, res).pc = "end"
        /\ \A b : [mem EXCEPT !.pc = "tools", !.act = "", !.batch = b].pc = "tools"
    BY <1>0, Points DEF Driver
  <2> QED
    BY <1>6, <2>1 DEF ReplayBatch, WaitApproval, Return, FailInvariant
<1>7. CASE \/ StartDrive \/ SettlePhase \/ CloseTask \/ Failover \/ Park \/ StartWriter
           \/ RecordProof \/ AdmitRepair \/ StartRepair \/ Finish \/ CancelIdle
  BY <1>7 DEF StartDrive, SettlePhase, CloseTask, Failover, Park, StartWriter, RecordProof,
              AdmitRepair, StartRepair, Finish, CancelIdle, Outer, Idle
<1>8. CASE Crash
  BY <1>8, OffPoints DEF Crash
<1>9. CASE \/ RequestCancel \/ QueueInput \/ AnswerQuestion \/ ApprovalStep \/ Drift
           \/ Done
  BY <1>9, ApprovalRests DEF RequestCancel, QueueInput, AnswerQuestion, Drift, Done, vars
<1>10. CASE RunSlot \/ RunCommand
  BY <1>10, RunEffect
<1>11. CASE BeginBatch
  BY <1>11, BeginBatchEffect DEF BatchBegun
<1>12. CASE Submit \/ Send
  BY <1>12, SubmitEffect, SendEffect DEF SendBegun
<1>13. CASE SettleUnknown \/ \E st \in {"not_sent", "maybe_sent"} : SendFails(st)
  BY <1>13, FailEffect DEF SendFailed
<1>14. CASE BeforeRequest
  <2>1. mem' = [mem EXCEPT !.act = "submit"] /\ mem.pc = "act"
    BY <1>14, CommitEnds DEF BeforeRequest, Do
  <2> QED
    BY <1>0, <2>1, Points
<1>15. CASE Synthesize
  <2>1. mem' = mem \/ mem'.pc = "end"
    BY <1>0, <1>15, SlotEffect, Points
  <2> QED
    BY <2>1
<1> QED
  BY <1>1, <1>2, <1>3, <1>4, <1>5, <1>6, <1>7, <1>8, <1>9, <1>10, <1>11, <1>12, <1>13, <1>14,
     <1>15
  DEF Next, KernelStep, OuterStep, WorldStep, ExecutorStep, ApprovalStep

(* Every action of the loop changes the durable view, for every mode, every *)
(* set of replies and every bound: drive_kernel's "made no progress" guard  *)
(* never fires.                                                             *)
THEOREM NeverSpins == Spec => NoSpin
<1>1. KInv /\ LInv /\ SInv /\ KInv' /\ [Next]_vars =>
        [mem.pc # "loop" /\ mem'.pc = "loop" /\ mem.pc \notin {"off", "ask", "end"}
           => <<op, sends, batches>>' # <<op, sends, batches>>]_vars
  BY SpinFree DEF Changed
<1>2. Spec => [](KInv /\ LInv /\ SInv)
  BY SpinHolds
<1> QED
  BY <1>1, <1>2, PTL DEF Spec, NoSpin


-----------------------------------------------------------------------------
(* The invariant behind NoDeadEnd and DoneSettles, step by step.           *)

(* A batch is counted only once its calls are settled.                      *)
LEMMA ProgressNext ==
  ASSUME KInv', LInv', op'.leaf = "tool_effect_pending" => op'.last # Newest'
  PROVE  ProgressValid'
<1>1. op'.last \in 0..Len(batches') /\ Len(batches') \in Nat /\ DOMAIN batches' = 1..Len(batches')
  BY LengthsNext DEF KInv, Position
<1>2. op'.last # 0 => op'.last \in DOMAIN batches'
  BY <1>1
<1>3. BusyBatches' \subseteq (IF op'.leaf = "tool_effect_pending" THEN {Newest'} ELSE {})
  BY DEF LInv, BusyInv
<1>4. \A b \in DOMAIN batches' : b \notin BusyBatches' => FullySettled(b)'
  BY DEF BusyBatches
<1> QED
  BY <1>2, <1>3, <1>4 DEF ProgressValid

(* The newest batch has calls pending, so it was not counted.               *)
LEMMA NotCounted ==
  ASSUME KInv, LInv, ProgressValid, op.leaf = "tool_effect_pending"
  PROVE  op.last # Newest
<1>1. PendingItems(Newest) # {} /\ Newest \in 1..Len(batches)
  BY NewestPending DEF LInv
<1>2. Newest # 0
  BY <1>1, Lengths
<1> QED
  BY <1>1, <1>2 DEF ProgressValid, FullySettled

(* What a step must establish when no outcome is unknown.                   *)
LEMMA Drives ==
  ASSUME KInv', LInv', op'.leaf = "tool_effect_pending" => op'.last # Newest',
         mem'.res \notin {"invariant", "illegal"}, mem'.pc # "end" \/ mem'.res # "done",
         ~OutcomeUnknown', RecordInv', Cites(op)', Decides(op)', Asks(op)', Recalls(op)', Waits(op)',
         Remembers(op, mem)', Choice(op, mem)'
  PROVE  DInv'
<1>1. ProgressValid'
  BY ProgressNext
<1>2. UnknownInv' /\ EndInv' /\ Driveable'
  BY DEF UnknownInv, EndInv, Driveable
<1>3. Regular'
  BY DEF Regular, Sound
<1> QED
  BY <1>1, <1>2, <1>3 DEF DInv

(* The store stays: so does what it says about a position.                  *)
LEMMA LedgerStays ==
  ASSUME UNCHANGED <<sends, batches>>
  PROVE  /\ Unsettled' = Unsettled /\ Last' = Last /\ Newest' = Newest /\ OpenBatches' = OpenBatches
         /\ Carried' = Carried /\ Loose' = Loose
         /\ OutcomeUnknown' = OutcomeUnknown /\ RecordInv' = RecordInv
         /\ \A b : Sendable(b)' = Sendable(b)
         /\ \A t : Fresh(t)' = Fresh(t) /\ Back(t)' = Back(t)
<1>1. /\ Unsettled' = Unsettled /\ Last' = Last /\ Newest' = Newest /\ OpenBatches' = OpenBatches
      /\ OutcomeUnknown' = OutcomeUnknown
  BY DEF Unsettled, Last, Newest, OpenBatches, Open, OutcomeUnknown
<1>2. Carried' = Carried
  BY <1>1 DEF Carried
<1>3. Loose' = Loose
  BY <1>1, <1>2 DEF Loose
<1>4. \A b : Sendable(b)' = Sendable(b)
  BY DEF Sendable, Open, ActiveAttempts
<1>5. \A t : Fresh(t)' = Fresh(t)
  BY <1>1, <1>3 DEF Fresh
<1>6. \A t : Back(t)' = Back(t)
  BY <1>1 DEF Back, ActiveAttempts
<1>7. RecordInv' = RecordInv
  BY <1>1 DEF RecordInv, Open, ActiveAttempts, Grounded
<1> QED
  BY <1>1, <1>2, <1>3, <1>4, <1>5, <1>6, <1>7

LEMMA SoundStays ==
  ASSUME UNCHANGED <<sends, batches>>, NEW o, op' = o, Sound(o)
  PROVE  Cites(op)' /\ Decides(op)' /\ Asks(op)' /\ Recalls(op)' /\ Waits(op)'
<1>1. Cites(op)'
  BY LedgerStays DEF Sound, Cites
<1>2. Decides(op)'
  BY DEF Sound, Decides
<1>3. Asks(op)'
  BY LedgerStays DEF Sound, Asks, Grounded
<1>4. Recalls(op)'
  BY LedgerStays DEF Sound, Recalls
<1>5. Waits(op)'
  BY LedgerStays DEF Sound, Waits
<1> QED
  BY <1>1, <1>2, <1>3, <1>4, <1>5

(* The driver starts, stops or returns, and the store is as it was.         *)
LEMMA Rests ==
  ASSUME KInv, LInv, DInv, KInv', LInv', UNCHANGED <<op, sends, batches>>,
         mem'.pc \in {"off", "loop", "end"}, mem'.res \notin {"invariant", "illegal"},
         mem'.pc = "end" /\ mem'.res = "done" =>
           op.leaf = "kernel_settled" /\ op.work = "done" /\ ~OutcomeUnknown,
         \/ mem'.batch = 0 \/ mem'.pc = "end"
         \/ mem'.batch = mem.batch /\ mem.pc \notin {"end", "send", "sent"}
  PROVE  DInv'
<1>1. ProgressValid'
  BY NotCounted, ProgressNext, LedgerStays DEF DInv
<1>2. UnknownInv' /\ EndInv' /\ Driveable'
  BY LedgerStays DEF UnknownInv, EndInv, Driveable
<1>3. ASSUME ~OutcomeUnknown PROVE Regular'
  <2>1. Regular
    BY <1>3 DEF DInv
  <2>2. RecordInv'
    BY <2>1, LedgerStays DEF Regular
  <2>3. Sound(op)'
    BY <2>1, SoundStays DEF Regular, Sound
  <2>4. Remembers(op, mem)'
    BY <2>1, LedgerStays DEF Regular, Remembers
  <2>5. Choice(op, mem)'
    BY DEF Choice
  <2> QED
    BY <2>2, <2>3, <2>4, <2>5 DEF Regular
<1> QED
  BY <1>1, <1>2, <1>3, LedgerStays DEF DInv

(* The world moves, and the kernel does not notice.                         *)
LEMMA Unnoticed ==
  ASSUME KInv, LInv, DInv, KInv', LInv', UNCHANGED <<op, sends, batches, mem>>
  PROVE  DInv'
<1>1. ProgressValid'
  BY NotCounted, ProgressNext, LedgerStays DEF DInv
<1>2. UnknownInv' /\ EndInv' /\ Driveable'
  BY LedgerStays DEF DInv, UnknownInv, EndInv, Driveable
<1>3. ASSUME ~OutcomeUnknown PROVE Regular'
  <2>1. Regular
    BY <1>3 DEF DInv
  <2>2. RecordInv' /\ Sound(op)'
    BY <2>1, LedgerStays, SoundStays DEF Regular, Sound
  <2>3. Remembers(op, mem)' /\ Choice(op, mem)'
    BY <2>1, LedgerStays DEF Regular, Remembers, Choice
  <2> QED
    BY <2>2, <2>3 DEF Regular
<1> QED
  BY <1>1, <1>2, <1>3, LedgerStays DEF DInv

(* A position is saved, or the drive ends because of Stop.                  *)
LEMMA Saved ==
  ASSUME KInv, LInv, DInv, ~OutcomeUnknown, KInv', LInv',
         NEW o, NEW m \in Driver, Save(o, m), Legal(o), Sound(o), Remembers(o, m), Choice(o, m),
         m.pc \in {"loop", "act"}, m.res = mem.res,
         o.leaf # "tool_effect_pending"
  PROVE  DInv'
<1>1. CASE op' = o /\ UNCHANGED <<sends, batches>> /\ mem' = m
  <2>1. Cites(op)' /\ Decides(op)' /\ Asks(op)' /\ Recalls(op)' /\ Waits(op)'
    BY <1>1, SoundStays
  <2>2. ~OutcomeUnknown' /\ RecordInv'
    BY <1>1, LedgerStays DEF DInv, Regular
  <2>3. Remembers(op, mem)' /\ Choice(op, mem)'
    BY <1>1, LedgerStays DEF Remembers, Choice
  <2>4. mem'.res \notin {"invariant", "illegal"} /\ mem'.pc # "end" /\ op'.leaf # "tool_effect_pending"
    BY <1>1 DEF DInv, Driveable
  <2> QED
    BY <2>1, <2>2, <2>3, <2>4, Drives
<1>2. CASE UNCHANGED <<op, sends, batches>> /\ mem'.pc = "end" /\ mem'.res = "stopped"
  BY <1>2, Rests
<1> QED
  BY <1>1, <1>2, SaveEnds

(* The facts about a position that lets itself be driven.                   *)
LEMMA Heard ==
  ASSUME KInv, LInv, DInv, ~OutcomeUnknown
  PROVE  /\ RecordInv /\ Cites(op) /\ Decides(op) /\ Asks(op) /\ Recalls(op) /\ Waits(op)
         /\ Remembers(op, mem) /\ Choice(op, mem) /\ ProgressValid /\ Driveable
         /\ op \in Operation /\ mem \in Driver
         /\ Last = Len(sends) /\ Last \in Nat
         /\ \A n \in Unsettled : n = Last
  BY Lengths DEF DInv, Regular, Sound, KInv, Position, LInv, SendsInv, Last

(* A position that begins to close keeps what it cites.                     *)
LEMMA Closes ==
  ASSUME KInv, LInv, DInv, ~OutcomeUnknown, KInv', LInv', op.leaf \in CancelLeaves,
         NEW o, o.leaf = "closing", o.work = "closing", o.resp = op.resp,
         NEW m \in Driver, m.pc \in {"loop", "act"}, m.res = mem.res,
         m.pc = "act" => m.act = "final_boundary",
         m.batch # 0 => Sendable(m.batch),
         Save(o, m)
  PROVE  DInv'
<1>1. Cites(op) /\ op.leaf # "provider_effect_pending"
  BY Heard DEF CancelLeaves
<1>2. Cites(o)
  BY <1>1 DEF Cites
<1>3. Decides(o) /\ Asks(o) /\ Recalls(o) /\ Waits(o)
  BY DEF Decides, Asks, Recalls, Waits, WorkLeaves, Outcomes
<1>4. Remembers(o, m) /\ Choice(o, m)
  BY DEF Remembers, Choice
<1>5. Legal(o)
  BY Moves DEF Legal
<1> QED
  BY <1>2, <1>3, <1>4, <1>5, Saved DEF Sound

LEMMA CloseFields ==
  ASSUME KInv
  PROVE  Close(op).leaf = "closing" /\ Close(op).work = "closing" /\ Close(op).resp = op.resp
  BY DEF KInv, Position, Close, Decided, Transition, Operation, ResponseLeaves, PendingLeaves

(* What the sink remembers while an executor runs.                          *)
LEMMA Remembered ==
  ASSUME KInv, LInv, DInv, ~OutcomeUnknown, mem.pc = "act"
  PROVE  /\ mem.batch # 0 => Sendable(mem.batch)
         /\ mem.batch # 0 =>
              \/ op.leaf \in {"tool_effect_pending", "tool_delivery_pending",
                              "provider_request_ready"}
              \/ op.leaf \in {"closing", "kernel_settled"} /\ op.work = "closing"
         /\ Loop(mem) \in Driver /\ Loop(mem).pc = "loop" /\ Loop(mem).res = mem.res
         /\ Loop(mem).batch = mem.batch
<1>1. Remembers(op, mem) /\ mem \in Driver
  BY Heard
<1>2. Loop(mem) \in Driver
  BY <1>1, DriverLoop
<1> QED
  BY <1>1, <1>2, Points DEF Remembers

(* BeginClosing and WriteBusy.                                              *)
LEMMA ClosingDrives ==
  ASSUME KInv, LInv, DInv, ~OutcomeUnknown, KInv', LInv', BeginClosing \/ WriteBusy
  PROVE  DInv'
<1>1. mem.pc = "act" /\ op.leaf \in CancelLeaves
  <2>1. CASE BeginClosing
    BY <2>1, ActsAt DEF BeginClosing, Chosen
  <2>2. CASE WriteBusy
    BY <2>2, ActsAt DEF WriteBusy, Chosen, CancelLeaves
  <2> QED
    BY <2>1, <2>2
<1>2. Save(Close(op), Loop(mem))
  BY DEF BeginClosing, WriteBusy
<1> QED
  BY <1>1, <1>2, CloseFields, Remembered, Closes

LEMMA Positive == \A n \in Nat : n + 1 # 0
  OBVIOUS

(* A prepared request that can be submitted.                                *)
LEMMA Freezes ==
  ASSUME KInv, LInv, DInv, ~OutcomeUnknown, KInv', LInv',
         op.leaf \in {"writer_running", "repair_running", "tool_delivery_pending",
                      "control_ready", "closing"},
         NEW m \in Driver, m.res = mem.res, NEW lt, NEW close, NEW round, close \/ lt # 0,
         NeedsSource \/ m.batch # 0 => Source # 0,
         m.batch # 0 => Sendable(m.batch) /\ op.work \in {"", "closing"},
         close => op.work \in Outcomes, ~close => op.work \in {"", "retry"},
         op.work # "closing" => Loose \subseteq {m.batch},
         Freeze(m, lt, close, round)
  PROVE  DInv'
<1> DEFINE o == Frozen(m, lt, close, round)
           r == [batch |-> m.batch, close |-> close, work |-> op.work,
                 src |-> Source, lt |-> lt, round |-> round]
<1>0. Cites(op) /\ op \in Operation /\ op.leaf # "provider_effect_pending"
  BY Heard
<1>1. Save(o, Loop(m))
  <2>1. BusyBatches = {}
    BY DEF LInv, BusyInv
  <2> QED
    BY <2>1, FreezeEnds
<1>2. o.leaf = "provider_request_ready" /\ o.work = op.work
  BY <1>0 DEF Frozen, Transition, Operation, WorkLeaves
<1>3. o.resp = IF Unsettled # {} THEN op.resp ELSE 0
  BY <1>0 DEF Frozen, Transition, Operation
<1>4. o.req = r
  BY <1>0 DEF Frozen, Transition, Operation
<1>5. /\ r.batch = m.batch /\ r.close = close /\ r.work = op.work /\ r.src = Source
      /\ r # NoRequest
  BY DEF NoRequest
<1>6. Loop(m) \in Driver /\ Loop(m).pc = "loop" /\ Loop(m).res = mem.res /\ Loop(m).batch = m.batch
  BY DriverLoop, Points
<1> HIDE DEF o, r
<1>7. Cites(o)
  BY <1>0, <1>2, <1>3 DEF Cites
<1>8. Decides(o) /\ Recalls(o)
  BY <1>2 DEF Decides, Recalls, WorkLeaves
<1>9. Grounded(r)
  BY <1>5 DEF Grounded, NeedsSource
<1>10. Asks(o)
  BY <1>2, <1>3, <1>4, <1>5, <1>9 DEF Asks
<1>11. Waits(o)
  BY <1>2, <1>4, <1>5 DEF Waits
<1>12. Remembers(o, Loop(m)) /\ Choice(o, Loop(m))
  BY <1>2, <1>6 DEF Remembers, Choice
<1>13. Legal(o)
  BY <1>2, Moves DEF Legal
<1> QED
  BY <1>1, <1>2, <1>6, <1>7, <1>8, <1>10, <1>11, <1>12, <1>13, Saved DEF Sound

(* prepare_turn: nothing is open, and nothing is remembered.                *)
LEMMA PrepareDrives ==
  ASSUME KInv, LInv, DInv, ~OutcomeUnknown, KInv', LInv', PrepareTurn
  PROVE  DInv'
<1>1. op.leaf \in {"writer_running", "repair_running"} /\ mem.pc = "act"
  BY ActsAt DEF PrepareTurn, Chosen
<1>2. op.work = "" /\ Loose = {} /\ mem \in Driver /\ op.lt \in Nat
  BY <1>1, Heard DEF Decides, Waits, WorkLeaves, Operation
<1>3. mem.batch = 0
  BY <1>1, Remembered
<1>4. CASE Save(Close(op), Loop(mem))
  BY <1>1, <1>4, CloseFields, Remembered, Closes DEF CancelLeaves
<1>5. CASE Freeze(mem, op.lt + 1, FALSE, op.round)
  <2>1. op.lt + 1 # 0
    BY <1>2, Positive, Zenon
  <2>3. ~NeedsSource
    BY <1>1, <1>2 DEF NeedsSource
  <2>2. Loose \subseteq {mem.batch}
    BY <1>2
  <2> QED
    BY <1>1, <1>2, <1>3, <1>5, <2>1, <2>2, <2>3, Freezes
<1> QED
  BY <1>4, <1>5 DEF PrepareTurn

(* evaluate_completion.                                                     *)
LEMMA EvaluateDrives ==
  ASSUME KInv, LInv, DInv, ~OutcomeUnknown, KInv', LInv', NEW complete \in BOOLEAN,
         NEW novel \in BOOLEAN, Evaluate(complete, novel)
  PROVE  DInv'
<1>1. op.leaf = "completion_pending" /\ mem.pc = "act" /\ op \in Operation
  BY ActsAt, Heard DEF Evaluate, Chosen
<1>2. op.work = "" /\ Loose = {} /\ op.resp # 0 /\ Cites(op)
  BY <1>1, Heard DEF Decides, Waits, Cites, WorkLeaves
<1>3. mem.batch = 0
  BY <1>1, Remembered
<1>4. PICK o : /\ Save(o, Loop(mem))
               /\ o \in {Decided(op, "control_ready", "done"),
                         [Decided(op, "control_ready", "retry") EXCEPT !.idle = @ + 1],
                           [Decided(op, "control_ready", "retry") EXCEPT !.idle = 0]}
  BY DEF Evaluate
<1>5. o.leaf = "control_ready" /\ o.work \in {"done", "retry"} /\ o.resp = op.resp
  BY <1>1, <1>4 DEF Decided, Transition, Operation, ResponseLeaves, PendingLeaves
<1>6. Cites(o)
  BY <1>1, <1>2, <1>5 DEF Cites
<1>7. Decides(o) /\ Asks(o) /\ Recalls(o) /\ Waits(o)
  BY <1>2, <1>5 DEF Decides, Asks, Recalls, Waits, WorkLeaves
<1>8. Remembers(o, Loop(mem)) /\ Choice(o, Loop(mem))
  BY <1>1, <1>3, Remembered DEF Remembers, Choice
<1>9. Legal(o)
  BY <1>1, <1>5, Moves DEF Legal
<1> QED
  BY <1>1, <1>4, <1>5, <1>6, <1>7, <1>8, <1>9, Remembered, Saved DEF Sound

(* The answered question reopens the phase.                                 *)
LEMMA ResumeDrives ==
  ASSUME KInv, LInv, DInv, ~OutcomeUnknown, KInv', LInv', ResumeQuestion
  PROVE  DInv'
<1>1. op.leaf = "kernel_settled" /\ mem.pc = "act" /\ mem.act = "resume" /\ op \in Operation
  BY ActsAt, Heard DEF ResumeQuestion, Chosen
<1>2. op.work = "question" /\ Unsettled = {} /\ Loose = {}
  BY <1>1, Heard DEF Choice, Waits, Cites
<1>3. mem.batch = 0
  BY <1>1, <1>2, Remembered
<1> DEFINE o == Transition(op, Running(op.phase))
<1>4. Save(o, Loop(mem))
  BY DEF ResumeQuestion
<1>5. o.leaf \in {"writer_running", "repair_running"} /\ o.work = "" /\ o.resp = 0
  <2>1. ASSUME NEW leaf \in {"writer_running", "repair_running"}
        PROVE  LET x == Transition(op, leaf) IN x.leaf = leaf /\ x.work = "" /\ x.resp = 0
    BY <1>1 DEF Transition, Operation, ResponseLeaves, PendingLeaves, WorkLeaves
  <2> QED
    BY <2>1, RunningAt
<1> HIDE DEF o
<1>6. Cites(o) /\ Decides(o) /\ Asks(o) /\ Recalls(o) /\ Waits(o)
  BY <1>2, <1>5 DEF Cites, Decides, Asks, Recalls, Waits, WorkLeaves
<1>7. Remembers(o, Loop(mem)) /\ Choice(o, Loop(mem))
  BY <1>1, <1>3, Remembered DEF Remembers, Choice
<1>8. Legal(o)
  BY <1>1, <1>5, Moves DEF Legal
<1> QED
  BY <1>1, <1>4, <1>5, <1>6, <1>7, <1>8, Remembered, Saved DEF Sound

(* interpret: the response is the one the position waited for.              *)
LEMMA InterpretDrives ==
  ASSUME KInv, LInv, DInv, ~OutcomeUnknown, KInv', LInv', NEW repeated \in BOOLEAN,
         Interpret(repeated)
  PROVE  DInv'
<1>1. op.leaf = "provider_response_ready" /\ mem.pc = "act"
  BY ActsAt DEF Interpret, Chosen
<1>2. PICK o :
           /\ Save(o, Loop(mem))
           /\ o.resp = op.resp /\ o.turn = op.turn /\ o.last = op.last
           /\ \/ o.leaf = "closing" /\ o.work = op.work /\ sends[op.resp].close
              \/ o.leaf = "closing" /\ o.work = "closing"
              \/ /\ o.leaf = "control_ready" /\ o.work \in {"retry", "question"}
                 /\ ~sends[op.resp].close
              \/ /\ o.leaf \in {"completion_pending", "plan_ready"} /\ o.work = ""
                 /\ ~sends[op.resp].close
  BY InterpretSaves
<1>3. /\ op.resp = Last /\ op.resp # 0 /\ op.work = sends[Last].work /\ Last \in Unsettled
      /\ op.work # "closing" => Loose = {}
  BY <1>1, Heard DEF Cites, Waits
<1>4. Grounded(sends[Last])
  <2>1. Last \in 1..Last
    BY <1>3, Lengths DEF Unsettled, Last
  <2> QED
    BY <2>1, Heard DEF RecordInv
<1>5. mem.batch = 0
  BY <1>1, Remembered
<1>6. CASE o.leaf = "closing" /\ o.work = "closing"
  BY <1>1, <1>2, <1>6, Remembered, Closes DEF CancelLeaves
<1>7. CASE ~(o.leaf = "closing" /\ o.work = "closing")
  <2>1. /\ o.leaf \in {"closing", "control_ready", "completion_pending", "plan_ready"}
        /\ o.leaf = "closing" => o.work \in Outcomes
        /\ o.leaf = "control_ready" => o.work # ""
        /\ o.leaf \in {"completion_pending", "plan_ready"} => o.work = ""
        /\ o.work # "closing" /\ op.work # "closing"
    <3>1. CASE o.leaf = "closing" /\ o.work = op.work /\ sends[op.resp].close
      BY <1>3, <1>4, <1>7, <3>1 DEF Grounded
    <3>2. CASE /\ o.leaf = "control_ready" /\ o.work \in {"retry", "question"}
               /\ ~sends[op.resp].close
      BY <1>3, <1>4, <3>2 DEF Grounded
    <3>3. CASE /\ o.leaf \in {"completion_pending", "plan_ready"} /\ o.work = ""
               /\ ~sends[op.resp].close
      BY <1>3, <1>4, <3>3 DEF Grounded
    <3> QED
      BY <1>2, <1>7, <3>1, <3>2, <3>3
  <2>2. Cites(o)
    BY <1>2, <1>3, <2>1 DEF Cites
  <2>3. Decides(o) /\ Asks(o) /\ Recalls(o) /\ Waits(o)
    BY <1>2, <1>3, <2>1 DEF Decides, Asks, Recalls, Waits, WorkLeaves
  <2>4. Remembers(o, Loop(mem)) /\ Choice(o, Loop(mem))
    BY <1>1, <1>5, Remembered DEF Remembers, Choice
  <2>5. Legal(o)
    BY <1>1, <1>2, <1>3, <2>1, Moves DEF Legal, CancelLeaves
  <2> QED
    BY <1>1, <1>2, <2>1, <2>2, <2>3, <2>4, <2>5, Remembered, Saved DEF Sound
<1> QED
  BY <1>6, <1>7

(* A decision knows the response it answers.                                *)
LEMMA ControlSource ==
  ASSUME KInv, LInv, DInv, ~OutcomeUnknown, op.leaf = "control_ready"
  PROVE  Source # 0
<1>1. op.work # ""
  BY Heard DEF Decides
<1>2. CASE op.resp # 0
  BY <1>2 DEF Source
<1>3. CASE op.resp = 0
  <2>1. op.turn \in 1..Last /\ sends[op.turn].st = "not_sent" /\ sends[op.turn].work = op.work
    BY <1>3, Heard DEF Recalls
  <2>2. Grounded(sends[op.turn]) /\ op.turn \in DOMAIN sends
    BY <2>1, Heard, Lengths DEF RecordInv
  <2>3. sends[op.turn].src # 0
    BY <1>1, <2>1, <2>2 DEF Grounded
  <2>4. Source = sends[op.turn].src
    BY <1>1, <1>3, <2>1, <2>2 DEF Source
  <2> QED
    BY <2>3, <2>4
<1> QED
  BY <1>2, <1>3

(* prepare_control_delivery may leave the decision where it is, freeze its  *)
(* request, close, or evaluate again.                                       *)
LEMMA ControlSaves ==
  ASSUME KInv, Source # 0, op.work # "", PrepareControl
  PROVE  \/ mem' = Halt(mem, "stranded") /\ UNCHANGED <<op, sends, batches>>
         \/ /\ op.work = "retry"
            /\ \/ Save(Close(op), Loop(mem))
               \/ Freeze(mem, sends[Source].lt + 1, FALSE, op.round)
         \/ /\ op.work \in {"question", "done"}
            /\ \/ Freeze(mem, sends[Source].lt, TRUE, op.round)
               \/ Save(Transition(op, "closing"), Loop(mem))
               \/ op.resp # 0 /\ Save(Transition(op, "completion_pending"), Loop(mem))
<1>1. CASE Stranded
  BY <1>1 DEF PrepareControl
<1>2. CASE ~Stranded
  <2>1. op.work \in {"retry", "question", "done"}
    BY <1>2 DEF KInv, Position, Operation, Works, Stranded
  <2>2. CASE op.work = "retry"
    BY <1>2, <2>2 DEF PrepareControl
  <2>3. CASE op.work = "question"
    BY <1>2, <2>3 DEF PrepareControl
  <2>4. CASE op.work = "done" /\ sends[Source].reply = "answer"
    BY <1>2, <2>4 DEF PrepareControl
  <2>5. CASE op.work = "done" /\ sends[Source].reply # "answer"
    <3>1. io.drift => op.resp # 0
      BY <1>2, <2>5 DEF Stranded
    <3> QED
      BY <1>2, <2>5, <3>1 DEF PrepareControl
  <2> QED
    BY <2>1, <2>2, <2>3, <2>4, <2>5
<1> QED
  BY <1>1, <1>2

LEMMA ControlDrives ==
  ASSUME KInv, LInv, DInv, ~OutcomeUnknown, KInv', LInv', PrepareControl
  PROVE  DInv'
<1>1. op.leaf = "control_ready" /\ mem.pc = "act" /\ op \in Operation /\ mem \in Driver
  BY ActsAt, Heard DEF PrepareControl, Chosen
<1>2. op.work # "" /\ Source # 0 /\ Cites(op) /\ (op.work # "closing" => Loose = {})
  BY <1>1, Heard, ControlSource DEF Decides, Waits
<1>3. mem.batch = 0
  BY <1>1, Remembered
<1>4. CASE mem' = Halt(mem, "stranded") /\ UNCHANGED <<op, sends, batches>>
  <2>1. mem'.pc = "end" /\ mem'.res = "stranded"
    BY <1>1, <1>4, Points
  <2> QED
    BY <1>4, <2>1, Rests
<1>5. CASE Save(Close(op), Loop(mem))
  BY <1>1, <1>5, CloseFields, Remembered, Closes DEF CancelLeaves
<1>6. CASE op.work = "retry" /\ Freeze(mem, sends[Source].lt + 1, FALSE, op.round)
  <2>1. sends[Source].lt \in Nat
    <3>1. Source \in 1..Len(sends)
      <4>1. Source # 0
        BY <1>2
      <4> QED
        BY <4>1, SourceRange, Lengths
    <3>2. sends[Source] \in SendRecord
      BY <3>1, Lengths
    <3> QED
      BY <3>2 DEF SendRecord
  <2>2. sends[Source].lt + 1 # 0
    BY <2>1, Positive, Zenon
  <2>3. Loose \subseteq {mem.batch}
    BY <1>2, <1>6
  <2> QED
    BY <1>1, <1>2, <1>3, <1>6, <2>2, <2>3, Freezes
<1>7. CASE op.work \in {"question", "done"} /\ Freeze(mem, sends[Source].lt, TRUE, op.round)
  <2>1. Loose \subseteq {mem.batch} /\ op.work \in Outcomes
    BY <1>2, <1>7 DEF Outcomes
  <2> QED
    BY <1>1, <1>2, <1>3, <1>7, <2>1, Freezes
<1>8. ASSUME NEW leaf \in {"closing", "completion_pending"}, op.work \in {"question", "done"},
             Save(Transition(op, leaf), Loop(mem)),
             leaf = "completion_pending" => op.resp # 0
      PROVE  DInv'
  <2> DEFINE o == Transition(op, leaf)
  <2>1. /\ o.leaf = leaf /\ o.resp = op.resp
        /\ o.work = IF leaf = "closing" THEN op.work ELSE ""
    BY <1>1, <1>8 DEF Transition, Operation, ResponseLeaves, PendingLeaves, WorkLeaves
  <2>2. Save(o, Loop(mem))
    BY <1>8
  <2> HIDE DEF o
  <2>3. Cites(o)
    BY <1>1, <1>2, <1>8, <2>1 DEF Cites
  <2>4. Decides(o) /\ Asks(o) /\ Recalls(o) /\ Waits(o)
    BY <1>2, <1>8, <2>1 DEF Decides, Asks, Recalls, Waits, WorkLeaves, Outcomes
  <2>5. Remembers(o, Loop(mem)) /\ Choice(o, Loop(mem))
    BY <1>1, <1>3, Remembered DEF Remembers, Choice
  <2>6. Legal(o)
    BY <1>1, <1>8, <2>1, Moves DEF Legal, CancelLeaves
  <2> QED
    BY <1>1, <1>8, <2>1, <2>2, <2>3, <2>4, <2>5, <2>6, Remembered, Saved DEF Sound
<1> QED
  BY <1>2, <1>4, <1>5, <1>6, <1>7, <1>8, ControlSaves

LEMMA OnlyOf == \A x : Only({x}) = x
  BY DEF Only

(* Open batches that were never sent are loose.                             *)
LEMMA UnsentLoose ==
  ASSUME KInv, RecordInv, NEW b \in OpenBatches, batches[b].tried = {}
  PROVE  b \in Loose /\ Sendable(b)
<1>1. b \in 1..Len(batches) /\ Open(b) /\ b # 0 /\ ActiveAttempts(b) = {}
  BY Lengths DEF OpenBatches, ActiveAttempts
<1>2. b \notin Carried
  BY <1>1 DEF Carried, RecordInv
<1> QED
  BY <1>1, <1>2 DEF Loose, Sendable

(* At tool_delivery_pending there is one batch to deliver, and a response   *)
(* to go back to.                                                           *)
LEMMA Deliverable ==
  ASSUME KInv, LInv, DInv, ~OutcomeUnknown, op.leaf = "tool_delivery_pending"
  PROVE  /\ DeliveryBatch \in 1..Len(batches) /\ DeliveryBatch # 0
         /\ Sendable(DeliveryBatch) /\ Loose \subseteq {DeliveryBatch}
         /\ Source # 0
<1> DEFINE open == {b \in OpenBatches : batches[b].turn = op.turn}
           fresh == {b \in open : batches[b].tried = {}}
<1>0. RecordInv
  BY Heard
<1>D. DeliveryBatch = IF fresh # {} THEN Only(fresh) ELSE Only(open)
  BY DEF DeliveryBatch
<1>1. CASE op.resp # 0 /\ Fresh(op.turn)
  <2>1. Newest \in OpenBatches /\ batches[Newest].tried = {} /\ batches[Newest].turn = op.turn
    BY <1>1 DEF Fresh, Loose
  <2>2. \A b \in fresh : b = Newest
    BY <1>0, <1>1, UnsentLoose DEF Fresh
  <2>3. fresh = {Newest}
    BY <2>1, <2>2
  <2> HIDE DEF fresh, open
  <2>4. DeliveryBatch = Newest
    BY <1>D, <2>3, OnlyOf
  <2>5. Newest \in 1..Len(batches)
    BY <2>1, Lengths DEF OpenBatches
  <2>6. Sendable(Newest) /\ Loose \subseteq {Newest}
    BY <1>0, <1>1, <2>1, UnsentLoose DEF Fresh
  <2>7. Source # 0
    BY <1>1 DEF Source
  <2>8. Newest # 0
    BY <2>5, Lengths
  <2> QED
    BY <2>4, <2>5, <2>6, <2>7, <2>8
<1>2. CASE Back(op.turn)
  <2>0. PICK b \in OpenBatches : \E n \in ActiveAttempts(b) :
          /\ OpenBatches = {b} /\ batches[b].turn = op.turn
          /\ sends[n].st = "not_sent" /\ sends[n].batch = b
    BY <1>2 DEF Back
  <2>1. PICK n \in ActiveAttempts(b) :
          /\ OpenBatches = {b} /\ batches[b].turn = op.turn
          /\ sends[n].st = "not_sent" /\ sends[n].batch = b
    BY <2>0
  <2>2. b \in 1..Len(batches) /\ b # 0 /\ Open(b) /\ n \in batches[b].tried
    BY <2>1, Lengths DEF OpenBatches, ActiveAttempts
  <2>3. open = {b}
    BY <2>1
  <2>4. fresh = {}
    BY <2>2, <2>3
  <2> HIDE DEF fresh, open
  <2>5. DeliveryBatch = b
    BY <1>D, <2>3, <2>4, OnlyOf
  <2>6. ActiveAttempts(b) = {n}
    BY <2>1, <2>2 DEF LInv, AttemptInv
  <2>7. Sendable(b) /\ Loose \subseteq {b}
    BY <2>1, <2>2, <2>6 DEF Sendable, Loose
  <2>8. n \in 1..Last /\ n # 0
    BY <2>2, AttemptSends, <2>1, Lengths DEF Last
  <2>9. sends[n].src # 0
    BY <1>0, <2>1, <2>2, <2>8 DEF RecordInv, Grounded
  <2>10. Source # 0
    <3>1. CASE op.resp # 0
      BY <3>1 DEF Source
    <3>2. CASE op.resp = 0
      <4>1. Only(ActiveAttempts(DeliveryBatch)) = n
        BY <2>5, <2>6, OnlyOf
      <4>2. Source = sends[n].src
        BY <2>1, <2>2, <2>5, <2>8, <3>2, <4>1 DEF Source
      <4> QED
        BY <2>9, <4>2
    <3> QED
      BY <3>1, <3>2
  <2> QED
    BY <2>2, <2>5, <2>7, <2>10
<1> QED
  BY <1>1, <1>2, Heard DEF Waits

(* The sink remembers the batch to deliver.                                 *)
LEMMA SinkDelivery ==
  ASSUME KInv, mem.pc = "act"
  PROVE  LET m == [mem EXCEPT !.batch = DeliveryBatch]
         IN  /\ m \in Driver /\ m.res = mem.res /\ m.batch = DeliveryBatch
             /\ Loop(m) \in Driver /\ Loop(m).pc = "loop" /\ Loop(m).res = mem.res
             /\ Loop(m).batch = DeliveryBatch
<1> DEFINE m == [mem EXCEPT !.batch = DeliveryBatch]
<1>1. m \in Driver /\ m.res = mem.res /\ m.batch = DeliveryBatch
  BY DeliveryRange, Lengths, DriverBatch, Points DEF KInv
<1> HIDE DEF m
<1>2. /\ Loop(m) \in Driver /\ Loop(m).pc = "loop" /\ Loop(m).res = mem.res
      /\ Loop(m).batch = DeliveryBatch
  BY <1>1, DriverLoop, Points
<1> QED
  BY <1>1, <1>2 DEF m

LEMMA RedeliverDrives ==
  ASSUME KInv, LInv, SInv, DInv, Project, ~OutcomeUnknown, KInv', LInv', Redeliver
  PROVE  DInv'
<1>1. op.leaf = "tool_delivery_pending" /\ mem.pc = "act" /\ op \in Operation
  BY ActsAt, Heard DEF Redeliver, Chosen
<1>2. op.work = "" /\ op.turn \in Nat
  BY <1>1, Heard DEF Decides, WorkLeaves, Operation
<1>3. ~AnswerAccepted(DeliveryBatch)
  BY <1>1, Deliverable DEF AnswerAccepted, SInv, PlainInv, Project
<1> DEFINE m == [mem EXCEPT !.batch = DeliveryBatch]
<1>4. \/ Save(Close(op), Loop(m))
      \/ Freeze(m, op.turn + 1, FALSE, op.round)
  BY <1>3 DEF Redeliver
<1>5. /\ m \in Driver /\ m.res = mem.res /\ m.batch = DeliveryBatch
      /\ Loop(m) \in Driver /\ Loop(m).pc = "loop" /\ Loop(m).res = mem.res
      /\ Loop(m).batch = DeliveryBatch
  BY <1>1, SinkDelivery
<1> HIDE DEF m
<1>6. CASE Save(Close(op), Loop(m))
  BY <1>1, <1>5, <1>6, CloseFields, Deliverable, Closes DEF CancelLeaves
<1>7. CASE Freeze(m, op.turn + 1, FALSE, op.round)
  <2>1. op.turn + 1 # 0
    BY <1>2, Positive, Zenon
  <2> QED
    BY <1>1, <1>2, <1>5, <1>7, <2>1, Deliverable, Freezes
<1> QED
  BY <1>4, <1>6, <1>7

(* record_progress moves nothing but the count.                             *)
LEMMA ObserveDrives ==
  ASSUME KInv, LInv, DInv, ~OutcomeUnknown, KInv', LInv', NEW repeats \in BOOLEAN, Observe(repeats)
  PROVE  DInv'
<1>1. op.leaf = "tool_delivery_pending" /\ mem.pc = "act" /\ op \in Operation
  BY ActsAt, Heard DEF Observe, Chosen
<1> DEFINE m == [mem EXCEPT !.batch = DeliveryBatch]
           o == [op EXCEPT !.last = DeliveryBatch, !.idle = IF repeats THEN @ + 1 ELSE 0]
<1>2. Save(o, Loop(m))
  BY DEF Observe
<1>3. /\ o.leaf = op.leaf /\ o.resp = op.resp /\ o.turn = op.turn /\ o.work = op.work
      /\ o.req = op.req
  BY <1>1 DEF Operation
<1>4. /\ Loop(m) \in Driver /\ Loop(m).pc = "loop" /\ Loop(m).res = mem.res
      /\ Loop(m).batch = DeliveryBatch
  BY <1>1, SinkDelivery
<1> HIDE DEF m, o
<1>5. Cites(o)
  BY <1>1, <1>3, Heard DEF Cites
<1>6. Decides(o) /\ Asks(o) /\ Recalls(o) /\ Waits(o)
  BY <1>1, <1>3, Heard DEF Decides, Asks, Recalls, Waits
<1>7. Remembers(o, Loop(m)) /\ Choice(o, Loop(m))
  BY <1>1, <1>3, <1>4, Deliverable DEF Remembers, Choice
<1>8. Legal(o)
  BY <1>1, <1>3 DEF Legal
<1> QED
  BY <1>1, <1>2, <1>3, <1>4, <1>5, <1>6, <1>7, <1>8, Saved DEF Sound

(* The end of a generation, and what is said of the position after it.      *)
LEMMA GenerationEnds ==
  ASSUME KInv, LInv, DInv, ~OutcomeUnknown, KInv', NEW n \in Unsettled,
         sends' = SettleSend(n, "ok"), batches' = Delivered(n)
  PROVE  /\ Unsettled' = {} /\ Loose' = Loose /\ RecordInv' /\ ~OutcomeUnknown'
         /\ Last' = Last /\ Newest' = Newest
         /\ \A c \in 1..Len(batches) : Sendable(c) => Sendable(c)'
         /\ \A t : Fresh(t) => Fresh(t)'
<1>1. /\ SameCalls(batches, batches') /\ SameLoads(sends, sends')
      /\ Unsettled' = {} /\ Loose' = Loose
      /\ \A c \in 1..Len(batches) : batches'[c].tried = batches[c].tried
      /\ \A c \in 1..Len(batches) : Sendable(c) => Sendable(c)'
      /\ RecordInv' /\ ~OutcomeUnknown'
  BY GenerationRows, Heard
<1>2. Last' = Last /\ Newest' = Newest
  BY <1>1 DEF SameCalls, SameLoads, Last, Newest
<1>3. ASSUME NEW t, Fresh(t) PROVE Fresh(t)'
  <2>1. Newest \in 1..Len(batches)
    BY <1>3, Lengths DEF Fresh, Loose, OpenBatches
  <2>2. batches'[Newest].turn = batches[Newest].turn
    BY <1>1, <2>1 DEF SameCalls
  <2> QED
    BY <1>1, <1>2, <1>3, <2>1, <2>2 DEF Fresh
<1> QED
  BY <1>1, <1>2, <1>3

(* The driver's batch, if it remembers one.                                 *)
LEMMA SinkRange ==
  ASSUME KInv, mem.batch # 0
  PROVE  mem.batch \in 1..Len(batches)
  BY Lengths DEF KInv

(* settle_kernel_boundary.                                                  *)
LEMMA KernelBoundaryDrives ==
  ASSUME KInv, LInv, DInv, ~OutcomeUnknown, KInv', LInv', op.leaf = "closing", mem.pc = "act",
         KernelBoundary
  PROVE  DInv'
<1>1. CASE BoundaryReached
  <2>0. mem' = Loop(mem) /\ op'.resp = 0
    BY <1>1 DEF BoundaryReached
  <2>1. op.work \in Outcomes /\ (op.work # "closing" => Loose = {})
    BY Heard DEF Decides, Waits
  <2>2. /\ Unsettled' = {} /\ Loose' = Loose /\ RecordInv' /\ ~OutcomeUnknown'
        /\ \A c \in 1..Len(batches) : Sendable(c) => Sendable(c)'
    <3>1. CASE Unsettled = {} /\ UNCHANGED <<sends, batches>>
      BY <3>1, Heard, LedgerStays
    <3>2. CASE \E n \in Unsettled : sends' = SettleSend(n, "ok") /\ batches' = Delivered(n)
      BY <3>2, GenerationEnds
    <3> QED
      BY <1>1, <3>1, <3>2 DEF BoundaryReached
  <2>3. \/ op'.leaf = "kernel_settled" /\ op'.work = op.work
        \/ op'.leaf \in {"writer_running", "repair_running"} /\ op'.work = "" /\ op.work = "done"
    BY <1>1 DEF BoundaryReached
  <2>4. Cites(op)'
    BY <2>0, <2>2, <2>3 DEF Cites
  <2>5. Decides(op)' /\ Asks(op)' /\ Recalls(op)' /\ Waits(op)'
    BY <2>1, <2>2, <2>3 DEF Decides, Asks, Recalls, Waits, WorkLeaves
  <2>6. mem'.pc = "loop" /\ mem'.batch = mem.batch /\ mem'.res = mem.res
    BY <2>0, Remembered
  <2>7. Remembers(op, mem)' /\ Choice(op, mem)'
    <3>1. CASE mem.batch = 0
      BY <2>6, <3>1 DEF Remembers, Choice
    <3>2. CASE mem.batch # 0
      <4>1. PICK c \in 1..Len(batches) : c = mem.batch
        BY <3>2, SinkRange
      <4>2. op.work = "closing" /\ Sendable(c)
        BY <3>2, <4>1, Remembered
      <4>3. op'.leaf = "kernel_settled" /\ op'.work = "closing" /\ Sendable(c)'
        BY <2>2, <2>3, <4>2
      <4>4. mem'.batch = c
        BY <2>6, <4>1
      <4> QED
        BY <2>6, <4>3, <4>4 DEF Remembers, Choice
    <3> QED
      BY <3>1, <3>2
  <2>8. mem'.res \notin {"invariant", "illegal"} /\ op'.leaf # "tool_effect_pending"
    BY <2>3, <2>6, Heard DEF Driveable
  <2> QED
    BY <2>2, <2>4, <2>5, <2>6, <2>7, <2>8, Drives
<1>2. CASE UNCHANGED <<op, sends, batches>> /\ mem'.pc = "end" /\ mem'.res = "stopped"
  BY <1>2, Rests
<1> QED
  BY <1>1, <1>2, BoundaryEffect

LEMMA CloseDrives ==
  ASSUME KInv, LInv, DInv, ~OutcomeUnknown, KInv', LInv', CloseProtocol \/ FinalBoundary
  PROVE  DInv'
<1>1. op.leaf = "closing" /\ mem.pc = "act"
  BY ActsAt DEF CloseProtocol, FinalBoundary, Chosen
<1>2. op.work \in Outcomes /\ (op.work # "closing" => Loose = {}) /\ RecordInv
  BY <1>1, Heard DEF Decides, Waits
<1>3. CASE KernelBoundary
  BY <1>1, <1>3, KernelBoundaryDrives
<1>4. ASSUME NEW m, Acknowledges(m)
      PROVE  DInv'
  <2>1. /\ m \in Driver /\ m.pc = "act" /\ m.res = mem.res /\ op.resp # 0
        /\ m.batch = mem.batch \/ (m.batch \in OpenBatches /\ batches[m.batch].tried = {})
    BY <1>4 DEF Acknowledges
  <2>2. m.batch # 0 => Sendable(m.batch) /\ op.work = "closing"
    <3>1. CASE m.batch = mem.batch
      BY <1>1, <3>1, Remembered
    <3>2. CASE m.batch \in OpenBatches /\ batches[m.batch].tried = {}
      BY <1>2, <3>2, UnsentLoose
    <3> QED
      BY <2>1, <3>1, <3>2
  <2>3. CASE Freeze(m, sends[op.resp].lt, TRUE, op.round + 1)
    <3>1. Source # 0
      BY <2>1 DEF Source
    <3>2. op.work # "closing" => Loose \subseteq {m.batch}
      BY <1>2
    <3> QED
      BY <1>1, <1>2, <2>1, <2>2, <2>3, <3>1, <3>2, Freezes
  <2>4. CASE Save(Close(op), [m EXCEPT !.act = "final_boundary"])
    <3> DEFINE z == [m EXCEPT !.act = "final_boundary"]
    <3>1. z \in Driver /\ z.pc = "act" /\ z.act = "final_boundary" /\ z.res = mem.res /\ z.batch = m.batch
      BY <2>1 DEF Driver, Actions
    <3>2. Save(Close(op), z)
      BY <2>4
    <3> HIDE DEF z
    <3> QED
      BY <1>1, <2>2, <3>1, <3>2, CloseFields, Closes DEF CancelLeaves
  <2> QED
    BY <1>4, <2>3, <2>4 DEF Acknowledges
<1>5. op.work # "retry"
  BY <1>2 DEF Outcomes
<1> QED
  BY <1>3, <1>4, <1>5, CloseEffect DEF FinalBoundary

(* The generation ends after tools, or before an approval is waited for.    *)
LEMMA BoundaryDrives ==
  ASSUME KInv, LInv, DInv, ~OutcomeUnknown, KInv', LInv', Boundary
  PROVE  DInv'
<1>1. /\ op.leaf \in {"tool_delivery_pending", "tool_effect_pending"} /\ mem.pc = "act"
      /\ Unsettled # {}
  <2>1. op.leaf \in {"tool_delivery_pending", "tool_effect_pending"} /\ mem.pc = "act"
    BY ActsAt DEF Boundary, Chosen
  <2> QED
    BY <2>1 DEF Boundary, Do, KInv, Decision
<1>2. PICK n \in Unsettled : Commit(op, SettleSend(n, "ok"), Delivered(n), Loop(mem))
  BY <1>1, ChosenMember DEF Boundary
<1>3. Legal(op)
  BY <1>1 DEF Legal
<1>4. CASE op' = op /\ sends' = SettleSend(n, "ok") /\ batches' = Delivered(n) /\ mem' = Loop(mem)
  <2>1. /\ Unsettled' = {} /\ Loose' = Loose /\ RecordInv' /\ ~OutcomeUnknown'
        /\ Last' = Last /\ Newest' = Newest
        /\ \A c \in 1..Len(batches) : Sendable(c) => Sendable(c)'
        /\ \A t : Fresh(t) => Fresh(t)'
    BY <1>4, GenerationEnds
  <2>2. Cites(op)'
    BY <1>1, <1>4, <2>1, Heard DEF Cites
  <2>3. Decides(op)' /\ Asks(op)' /\ Recalls(op)'
    BY <1>1, <1>4, Heard DEF Decides, Asks, Recalls
  <2>4. Waits(op)'
    <3>1. Fresh(op.turn) /\ (op.leaf = "tool_delivery_pending" => op.resp # 0)
      BY <1>1, Heard DEF Waits, Back
    <3>2. Fresh(op.turn)'
      BY <1>4, <2>1, <3>1
    <3> QED
      BY <1>1, <1>4, <3>1, <3>2 DEF Waits
  <2>5. mem'.pc = "loop" /\ mem'.batch = mem.batch /\ mem'.res = mem.res
    BY <1>1, <1>4, Remembered
  <2>7. Remembers(op, mem)' /\ Choice(op, mem)'
    <3>1. CASE mem.batch = 0
      BY <2>5, <3>1 DEF Remembers, Choice
    <3>2. CASE mem.batch # 0
      <4>1. PICK c \in 1..Len(batches) : c = mem.batch
        BY <3>2, SinkRange
      <4>2. Sendable(c)' /\ mem'.batch = c
        BY <1>1, <2>1, <2>5, <3>2, <4>1, Remembered
      <4> QED
        BY <1>1, <1>4, <2>5, <4>2 DEF Remembers, Choice
    <3> QED
      BY <3>1, <3>2
  <2>8. /\ mem'.res \notin {"invariant", "illegal"}
        /\ op'.leaf = "tool_effect_pending" => op'.last # Newest'
    BY <1>4, <2>1, <2>5, Heard, NotCounted DEF Driveable
  <2> QED
    BY <2>1, <2>2, <2>3, <2>4, <2>5, <2>7, <2>8, Drives
<1>5. CASE UNCHANGED <<op, sends, batches>> /\ mem'.pc = "end" /\ mem'.res = "stopped"
  BY <1>5, Rests
<1> QED
  BY <1>2, <1>3, <1>4, <1>5, CommitEnds

(* The generation ends before the prepared request is submitted.            *)
LEMMA BeforeDrives ==
  ASSUME KInv, LInv, DInv, ~OutcomeUnknown, KInv', LInv', BeforeRequest
  PROVE  DInv'
<1>1. op.leaf = "provider_request_ready" /\ mem.pc = "act" /\ Unsettled # {} /\ op \in Operation
  BY ActsAt, Heard DEF BeforeRequest, Chosen
<1> DEFINE o == [op EXCEPT !.resp = 0]
           m == [mem EXCEPT !.act = "submit"]
<1>2. PICK n \in Unsettled : Commit(o, SettleSend(n, "ok"), Delivered(n), m)
  BY <1>1, NewestSend DEF BeforeRequest, LInv
<1>3. /\ o.leaf = op.leaf /\ o.resp = 0 /\ o.work = op.work /\ o.req = op.req
  BY <1>1 DEF Operation
<1>4. m.pc = "act" /\ m.act = "submit" /\ m.batch = mem.batch /\ m.res = mem.res
  BY <1>1, Points, Heard
<1> HIDE DEF o, m
<1>5. Legal(o)
  BY <1>1, <1>3 DEF Legal
<1>6. CASE op' = o /\ sends' = SettleSend(n, "ok") /\ batches' = Delivered(n) /\ mem' = m
  <2>1. /\ Unsettled' = {} /\ Loose' = Loose /\ RecordInv' /\ ~OutcomeUnknown'
        /\ Last' = Last /\ Newest' = Newest
        /\ \A c \in 1..Len(batches) : Sendable(c) => Sendable(c)'
    BY <1>6, GenerationEnds
  <2>2. Cites(op)'
    BY <1>1, <1>3, <1>6, <2>1 DEF Cites
  <2>3. Decides(op)' /\ Recalls(op)'
    BY <1>1, <1>3, <1>6 DEF Decides, Recalls, WorkLeaves
  <2>4. Asks(op)'
    <3>1. Asks(op) /\ op.req.batch \in 0..Len(batches)
      BY Heard DEF KInv, Position
    <3>2. op.req.batch # 0 => op.req.batch \in 1..Len(batches)
      BY <3>1, Lengths
    <3>3. op'.req = op.req /\ op'.work = op.work /\ op'.resp = 0
      BY <1>3, <1>6
    <3>4. /\ op.req # NoRequest /\ Grounded(op.req) /\ op.req.work = op.work
          /\ op.req.batch # 0 => Sendable(op.req.batch)
      BY <1>1, <3>1 DEF Asks
    <3>5. Grounded(op.req)'
      BY <3>3, <3>4 DEF Grounded
    <3>6. CASE op.req.batch = 0
      BY <3>3, <3>4, <3>5, <3>6 DEF Asks
    <3>7. CASE op.req.batch # 0
      <4>1. PICK c \in 1..Len(batches) : c = op.req.batch
        BY <3>2, <3>7
      <4>2. Sendable(c)' /\ op'.req.batch = c
        BY <2>1, <3>3, <3>4, <3>7, <4>1
      <4> QED
        BY <3>3, <3>4, <3>5, <4>2 DEF Asks
    <3> QED
      BY <3>6, <3>7
  <2>5. Waits(op)'
    BY <1>1, <1>3, <1>6, <2>1, Heard DEF Waits
  <2>7. Remembers(op, mem)' /\ Choice(op, mem)'
    <3>0. mem'.batch = mem.batch /\ mem'.act = "submit" /\ op'.leaf = "provider_request_ready"
      BY <1>1, <1>3, <1>4, <1>6
    <3>1. CASE mem.batch = 0
      BY <3>0, <3>1 DEF Remembers, Choice
    <3>2. CASE mem.batch # 0
      <4>1. PICK c \in 1..Len(batches) : c = mem.batch
        BY <3>2, SinkRange
      <4>2. Sendable(c)' /\ mem'.batch = c
        BY <1>1, <2>1, <3>0, <3>2, <4>1, Remembered
      <4> QED
        BY <3>0, <4>2 DEF Remembers, Choice
    <3> QED
      BY <3>1, <3>2
  <2>8. /\ mem'.res \notin {"invariant", "illegal"} /\ op'.leaf # "tool_effect_pending"
        /\ mem'.pc # "end"
    BY <1>1, <1>3, <1>4, <1>6, Heard DEF Driveable
  <2> QED
    BY <2>1, <2>2, <2>3, <2>4, <2>5, <2>7, <2>8, Drives
<1>7. CASE UNCHANGED <<op, sends, batches>> /\ mem'.pc = "end" /\ mem'.res = "stopped"
  BY <1>7, Rests
<1> QED
  BY <1>2, <1>5, <1>6, <1>7, CommitEnds

(* A batch that may be sent passes the admission of its send.               *)
LEMMA SendableAgain ==
  ASSUME KInv, LInv, RecordInv, NEW b \in 1..Len(batches), Sendable(b)
  PROVE  Resendable(b)
<1>1. \A n \in ActiveAttempts(b) : sends[n].st = "not_sent" /\ sends[n].batch = b
  BY DEF Sendable, RecordInv, ActiveAttempts
<1>2. ASSUME ActiveAttempts(b) # {} PROVE Only(ActiveAttempts(b)) # 0
  <2>1. PICK n : n \in ActiveAttempts(b)
    BY <1>2
  <2>2. ActiveAttempts(b) = {n}
    <3>1. AttemptInv
      BY DEF LInv
    <3>2. \A m \in ActiveAttempts(b) : m = n
      BY <2>1, <3>1 DEF AttemptInv
    <3> QED
      BY <2>1, <3>2
  <2>3. n # 0
    BY <2>1, AttemptSends, Lengths
  <2> QED
    BY <2>2, <2>3, OnlyOf
<1> QED
  BY <1>1, <1>2 DEF Resendable, Sendable

LEMMA SubmitDrives ==
  ASSUME KInv, LInv, DInv, ~OutcomeUnknown, KInv', LInv', Submit
  PROVE  DInv'
<1>1. op.leaf = "provider_request_ready" /\ Unsettled = {} /\ mem.pc = "act"
  BY ActsAt DEF Submit, Chosen
<1>2. /\ Grounded(op.req) /\ op.req.work = op.work
      /\ op.req.batch # 0 => Sendable(op.req.batch)
      /\ op.work # "closing" => Loose \subseteq {op.req.batch}
      /\ RecordInv
  BY <1>1, Heard DEF Asks, Waits
<1>3. op.req.batch \in 0..Len(batches)
  BY DEF KInv, Position
<1>4. op.req.batch # 0 => op.req.batch \in 1..Len(batches)
  BY <1>3, Lengths
<1>5. op.req.batch # 0 => Resendable(op.req.batch)
  BY <1>2, <1>4, SendableAgain
<1>6. CASE SendBegun
  <2> DEFINE n == Last + 1
             b == op.req.batch
  <2>0. Last \in Nat /\ n \in 1..n /\ 1..n = 1..Last \union {n} /\ n \notin 1..Last
    BY Lengths DEF Last
  <2> HIDE DEF n
  <2>1. /\ op'.leaf = "provider_effect_pending" /\ op'.turn = n /\ op'.resp = 0
        /\ op'.work = op.work /\ op'.last = op.last
        /\ Last' = n /\ Unsettled' = {n}
        /\ \A k \in 1..Last : sends'[k] = sends[k]
        /\ sends'[n].batch = b /\ sends'[n].close = op.req.close /\ sends'[n].work = op.req.work
        /\ sends'[n].src = op.req.src /\ sends'[n].st = "pending"
        /\ SameCalls(batches, batches')
        /\ mem'.pc = "send" /\ mem'.res = mem.res
    BY <1>6 DEF SendBegun, n, Last
  <2>2. ASSUME NEW c \in 1..Len(batches)
        PROVE  /\ batches'[c].end = batches[c].end
               /\ batches'[c].tried = batches[c].tried \union (IF c = b THEN {n} ELSE {})
               /\ ActiveAttempts(c)' = IF c = b THEN {n} ELSE ActiveAttempts(c)
    BY <1>6 DEF SendBegun, n
  <2>3. Len(batches') = Len(batches) /\ DOMAIN batches' = 1..Len(batches) /\ DOMAIN batches = 1..Len(batches)
    BY <2>1, Lengths, LengthsNext DEF SameCalls
  <2>4. Grounded(sends'[n])
    BY <1>2, <2>1 DEF Grounded
  <2>5. \A c \in 1..Len(batches) : batches[c].tried \subseteq 1..Last
    BY DEF KInv, Ledger, Last
  <2>6. RecordInv'
    <3>1. \A k \in 1..Last' : Grounded(sends'[k])
      BY <1>2, <2>0, <2>1, <2>4 DEF RecordInv
    <3>2. \A k \in Unsettled' : sends'[k].batch # 0 =>
            /\ batches'[sends'[k].batch].end = "open"
            /\ k \in batches'[sends'[k].batch].tried \ batches'[sends'[k].batch].void
      <4> SUFFICES ASSUME b # 0
                   PROVE  batches'[b].end = "open" /\ n \in batches'[b].tried \ batches'[b].void
        BY <2>1
      <4>1. PICK c \in 1..Len(batches) : c = b
        BY <1>4
      <4>2. batches'[c].end = "open" /\ n \in ActiveAttempts(c)'
        BY <1>2, <2>2, <4>1 DEF Open, Sendable
      <4> QED
        BY <4>1, <4>2 DEF ActiveAttempts
    <3>3. \A c \in 1..Len(batches') : \A k \in batches'[c].tried : sends'[k].batch = c
      <4> SUFFICES ASSUME NEW c \in 1..Len(batches), NEW k \in batches'[c].tried
                   PROVE  sends'[k].batch = c
        BY <2>3
      <4>1. CASE k \in batches[c].tried
        BY <1>2, <2>1, <2>5, <4>1 DEF RecordInv
      <4>2. CASE k \notin batches[c].tried
        BY <2>1, <2>2, <4>2
      <4> QED
        BY <4>1, <4>2
    <3> QED
      BY <3>1, <3>2, <3>3 DEF RecordInv, Open, ActiveAttempts
  <2>7. Cites(op)'
    BY <1>2, <2>1 DEF Cites
  <2>8. Decides(op)' /\ Asks(op)' /\ Recalls(op)'
    BY <2>1 DEF Decides, Asks, Recalls, WorkLeaves
  <2>9. op.work # "closing" => Loose' = {}
    <3>1. OpenBatches' = OpenBatches
      BY <2>2, <2>3 DEF OpenBatches, Open
    <3>2. Carried = {} /\ Carried' = {b}
      BY <1>1, <2>1 DEF Carried
    <3> QED
      BY <1>2, <3>1, <3>2 DEF Loose
  <2>10. Waits(op)'
    BY <2>1, <2>9 DEF Waits
  <2>11. Remembers(op, mem)' /\ Choice(op, mem)'
    BY <2>1 DEF Remembers, Choice
  <2>12. ~OutcomeUnknown'
    <3>1. \A k \in 1..Len(sends') : sends'[k].st = "maybe_sent" =>
            k \in 1..Len(sends) /\ sends[k].st = "maybe_sent"
      BY <2>0, <2>1 DEF Last
    <3>2. \A c \in 1..Len(batches') : \A i \in DOMAIN batches'[c].items :
            batches'[c].items[i].st = "interrupted" =>
             /\ c \in 1..Len(batches) /\ i \in DOMAIN batches[c].items
             /\ batches[c].items[i].st = "interrupted"
      BY <2>1, <2>3 DEF SameCalls
    <3> QED
      BY <3>1, <3>2, StillKnown
  <2>13. mem'.res \notin {"invariant", "illegal"} /\ op'.leaf # "tool_effect_pending" /\ mem'.pc # "end"
    BY <2>1, Heard DEF Driveable
  <2> QED
    BY <2>6, <2>7, <2>8, <2>10, <2>11, <2>12, <2>13, Drives
<1>7. CASE UNCHANGED <<op, sends, batches>> /\ mem'.pc = "end" /\ mem'.res = "stopped"
  BY <1>7, Rests
<1> QED
  BY <1>5, <1>6, <1>7, SubmitEffect

(* The sends keep their outcomes and what they carry.                       *)
LEMMA SendsAlike ==
  ASSUME KInv, LInv, RecordInv, ~OutcomeUnknown, KInv', SameLoads(sends, sends'),
         \A k \in 1..Last : sends'[k].st = sends[k].st, batches' = batches
  PROVE  /\ Unsettled' = Unsettled /\ Last' = Last /\ Loose' = Loose
         /\ RecordInv' /\ ~OutcomeUnknown'
<1>1. /\ Len(sends') = Len(sends) /\ DOMAIN sends' = 1..Last /\ DOMAIN sends = 1..Last
      /\ \A k \in 1..Last : sends'[k].batch = sends[k].batch
  BY Lengths, LengthsNext DEF SameLoads, Last
<1>2. Unsettled' = Unsettled /\ Last' = Last
  BY <1>1 DEF Unsettled, Last
<1>3. Unsettled \subseteq 1..Last
  BY <1>1 DEF Unsettled
<1>4. Carried' = Carried
  BY <1>1, <1>2, <1>3 DEF Carried
<1>5. Loose' = Loose
  BY <1>4 DEF Loose, OpenBatches, Open
<1>6. RecordInv'
  <2>1. \A k \in 1..Last' : Grounded(sends'[k])
    BY <1>2, LoadsGrounded DEF Last
  <2>2. \A k \in Unsettled' : sends'[k].batch # 0 =>
          /\ batches'[sends'[k].batch].end = "open"
          /\ k \in batches'[sends'[k].batch].tried \ batches'[sends'[k].batch].void
    BY <1>1, <1>2, <1>3 DEF RecordInv, Open, ActiveAttempts
  <2>3. \A c \in 1..Len(batches') : \A k \in batches'[c].tried : sends'[k].batch = c
    <3>1. \A c \in 1..Len(batches) : batches[c].tried \subseteq 1..Last
      BY DEF KInv, Ledger, Last
    <3> QED
      BY <1>1, <3>1 DEF RecordInv
  <2> QED
    BY <2>1, <2>2, <2>3 DEF RecordInv, Open, ActiveAttempts
<1>7. ~OutcomeUnknown'
  <2>1. SameCalls(batches, batches')
    BY DEF SameCalls
  <2> QED
    BY <1>1, <2>1, KnownSends DEF Last
<1> QED
  BY <1>2, <1>5, <1>6, <1>7

LEMMA SendDrives ==
  ASSUME KInv, LInv, DInv, ~OutcomeUnknown, KInv', LInv', Send
  PROVE  DInv'
<1>1. op.leaf = "provider_effect_pending"
  BY DEF Send, LInv, FlightInv
<1>2. /\ SameLoads(sends, sends') /\ UNCHANGED <<op, batches>>
      /\ \A k \in 1..Last : sends'[k].st = sends[k].st
      /\ mem'.pc = "sent" /\ mem'.res = mem.res
  BY SendEffect
<1>3. /\ Unsettled' = Unsettled /\ Last' = Last /\ Loose' = Loose
      /\ RecordInv' /\ ~OutcomeUnknown'
  BY <1>2, Heard, SendsAlike
<1>4. Cites(op)'
  <2>1. Cites(op) /\ Last \in Nat
    BY Heard
  <2>2. Last \in 1..Last
    BY <1>1, <2>1, Lengths DEF Cites, Unsettled, Last
  <2>3. sends'[Last].work = sends[Last].work
    BY <1>2, <2>2 DEF SameLoads, Last
  <2> QED
    BY <1>1, <1>2, <1>3, <2>1, <2>3 DEF Cites
<1>5. Decides(op)' /\ Asks(op)' /\ Recalls(op)'
  BY <1>1, <1>2 DEF Decides, Asks, Recalls, WorkLeaves
<1>6. Waits(op)'
  BY <1>1, <1>2, <1>3, Heard DEF Waits
<1>7. Remembers(op, mem)' /\ Choice(op, mem)'
  BY <1>2 DEF Remembers, Choice
<1>8. mem'.res \notin {"invariant", "illegal"} /\ op'.leaf # "tool_effect_pending" /\ mem'.pc # "end"
  BY <1>1, <1>2, Heard DEF Driveable
<1> QED
  BY <1>3, <1>4, <1>5, <1>6, <1>7, <1>8, Drives

LEMMA ReceiveDrives ==
  ASSUME KInv, LInv, DInv, ~OutcomeUnknown, KInv', LInv', NEW reply \in Replies, Receive(reply)
  PROVE  DInv'
<1>1. op.leaf = "provider_effect_pending"
  BY DEF Receive, LInv, FlightInv
<1>2. CASE ReplyRecorded(reply)
  <2>1. /\ SameLoads(sends, sends') /\ batches' = batches
        /\ \A k \in 1..Last : sends'[k].st = sends[k].st
        /\ op'.leaf = "provider_response_ready" /\ op'.resp = op.turn /\ op'.turn = op.turn
        /\ op'.work = op.work
        /\ mem'.pc = "loop" /\ mem'.batch = 0 /\ mem'.res = mem.res
    BY <1>2 DEF ReplyRecorded
  <2>2. /\ Unsettled' = Unsettled /\ Last' = Last /\ Loose' = Loose
        /\ RecordInv' /\ ~OutcomeUnknown'
    BY <2>1, Heard, SendsAlike
  <2>3. op.turn = Last /\ Last \in Unsettled /\ op.work = sends[Last].work
    BY <1>1, Heard DEF Cites
  <2>4. Last \in 1..Last /\ Last # 0
    BY <2>3, Lengths DEF Unsettled, Last
  <2>5. sends'[Last].work = sends[Last].work
    BY <2>1, <2>4 DEF SameLoads, Last
  <2>6. Cites(op)'
    BY <2>1, <2>2, <2>3, <2>4, <2>5 DEF Cites
  <2>7. Decides(op)' /\ Asks(op)' /\ Recalls(op)'
    BY <2>1 DEF Decides, Asks, Recalls, WorkLeaves
  <2>8. Waits(op)'
    BY <1>1, <2>1, <2>2, Heard DEF Waits
  <2>9. Remembers(op, mem)' /\ Choice(op, mem)'
    BY <2>1 DEF Remembers, Choice
  <2>10. mem'.res \notin {"invariant", "illegal"} /\ op'.leaf # "tool_effect_pending" /\ mem'.pc # "end"
    BY <2>1, Heard DEF Driveable
  <2> QED
    BY <2>2, <2>6, <2>7, <2>8, <2>9, <2>10, Drives
<1>3. CASE UNCHANGED <<op, sends, batches>> /\ mem'.pc = "end" /\ mem'.res = "stopped"
  BY <1>3, Rests
<1> QED
  BY <1>2, <1>3, ReceiveEffect

(* What a step must establish that leaves an outcome unknown.               *)
LEMMA Unsettles ==
  ASSUME KInv', LInv', op'.leaf = "tool_effect_pending" => op'.last # Newest',
         mem'.res \notin {"invariant", "illegal"}, mem'.pc # "end" \/ mem'.res # "done",
         OutcomeUnknown',
         \/ mem'.pc \in {"off", "loop", "end"}
         \/ mem'.pc = "act" /\ mem'.act \in {"synthesize", "fail_unknown"}
  PROVE  DInv'
<1>1. ProgressValid'
  BY ProgressNext
<1>2. UnknownInv' /\ EndInv' /\ Driveable'
  BY DEF UnknownInv, EndInv, Driveable
<1> QED
  BY <1>1, <1>2 DEF DInv

(* The rows after a send that failed.                                       *)
LEMMA FailedRows ==
  ASSUME KInv, LInv, DInv, ~OutcomeUnknown, KInv', op.turn \in Unsettled,
         sends' = SettleSend(op.turn, "not_sent"), batches' = batches
  PROVE  /\ Unsettled' = {} /\ Last' = Last /\ OpenBatches' = OpenBatches /\ Loose' = OpenBatches
         /\ SameLoads(sends, sends') /\ sends'[op.turn].st = "not_sent"
         /\ RecordInv' /\ ~OutcomeUnknown'
<1>0. RecordInv
  BY Heard
<1>1. /\ SameLoads(sends, sends') /\ Len(sends') = Len(sends)
      /\ \A m \in 1..Last : sends'[m].st = IF m = op.turn THEN "not_sent" ELSE sends[m].st
  BY SettledLoads DEF SameLoads
<1>2. Unsettled' = {} /\ sends'[op.turn].st = "not_sent"
  BY SendsSettled DEF LInv
<1>3. OpenBatches' = OpenBatches /\ Carried' = {}
  BY <1>2 DEF OpenBatches, Open, Carried
<1>4. Loose' = OpenBatches
  BY <1>3 DEF Loose
<1>5. RecordInv'
  <2>1. \A m \in 1..Last' : Grounded(sends'[m])
    BY <1>0, <1>1, LoadsGrounded DEF Last
  <2>2. \A b \in 1..Len(batches) : batches[b].tried \subseteq 1..Len(sends)
    BY DEF KInv, Ledger
  <2>3. \A b \in 1..Len(batches') : \A m \in batches'[b].tried : sends'[m].batch = b
    BY <1>0, <1>1, <2>2 DEF RecordInv, SameLoads
  <2> QED
    BY <1>2, <2>1, <2>3 DEF RecordInv
<1>6. ~OutcomeUnknown'
  <2>1. SameCalls(batches, batches')
    BY DEF SameCalls
  <2> QED
    BY <1>1, <2>1, KnownSends DEF Last
<1> QED
  BY <1>1, <1>2, <1>3, <1>4, <1>5, <1>6 DEF Last

(* A send ends badly: it is known to be unsent, or nothing is known of it.  *)
LEMMA FailDrives ==
  ASSUME KInv, LInv, DInv, ~OutcomeUnknown, KInv', LInv',
         SettleUnknown \/ \E st \in {"not_sent", "maybe_sent"} : SendFails(st)
  PROVE  DInv'
<1>1. op.leaf = "provider_effect_pending" /\ op.turn \in Unsettled
  BY FailEffect
<1>2. op.turn \in 1..Len(sends)
  BY <1>1, Lengths DEF Unsettled
<1>3. Running(op.phase) \in {"writer_running", "repair_running"}
  BY RunningAt
<1>4. CASE SendFailed("maybe_sent")
  <2>1. /\ op' = FailedSend(op.turn, "maybe_sent") /\ sends' = SettleSend(op.turn, "maybe_sent")
        /\ mem'.pc = "end" /\ mem'.res \in {"failed", "unknown"}
    BY <1>4 DEF SendFailed
  <2>2. sends'[op.turn].st = "maybe_sent" /\ Len(sends') = Len(sends)
    BY <1>1, <2>1, SendsSettled DEF LInv
  <2>3. OutcomeUnknown'
    <3>1. op.turn \in DOMAIN sends'
      BY <1>2, <2>2, LengthsNext
    <3> QED
      BY <2>2, <3>1 DEF OutcomeUnknown
  <2>4. op'.leaf # "tool_effect_pending"
    <3>1. op'.leaf \in {"control_ready", "tool_delivery_pending", Running(op.phase)}
      BY <1>2, <2>1, FailedFields
    <3> QED
      BY <1>3, <3>1
  <2> QED
    BY <2>1, <2>3, <2>4, Unsettles
<1>5. CASE SendFailed("not_sent")
  <2> DEFINE b == sends[op.turn].batch
  <2>1. /\ op' = FailedSend(op.turn, "not_sent") /\ sends' = SettleSend(op.turn, "not_sent")
        /\ batches' = batches /\ mem'.pc = "end" /\ mem'.res \in {"failed", "unknown"}
    BY <1>5 DEF SendFailed
  <2>2. /\ Unsettled' = {} /\ Last' = Last /\ OpenBatches' = OpenBatches /\ Loose' = OpenBatches
        /\ SameLoads(sends, sends') /\ sends'[op.turn].st = "not_sent"
        /\ RecordInv' /\ ~OutcomeUnknown'
    BY <1>1, <2>1, FailedRows
  <2>3. /\ sends'[op.turn].work = sends[op.turn].work /\ sends'[op.turn].batch = b
        /\ op.turn \in 1..Last
    BY <1>2, <2>2 DEF SameLoads, Last
  <2>4. /\ op.turn = Last /\ op.work = sends[op.turn].work /\ op.resp \in {0, Last}
        /\ op.work # "closing" => Loose = {}
    BY <1>1, Heard DEF Cites, Waits
  <2>5. Grounded(sends[op.turn]) /\ (b # 0 => Bounced(op.turn, "not_sent"))
    BY <1>1, <2>3, Heard DEF RecordInv, Bounced
  <2>6. Carried = {b}
    <3>1. Unsettled = {op.turn}
      BY <1>1, <2>4, Heard
    <3> QED
      BY <3>1 DEF Carried
  <2>7. OpenBatches \subseteq Loose \union {b}
    BY <2>6 DEF Loose
  <2>8. 0 \notin OpenBatches
    BY Lengths DEF OpenBatches
  <2>9. Remembers(op, mem)' /\ Choice(op, mem)'
    BY <2>1 DEF Remembers, Choice
  <2> HIDE DEF b
  <2>10. CASE op.work # ""
    <3>1. /\ op'.leaf = "control_ready" /\ op'.resp = op.resp /\ op'.turn = op.turn
          /\ op'.work = op.work
      BY <1>2, <2>1, <2>10, FailedFields
    <3>2. op.work # "closing" => OpenBatches = {}
      BY <2>4, <2>5, <2>7, <2>8, <2>10 DEF Grounded, b
    <3>3. Cites(op)'
      BY <2>2, <2>4, <3>1 DEF Cites
    <3>4. Decides(op)' /\ Asks(op)'
      BY <2>10, <3>1 DEF Decides, Asks, WorkLeaves
    <3>5. Recalls(op)'
      BY <2>2, <2>3, <2>4, <3>1 DEF Recalls
    <3>6. Waits(op)'
      BY <2>2, <3>1, <3>2 DEF Waits
    <3> QED
      BY <2>1, <2>2, <2>9, <3>1, <3>3, <3>4, <3>5, <3>6, Drives
  <2>11. CASE op.work = "" /\ b # 0
    <3>1. /\ op'.leaf = "tool_delivery_pending" /\ op'.resp = op.resp
          /\ op'.turn = batches[b].turn /\ op'.work = ""
      BY <1>2, <2>1, <2>5, <2>11, FailedFields DEF b
    <3>2. PICK c \in 1..Len(batches) : c = b
      <4>1. b \in 0..Len(batches)
        BY <1>2 DEF KInv, Ledger, b
      <4>2. Len(batches) \in Nat
        BY Lengths
      <4>3. b \in 1..Len(batches)
        <5>1. b # 0
          BY <2>11
        <5> QED
          BY <4>1, <4>2, <5>1
      <4> QED
        BY <4>3
    <3>3. /\ c \in OpenBatches /\ op.turn \in ActiveAttempts(c) /\ op'.turn = batches'[c].turn
      BY <2>1, <2>5, <2>11, <3>1, <3>2, Lengths DEF Bounced, b, OpenBatches
    <3>4. OpenBatches' = {c} /\ c \in OpenBatches'
      BY <2>2, <2>4, <2>7, <2>11, <3>2, <3>3
    <3>5. op.turn \in ActiveAttempts(c)'
      BY <2>1, <3>3 DEF ActiveAttempts
    <3>6. sends'[op.turn].st = "not_sent" /\ sends'[op.turn].batch = c
      BY <2>2, <2>3, <3>2
    <3>7. Back(op.turn)'
      <4>1. PICK n : n = op.turn
        OBVIOUS
      <4>2. n \in ActiveAttempts(c)' /\ sends'[n].st = "not_sent" /\ sends'[n].batch = c
        BY <3>5, <3>6, <4>1
      <4> QED
        BY <2>2, <3>3, <3>4, <4>2 DEF Back
    <3>8. Cites(op)'
      BY <2>2, <2>4, <3>1 DEF Cites
    <3>9. Decides(op)' /\ Asks(op)' /\ Recalls(op)'
      BY <3>1 DEF Decides, Asks, Recalls, WorkLeaves
    <3>10. Waits(op)'
      BY <3>1, <3>7 DEF Waits
    <3> QED
      BY <2>1, <2>2, <2>9, <3>1, <3>8, <3>9, <3>10, Drives
  <2>12. CASE op.work = "" /\ b = 0
    <3>1. op'.leaf \in {"writer_running", "repair_running"} /\ op'.resp = 0 /\ op'.work = ""
      <4>1. ~Bounced(op.turn, "not_sent")
        BY <2>12 DEF Bounced, b
      <4> QED
        BY <1>2, <1>3, <2>1, <2>12, <4>1, FailedFields
    <3>2. OpenBatches = {}
      BY <2>4, <2>7, <2>8, <2>12
    <3>3. Cites(op)'
      BY <2>2, <3>1 DEF Cites
    <3>4. Decides(op)' /\ Asks(op)' /\ Recalls(op)'
      BY <3>1 DEF Decides, Asks, Recalls, WorkLeaves
    <3>5. Waits(op)'
      BY <2>2, <3>1, <3>2 DEF Waits
    <3> QED
      BY <2>1, <2>2, <2>9, <3>1, <3>3, <3>4, <3>5, Drives
  <2> QED
    BY <2>10, <2>11, <2>12
<1>6. CASE UNCHANGED <<op, sends, batches>> /\ mem'.pc = "end" /\ mem'.res = "stopped"
  BY <1>6, Rests
<1> QED
  BY <1>4, <1>5, <1>6, FailEffect

(* Rows with the same heads: what is said of a position holds of them too.  *)
LEMMA HeadsStay ==
  ASSUME KInv, LInv, KInv', RecordInv, sends' = sends, SameHeads(batches, batches')
  PROVE  /\ Unsettled' = Unsettled /\ Last' = Last /\ Newest' = Newest
         /\ Loose' = Loose /\ RecordInv'
         /\ \A c \in 1..Len(batches) : Sendable(c) => Sendable(c)'
         /\ \A t : Fresh(t) => Fresh(t)'
<1>1. /\ Len(batches') = Len(batches)
      /\ DOMAIN batches' = 1..Len(batches) /\ DOMAIN batches = 1..Len(batches)
      /\ \A c \in 1..Len(batches) :
           /\ batches'[c].turn = batches[c].turn /\ batches'[c].end = batches[c].end
           /\ batches'[c].tried = batches[c].tried /\ batches'[c].void = batches[c].void
  BY Lengths, LengthsNext DEF SameHeads
<1>2. Unsettled' = Unsettled /\ Last' = Last /\ Newest' = Newest
  BY <1>1 DEF Unsettled, Last, Newest
<1>3. OpenBatches' = OpenBatches
  BY <1>1 DEF OpenBatches, Open
<1>4. Carried' = Carried
  BY <1>2 DEF Carried
<1>5. Loose' = Loose
  BY <1>3, <1>4 DEF Loose
<1>6. \A c \in 1..Len(batches) : ActiveAttempts(c)' = ActiveAttempts(c) /\ Open(c)' = Open(c)
  BY <1>1 DEF ActiveAttempts, Open
<1>7. \A c \in 1..Len(batches) : Sendable(c) => Sendable(c)'
  BY <1>6 DEF Sendable
<1>8. ASSUME NEW t, Fresh(t) PROVE Fresh(t)'
  <2>1. Newest \in 1..Len(batches)
    BY <1>8, Lengths DEF Fresh, Loose, OpenBatches
  <2> QED
    BY <1>1, <1>2, <1>5, <1>8, <2>1 DEF Fresh
<1>9. RecordInv'
  <2>1. \A m \in 1..Last' : Grounded(sends'[m])
    BY <1>2 DEF RecordInv, Grounded
  <2>2. \A n \in Unsettled' : sends'[n].batch # 0 =>
          /\ batches'[sends'[n].batch].end = "open"
          /\ n \in batches'[sends'[n].batch].tried \ batches'[sends'[n].batch].void
    <3> SUFFICES ASSUME NEW n \in Unsettled, sends[n].batch # 0
                 PROVE  /\ batches'[sends[n].batch].end = "open"
                        /\ n \in batches'[sends[n].batch].tried \ batches'[sends[n].batch].void
      BY <1>2
    <3>1. sends[n].batch \in 1..Len(batches)
      <4>1. n \in 1..Len(sends)
        BY Lengths DEF Unsettled
      <4>2. sends[n].batch \in 0..Len(batches)
        BY <4>1 DEF KInv, Ledger
      <4> QED
        BY <4>2, Lengths
    <3>2. PICK c \in 1..Len(batches) : c = sends[n].batch
      BY <3>1
    <3> QED
      BY <1>1, <3>2 DEF RecordInv, Open, ActiveAttempts
  <2>3. \A c \in 1..Len(batches') : \A m \in batches'[c].tried : sends'[m].batch = c
    BY <1>1 DEF RecordInv
  <2> QED
    BY <2>1, <2>2, <2>3 DEF RecordInv, Open, ActiveAttempts
<1> QED
  BY <1>2, <1>5, <1>7, <1>8, <1>9

(* The driver or the approval runs a call, whatever is known.               *)
LEMMA RunDrives ==
  ASSUME KInv, LInv, DInv, KInv', LInv', RunSlot \/ RunCommand
  PROVE  DInv'
<1>1. /\ op.leaf = "tool_effect_pending" /\ UNCHANGED <<op, sends>>
      /\ mem'.batch = mem.batch /\ mem'.res = mem.res
      /\ mem' = mem \/ (mem.pc = "tools" /\ mem'.pc = "ran")
  BY RunEffect
<1>2. PICK b : \E i : OneRun(batches, batches', b, i)
  BY RunEffect
<1>3. PICK i : OneRun(batches, batches', b, i)
  BY <1>2
<1>4. SameHeads(batches, batches')
  BY <1>3 DEF OneRun
<1>5. \A c \in 1..Len(batches) : \A j \in DOMAIN batches[c].items :
        batches'[c].items[j].st = batches[c].items[j].st
  BY <1>3 DEF OneRun
<1>6. OutcomeUnknown' <=> OutcomeUnknown
  <2>1. /\ DOMAIN batches' = 1..Len(batches) /\ DOMAIN batches = 1..Len(batches)
        /\ \A c \in 1..Len(batches) : DOMAIN batches'[c].items = DOMAIN batches[c].items
    BY <1>4, Lengths, LengthsNext DEF SameHeads
  <2> QED
    BY <1>1, <1>5, <2>1 DEF OutcomeUnknown
<1>7. op.last # Newest /\ Newest' = Newest
  BY <1>1, <1>4, NotCounted DEF DInv, SameHeads, Newest
<1>8. mem'.res \notin {"invariant", "illegal"}
  BY <1>1 DEF DInv, Driveable
<1>9. mem'.pc # "end" \/ mem'.res # "done"
  BY <1>1 DEF DInv, EndInv
<1>10. CASE OutcomeUnknown
  BY <1>1, <1>6, <1>7, <1>8, <1>9, <1>10, Unsettles DEF DInv, UnknownInv
<1>11. CASE ~OutcomeUnknown
  <2>1. /\ Unsettled' = Unsettled /\ Last' = Last /\ Newest' = Newest
        /\ Loose' = Loose /\ RecordInv'
        /\ \A c \in 1..Len(batches) : Sendable(c) => Sendable(c)'
        /\ \A t : Fresh(t) => Fresh(t)'
    BY <1>1, <1>4, <1>11, Heard, HeadsStay
  <2>2. Cites(op)'
    BY <1>1, <1>11, <2>1, Heard DEF Cites
  <2>3. Decides(op)' /\ Asks(op)' /\ Recalls(op)'
    BY <1>1, <1>11, Heard DEF Decides, Asks, Recalls
  <2>4. Waits(op)'
    <3>1. Fresh(op.turn)
      BY <1>1, <1>11, Heard DEF Waits
    <3>2. Fresh(op.turn)'
      BY <1>1, <2>1, <3>1
    <3> QED
      BY <1>1, <3>2 DEF Waits
  <2>5. Remembers(op, mem)'
    <3>1. CASE mem.batch = 0
      BY <1>1, <3>1 DEF Remembers
    <3>2. CASE mem.batch # 0
      <4>1. PICK c \in 1..Len(batches) : c = mem.batch
        BY <3>2, SinkRange
      <4>2. mem'.pc \notin {"end", "send", "sent"} => Sendable(c)'
        BY <1>1, <1>11, <2>1, <3>2, <4>1, Heard DEF Remembers
      <4>3. mem'.batch = c
        BY <1>1, <4>1
      <4> QED
        BY <1>1, <4>2, <4>3 DEF Remembers
    <3> QED
      BY <3>1, <3>2
  <2>6. Choice(op, mem)'
    BY <1>1, <1>11, Heard DEF Choice
  <2> QED
    BY <1>1, <1>6, <1>7, <1>8, <1>9, <1>11, <2>1, <2>2, <2>3, <2>4, <2>5, <2>6, Drives
<1> QED
  BY <1>10, <1>11

(* The calls of a turn begin: their batch is the only loose one.            *)
LEMMA BatchDrives ==
  ASSUME KInv, LInv, DInv, ~OutcomeUnknown, KInv', LInv', BeginBatch
  PROVE  DInv'
<1>1. CASE BatchBegun
  <2> DEFINE n == Newest + 1
  <2>0. Newest \in Nat /\ n \in 1..n /\ 1..n = 1..Newest \union {n} /\ n \notin 0..Newest /\ n # 0
    BY Lengths DEF Newest
  <2> HIDE DEF n
  <2>1. /\ op.leaf = "plan_ready" /\ sends' = sends
        /\ op'.leaf = "tool_effect_pending" /\ op'.turn = batches'[n].turn
        /\ op'.resp = op.resp /\ op'.work = "" /\ op'.last = op.last
        /\ Newest' = n /\ \A c \in 1..Newest : batches'[c] = batches[c]
        /\ batches'[n].tried = {} /\ batches'[n].end = "open"
        /\ \A i \in DOMAIN batches'[n].items : batches'[n].items[i].st = "pending"
        /\ mem'.pc \in {"ask", "tools"} /\ mem'.batch = n /\ mem'.res = mem.res
    BY <1>1 DEF BatchBegun, n, Newest
  <2>2. /\ op.resp # 0 /\ op.work = "" /\ Loose = {} /\ RecordInv /\ Cites(op)
    BY <2>1, Heard DEF Cites, Decides, Waits, WorkLeaves
  <2>3. DOMAIN batches' = 1..n /\ DOMAIN batches = 1..Newest
    BY <2>1, Lengths, LengthsNext DEF Newest
  <2>4. Unsettled' = Unsettled /\ Last' = Last /\ Carried' = Carried
    <3>1. Unsettled' = Unsettled /\ Last' = Last
      BY <2>1 DEF Unsettled, Last
    <3> QED
      BY <2>1, <3>1 DEF Carried
  <2>5. Carried \subseteq 0..Newest
    <3>1. \A k \in Unsettled : k \in 1..Len(sends)
      BY Lengths DEF Unsettled
    <3> QED
      BY <3>1 DEF Carried, KInv, Ledger, Newest
  <2>6. OpenBatches' = OpenBatches \union {n}
    <3>1. \A c \in 1..Newest : Open(c)' <=> Open(c)
      BY <2>1 DEF Open
    <3>2. batches'[n].end = "open"
      BY <2>1
    <3> QED
      BY <2>0, <2>3, <3>1, <3>2 DEF OpenBatches, Open
  <2>7. Loose' = {n}
    BY <2>0, <2>2, <2>4, <2>5, <2>6 DEF Loose
  <2>8. PICK c : c = n
    OBVIOUS
  <2>9. Sendable(c)'
    BY <2>1, <2>8 DEF Sendable, Open, ActiveAttempts
  <2>10. Fresh(op.turn)'
    BY <2>1, <2>7 DEF Fresh
  <2>11. RecordInv'
    <3>1. \A k \in 1..Last' : Grounded(sends'[k])
      BY <2>1, <2>2, <2>4 DEF RecordInv, Grounded
    <3>2. \A k \in Unsettled' : sends'[k].batch # 0 =>
            /\ batches'[sends'[k].batch].end = "open"
            /\ k \in batches'[sends'[k].batch].tried \ batches'[sends'[k].batch].void
      <4> SUFFICES ASSUME NEW k \in Unsettled, sends[k].batch # 0
                   PROVE  /\ batches'[sends[k].batch].end = "open"
                          /\ k \in batches'[sends[k].batch].tried \ batches'[sends[k].batch].void
        BY <2>1, <2>4
      <4>1. sends[k].batch \in 0..Newest
        BY <2>5 DEF Carried
      <4>2. sends[k].batch \in 1..Newest
        BY <2>0, <4>1
      <4>3. batches'[sends[k].batch] = batches[sends[k].batch]
        BY <2>1, <4>2
      <4> QED
        BY <2>2, <4>3 DEF RecordInv, Open, ActiveAttempts
    <3>3. \A d \in 1..Len(batches') : \A k \in batches'[d].tried : sends'[k].batch = d
      <4>1. \A d \in 1..Newest : \A k \in batches'[d].tried : sends'[k].batch = d
        BY <2>1, <2>2 DEF RecordInv, Newest
      <4>2. 1..Len(batches') = 1..Newest \union {n}
        BY <2>0, <2>1 DEF Newest
      <4> QED
        BY <2>1, <4>1, <4>2
    <3> QED
      BY <3>1, <3>2, <3>3 DEF RecordInv, Open, ActiveAttempts
  <2>12. ~OutcomeUnknown'
    <3>1. \A k \in 1..Len(sends') : sends'[k].st = "maybe_sent" =>
            k \in 1..Len(sends) /\ sends[k].st = "maybe_sent"
      BY <2>1
    <3>2. \A d \in 1..Len(batches') : \A i \in DOMAIN batches'[d].items :
            batches'[d].items[i].st = "interrupted" =>
             /\ d \in 1..Len(batches) /\ i \in DOMAIN batches[d].items
             /\ batches[d].items[i].st = "interrupted"
      <4>1. 1..Len(batches') = 1..Newest \union {n}
        BY <2>0, <2>1 DEF Newest
      <4> QED
        BY <2>1, <4>1 DEF Newest
    <3> QED
      BY <3>1, <3>2, StillKnown
  <2>13. Cites(op)'
    BY <2>1, <2>2, <2>4 DEF Cites
  <2>14. Decides(op)' /\ Asks(op)' /\ Recalls(op)'
    BY <2>1 DEF Decides, Asks, Recalls, WorkLeaves
  <2>15. Waits(op)'
    BY <2>1, <2>10 DEF Waits
  <2>16. Remembers(op, mem)' /\ Choice(op, mem)'
    <3>1. mem'.batch = c
      BY <2>1, <2>8
    <3> QED
      BY <2>1, <2>9, <3>1 DEF Remembers, Choice
  <2>17. op'.last # Newest'
    <3>1. op.last \in 0..Newest
      BY DEF KInv, Position, Newest
    <3> QED
      BY <2>0, <2>1, <3>1
  <2>18. mem'.res \notin {"invariant", "illegal"} /\ mem'.pc # "end"
    BY <2>1, Heard DEF Driveable
  <2> QED
    BY <2>11, <2>12, <2>13, <2>14, <2>15, <2>16, <2>17, <2>18, Drives
<1>2. CASE UNCHANGED <<op, sends, batches>> /\ mem'.pc = "end" /\ mem'.res = "stopped"
  BY <1>2, Rests
<1> QED
  BY <1>1, <1>2, BeginBatchEffect

(* A call takes its outcome: the batch waits where it waited, or is ready   *)
(* to be delivered.                                                         *)
LEMMA SlotDrives ==
  ASSUME KInv, LInv, DInv, ~OutcomeUnknown, KInv', LInv', ~Synthesize,
         SkipSlot \/ (\E st \in {"ok", "error"} : SettleSlot(st)) \/ Reconcile
  PROVE  DInv'
<1>0. op.leaf = "tool_effect_pending" /\ mem \in Driver /\ mem.pc \in {"tools", "ran", "act"}
  <2>1. mem.pc \in {"tools", "ran", "act"}
    BY DEF SkipSlot, SettleSlot, Reconcile, Do
  <2> QED
    BY <2>1, SlotEffect, Heard
<1>1. ASSUME NEW i, NEW st \in {"ok", "error", "interrupted"}, ItemDone(i, st),
             st # "interrupted", mem' \in {Loop(mem), [mem EXCEPT !.pc = "tools"]}
      PROVE  DInv'
  <2>1. /\ sends' = sends /\ OneOutcome(batches, batches', Newest, i, st)
        /\ op'.last = op.last /\ op'.resp = op.resp /\ op'.turn = op.turn
        /\ op' = op \/ (op'.leaf = "tool_delivery_pending" /\ op'.work = "")
    BY <1>1 DEF ItemDone
  <2>2. SameHeads(batches, batches')
    BY <2>1 DEF OneOutcome
  <2>3. /\ Unsettled' = Unsettled /\ Last' = Last /\ Newest' = Newest
        /\ Loose' = Loose /\ RecordInv'
        /\ \A c \in 1..Len(batches) : Sendable(c) => Sendable(c)'
        /\ \A t : Fresh(t) => Fresh(t)'
    BY <2>1, <2>2, Heard, HeadsStay
  <2>4. ~OutcomeUnknown'
    <3>1. \A n \in 1..Len(sends') : sends'[n].st = "maybe_sent" =>
            n \in 1..Len(sends) /\ sends[n].st = "maybe_sent"
      BY <2>1
    <3>2. \A c \in 1..Len(batches) : \A j \in DOMAIN batches[c].items :
            batches'[c].items[j].st = "interrupted" => batches[c].items[j].st = "interrupted"
      BY <1>1, <2>1 DEF OneOutcome
    <3>3. \A c \in 1..Len(batches') : \A j \in DOMAIN batches'[c].items :
            batches'[c].items[j].st = "interrupted" =>
             /\ c \in 1..Len(batches) /\ j \in DOMAIN batches[c].items
             /\ batches[c].items[j].st = "interrupted"
      BY <2>2, <3>2 DEF SameHeads
    <3> QED
      BY <3>1, <3>3, StillKnown
  <2>5. op.resp # 0 /\ Fresh(op.turn) /\ op.work = "" /\ Cites(op)
    BY <1>0, Heard DEF Cites, Waits, Decides, WorkLeaves
  <2>6. op'.leaf \in {"tool_effect_pending", "tool_delivery_pending"} /\ op'.work = ""
    BY <1>0, <2>1, <2>5
  <2>7. Cites(op)'
    BY <1>0, <2>1, <2>3, <2>5, <2>6 DEF Cites
  <2>8. Decides(op)' /\ Asks(op)' /\ Recalls(op)'
    BY <2>6 DEF Decides, Asks, Recalls
  <2>9. Waits(op)'
    <3>1. Fresh(op.turn)'
      <4>1. PICK t : t = op.turn
        OBVIOUS
      <4>2. Fresh(t)' /\ op'.turn = t
        BY <2>1, <2>3, <2>5, <4>1
      <4> QED
        BY <4>2 DEF Fresh
    <3> QED
      BY <2>1, <2>5, <2>6, <3>1 DEF Waits
  <2>10. mem'.pc \in {"loop", "tools"} /\ mem'.batch = mem.batch /\ mem'.res = mem.res
    <3>1. Loop(mem).pc = "loop" /\ Loop(mem).batch = mem.batch /\ Loop(mem).res = mem.res
      BY <1>0, Points
    <3> DEFINE m == [mem EXCEPT !.pc = "tools"]
    <3>2. m.pc = "tools" /\ m.batch = mem.batch /\ m.res = mem.res
      BY <1>0, Points
    <3>3. mem' = Loop(mem) \/ mem' = m
      BY <1>1
    <3> HIDE DEF m
    <3> QED
      BY <3>1, <3>2, <3>3
  <2>11. Remembers(op, mem)' /\ Choice(op, mem)'
    <3>1. CASE mem.batch = 0
      BY <2>10, <3>1 DEF Remembers, Choice
    <3>2. CASE mem.batch # 0
      <4>1. PICK c \in 1..Len(batches) : c = mem.batch
        BY <3>2, SinkRange
      <4>2. Sendable(c)' /\ mem'.batch = c
        BY <1>0, <2>3, <2>10, <3>2, <4>1, Heard DEF Remembers
      <4> QED
        BY <2>6, <2>10, <4>2 DEF Remembers, Choice
    <3> QED
      BY <3>1, <3>2
  <2>12. mem'.res \notin {"invariant", "illegal"} /\ mem'.pc # "end"
    BY <2>10, Heard DEF Driveable
  <2>13. op'.last # Newest'
    BY <1>0, <2>1, <2>3, NotCounted, Heard
  <2> QED
    BY <2>3, <2>4, <2>7, <2>8, <2>9, <2>11, <2>12, <2>13, Drives
<1>2. CASE UNCHANGED <<op, sends, batches>> /\ mem'.pc = "end" /\ mem'.res \in {"stopped", "unknown", "unready"}
  BY <1>2, Rests
<1> QED
  BY <1>1, <1>2, SlotEffect

(* The outcome of a call that nobody finished is unknown.                   *)
LEMMA SynthesizeDrives ==
  ASSUME KInv, LInv, DInv, KInv', LInv', Synthesize
  PROVE  DInv'
<1>0. op.leaf = "tool_effect_pending" /\ mem \in Driver /\ mem.pc = "act" /\ mem.act = "synthesize"
  BY SlotEffect DEF Synthesize, Do, KInv
<1>1. ASSUME NEW i \in DOMAIN batches[Newest].items, ItemDone(i, "interrupted"),
             mem' \in {Halt(mem, "unknown"), mem}
      PROVE  DInv'
  <2>1. /\ OneOutcome(batches, batches', Newest, i, "interrupted") /\ op'.last = op.last
    BY <1>1 DEF ItemDone
  <2>2. Newest \in 1..Len(batches)
    BY <1>0, NewestPending DEF LInv
  <2>3. batches'[Newest].items[i].st = "interrupted" /\ i \in DOMAIN batches'[Newest].items
    BY <1>1, <2>1, <2>2 DEF OneOutcome, SameHeads
  <2>4. Newest' = Newest /\ Newest \in DOMAIN batches'
    BY <2>1, <2>2, LengthsNext DEF OneOutcome, SameHeads, Newest
  <2>5. OutcomeUnknown'
    BY <2>3, <2>4 DEF OutcomeUnknown
  <2>6. op'.last # Newest'
    BY <1>0, <2>1, <2>4, NotCounted DEF DInv
  <2>7. /\ Halt(mem, "unknown").pc = "end" /\ Halt(mem, "unknown").res = "unknown"
        /\ mem.res \notin {"invariant", "illegal"}
    BY <1>0, Points DEF DInv, Driveable
  <2> QED
    BY <1>0, <1>1, <2>5, <2>6, <2>7, Unsettles
<1>2. CASE UNCHANGED <<op, sends, batches>> /\ mem'.pc = "end" /\ mem'.res \in {"stopped", "unknown", "unready"}
  BY <1>2, Rests
<1> QED
  BY <1>1, <1>2, SlotEffect

(* The reducer never meets a position it cannot go on from.                 *)
LEMMA GoesOn ==
  ASSUME KInv, LInv, DInv, ~OutcomeUnknown, mem.pc = "loop"
  PROVE  NextAction # "fail" /\ (NextAction = "resume" => op.work = "question")
<1>0. /\ RecordInv /\ Cites(op) /\ Decides(op) /\ Asks(op) /\ Waits(op) /\ ProgressValid
      /\ op \in Operation /\ Last = Len(sends)
  BY Heard
<1>1. op.leaf \in Leaves \ OuterLeaves
  BY <1>0 DEF LInv, RestInv, Operation
<1>2. op.leaf # "tool_effect_pending" => BusyBatches = {}
  BY DEF LInv, BusyInv
<1>3. Unsettled # {} =>
        Only(Unsettled) # 0 /\ Len(sends) # 0 /\ Last \in Unsettled /\ Last \in DOMAIN sends
  BY <1>0, NewestSend, Lengths DEF LInv
<1>4. CASE io.cancel /\ op.work # "closing" /\ op.leaf \in CancelLeaves
  BY <1>0, <1>4 DEF NextAction
<1>5. CASE ~(io.cancel /\ op.work # "closing" /\ op.leaf \in CancelLeaves)
  <2>1. CASE op.leaf = "provider_request_ready"
    <3>1. NextAction = PreparedRequestAction
      BY <1>0, <1>5, <2>1 DEF NextAction
    <3>2. PreparedRequestAction \in {"before_request", "submit"}
      BY <1>0, <1>2, <1>3, <2>1 DEF PreparedRequestAction, Cites, Asks
    <3> QED
      BY <3>1, <3>2
  <2>2. CASE op.leaf = "provider_effect_pending"
    BY <1>0, <1>5, <2>2 DEF NextAction, ProviderPendingAction, Cites
  <2>3. CASE op.leaf = "provider_response_ready"
    <3>1. /\ op.turn \in Unsettled /\ op.turn \in DOMAIN sends /\ op.resp # 0
          /\ sends[op.turn].st = "pending"
      BY <1>0, <2>3 DEF Cites, Unsettled
    <3> QED
      BY <1>0, <1>5, <2>3, <3>1 DEF NextAction, ResponseReadyAction
  <2>4. CASE op.leaf = "tool_effect_pending"
    <3>1. NextAction \in {ApprovalAction, ToolPendingAction}
      BY <1>0, <1>5, <2>4 DEF NextAction
    <3>2. ApprovalAction \notin {"fail", "resume"}
      BY DEF ApprovalAction
    <3>3. PendingTools # {}
      BY <2>4, NewestPending DEF LInv
    <3>4. ToolPendingAction \notin {"fail", "resume"}
      BY <3>3 DEF ToolPendingAction
    <3> QED
      BY <3>1, <3>2, <3>4
  <2>5. CASE op.leaf = "tool_delivery_pending"
    <3>1. DeliveryBatch # 0 /\ FullySettled(DeliveryBatch)
      BY <2>5, Deliverable, QuietBatches DEF LInv
    <3>2. ToolDeliveryAction \in {"observe", "post_tools", "redeliver"}
      BY <1>2, <1>3, <2>5, <3>1 DEF ToolDeliveryAction
    <3>3. NextAction = ToolDeliveryAction
      BY <1>0, <1>5, <2>5 DEF NextAction
    <3> QED
      BY <3>2, <3>3
  <2>6. CASE op.leaf \in {"writer_running", "repair_running"}
    <3>1. Unsettled = {} /\ Loose = {}
      BY <1>0, <2>6 DEF Cites, Decides, Waits, WorkLeaves
    <3>2. OpenBatches = {}
      BY <3>1 DEF Loose, Carried
    <3> QED
      BY <1>0, <1>2, <1>5, <2>6, <3>1, <3>2 DEF NextAction, RunningAction
  <2>7. CASE op.leaf \in {"plan_ready", "completion_pending", "control_ready", "closing",
                          "kernel_settled"}
    <3>1. NextAction = ExecutionAction
      BY <1>0, <1>5, <2>7 DEF NextAction
    <3>2. op.leaf \in {"control_ready", "closing", "kernel_settled"} => op.work # ""
      BY <1>0 DEF Decides, Outcomes
    <3> QED
      BY <2>7, <3>1, <3>2 DEF ExecutionAction
  <2>8. op.leaf \in {"provider_request_ready", "provider_effect_pending",
                     "provider_response_ready", "tool_effect_pending",
                     "tool_delivery_pending", "writer_running", "repair_running",
                     "plan_ready", "completion_pending", "control_ready", "closing",
                     "kernel_settled"}
    BY <1>1, LeavesAre DEF OuterLeaves
  <2> QED
    BY <2>1, <2>2, <2>3, <2>4, <2>5, <2>6, <2>7, <2>8
<1> QED
  BY <1>4, <1>5

LEMMA DecideDrives ==
  ASSUME KInv, LInv, DInv, KInv', LInv', Decide
  PROVE  DInv'
<1>0. mem \in Driver /\ mem.pc = "loop" /\ UNCHANGED <<op, sends, batches>>
  BY DEF Decide, KInv
<1> DEFINE act == NextAction
           m == [mem EXCEPT !.pc = "act", !.act = act]
<1>1. mem' = m
  BY DEF Decide
<1>2. m.pc = "act" /\ m.act = act /\ m.batch = mem.batch /\ m.res = mem.res
  BY <1>0 DEF Driver
<1> HIDE DEF m, act
<1>3. /\ mem'.res \notin {"invariant", "illegal"} /\ mem'.pc = "act" /\ mem'.act = act
      /\ mem'.batch = mem.batch
  BY <1>1, <1>2 DEF DInv, Driveable
<1>4. op'.leaf = "tool_effect_pending" => op'.last # Newest'
  BY <1>0, NotCounted, LedgerStays DEF DInv
<1>5. CASE OutcomeUnknown
  <2>1. act = "fail_unknown"
    BY <1>5 DEF act, NextAction, DInv
  <2>2. OutcomeUnknown'
    BY <1>0, <1>5, LedgerStays
  <2> QED
    BY <1>3, <1>4, <2>1, <2>2, Unsettles
<1>6. CASE ~OutcomeUnknown
  <2>1. Cites(op)' /\ Decides(op)' /\ Asks(op)' /\ Recalls(op)' /\ Waits(op)'
    BY <1>0, <1>6, SoundStays DEF DInv, Regular
  <2>2. ~OutcomeUnknown' /\ RecordInv'
    BY <1>0, <1>6, LedgerStays, Heard
  <2>3. Remembers(op, mem)'
    BY <1>0, <1>3, <1>6, LedgerStays, Heard DEF Remembers
  <2>4. Choice(op, mem)'
    BY <1>0, <1>3, <1>6, GoesOn DEF Choice, act
  <2> QED
    BY <1>3, <1>4, <2>1, <2>2, <2>3, <2>4, Drives
<1> QED
  BY <1>5, <1>6

(* The calls of the newest batch run again.                                 *)
LEMMA ReplayDrives ==
  ASSUME KInv, LInv, DInv, ~OutcomeUnknown, KInv', LInv', ReplayBatch
  PROVE  DInv'
<1>0. op.leaf = "tool_effect_pending" /\ mem \in Driver /\ UNCHANGED <<op, sends, batches>>
  BY ActsAt DEF ReplayBatch, Chosen, KInv
<1> DEFINE m == [mem EXCEPT !.pc = "tools", !.act = "", !.batch = Newest]
<1>1. mem' = m
  BY <1>0, NewestPending DEF ReplayBatch, LInv
<1>2. m.pc = "tools" /\ m.batch = Newest /\ m.res = mem.res
  BY <1>0 DEF Driver
<1> HIDE DEF m
<1>3. Cites(op)' /\ Decides(op)' /\ Asks(op)' /\ Recalls(op)' /\ Waits(op)'
  BY <1>0, SoundStays DEF DInv, Regular
<1>4. ~OutcomeUnknown' /\ RecordInv'
  BY <1>0, LedgerStays, Heard
<1>5. PICK c : c = Newest
  OBVIOUS
<1>6. Sendable(c)'
  <2>1. Fresh(op.turn) /\ RecordInv
    BY <1>0, Heard DEF Waits
  <2>2. c \in OpenBatches /\ batches[c].tried = {}
    BY <1>5, <2>1 DEF Fresh, Loose
  <2> QED
    BY <1>0, <2>1, <2>2, UnsentLoose, LedgerStays
<1>7. Remembers(op, mem)' /\ Choice(op, mem)'
  BY <1>0, <1>1, <1>2, <1>5, <1>6 DEF Remembers, Choice
<1>8. mem'.res \notin {"invariant", "illegal"} /\ mem'.pc # "end"
  BY <1>1, <1>2 DEF DInv, Driveable
<1>9. op'.leaf = "tool_effect_pending" => op'.last # Newest'
  BY <1>0, NotCounted, LedgerStays DEF DInv
<1> QED
  BY <1>3, <1>4, <1>7, <1>8, <1>9, Drives

(* The driver asks for an approval, waits for it, gives up or returns.      *)
LEMMA RestDrives ==
  ASSUME KInv, LInv, DInv, KInv', LInv',
         RequestApproval \/ WaitApproval \/ FailInvariant \/ Return
  PROVE  DInv'
<1>0. mem \in Driver /\ mem.res \notin {"invariant", "illegal"}
  BY DEF DInv, Driveable, KInv
<1>1. \A res : Halt(mem, res).pc = "end" /\ Halt(mem, res).res = res
  BY <1>0, Points
<1>2. CASE RequestApproval
  <2>1. Loop(mem).pc = "loop" /\ Loop(mem).batch = mem.batch /\ Loop(mem).res = mem.res
    BY <1>0, Points
  <2>2. UNCHANGED <<op, sends, batches>> /\ mem.pc = "ask" /\ mem' \in {Halt(mem, "stopped"), Loop(mem)}
    BY <1>2 DEF RequestApproval
  <2>3. CASE mem' = Halt(mem, "stopped")
    BY <1>1, <2>2, <2>3, Rests
  <2>4. CASE mem' = Loop(mem)
    BY <1>0, <2>1, <2>2, <2>4, Rests
  <2> QED
    BY <2>2, <2>3, <2>4
<1>3. CASE WaitApproval
  <2>1. mem'.pc = "end" /\ mem'.res = "approval" /\ UNCHANGED <<op, sends, batches>>
    BY <1>1, <1>3 DEF WaitApproval
  <2> QED
    BY <2>1, Rests
<1>4. CASE FailInvariant
  <2>1. mem.act # "fail"
    BY <1>4 DEF DInv, UnknownInv, Regular, Choice, FailInvariant, Do
  <2>2. mem'.pc = "end" /\ mem'.res = "unknown" /\ UNCHANGED <<op, sends, batches>>
    BY <1>1, <1>4, <2>1 DEF FailInvariant
  <2> QED
    BY <2>2, Rests
<1>5. CASE Return
  <2>1. op.leaf = "kernel_settled" /\ mem.pc = "act" /\ mem.act = "return"
    BY <1>5, ActsAt DEF Return, Chosen
  <2>2. ~OutcomeUnknown
    BY <2>1 DEF DInv, UnknownInv
  <2>3. mem'.pc = "end" /\ mem'.res = op.work /\ UNCHANGED <<op, sends, batches>>
    BY <1>1, <1>5 DEF Return
  <2>4. op.work \in Works
    BY DEF KInv, Position, Operation
  <2>5. op.work \notin {"invariant", "illegal"}
    BY <2>4 DEF Works
  <2> QED
    BY <2>1, <2>2, <2>3, <2>5, Rests
<1> QED
  BY <1>2, <1>3, <1>4, <1>5

(* Between two phases the position carries nothing.                         *)
LEMMA EmptyDrives ==
  ASSUME KInv, LInv, DInv, KInv', LInv',
         op'.leaf \in {"writer_running", "completion_proof_recorded", "repair_context_admitted",
                       "repair_running", "writer_settled", "repair_settled", "terminal"},
         op'.resp = 0, op'.work = "", Unsettled' = {}, OpenBatches' = {},
         OutcomeUnknown' <=> OutcomeUnknown, ~OutcomeUnknown => RecordInv' /\ mem'.batch = 0,
         mem'.pc = "off", mem'.res \notin {"invariant", "illegal"}
  PROVE  DInv'
<1>1. CASE OutcomeUnknown'
  BY <1>1, Unsettles
<1>2. CASE ~OutcomeUnknown'
  <2>1. Loose' = {}
    BY DEF Loose
  <2>2. Cites(op)' /\ Decides(op)' /\ Asks(op)' /\ Recalls(op)' /\ Waits(op)'
    BY <2>1 DEF Cites, Decides, Asks, Recalls, Waits, WorkLeaves
  <2>3. Remembers(op, mem)' /\ Choice(op, mem)'
    BY <1>2 DEF Remembers, Choice
  <2> QED
    BY <1>2, <2>2, <2>3, Drives
<1> QED
  BY <1>1, <1>2

(* The outer lifecycle moves the position between two phases.               *)
LEMMA OuterDrives ==
  ASSUME KInv, LInv, DInv, KInv', LInv',
         StartWriter \/ RecordProof \/ AdmitRepair \/ StartRepair \/ Finish
  PROVE  DInv'
<1>0. op \in Operation
  BY DEF KInv, Position
<1>1. op.leaf \in OuterLeaves /\ UNCHANGED <<sends, batches, mem>>
  BY DEF StartWriter, RecordProof, AdmitRepair, StartRepair, Finish, Outer, OuterLeaves
<1>2. mem.pc = "off" /\ Unsettled = {} /\ OpenBatches = {}
  BY <1>1 DEF LInv, RestInv
<1>3. ~OutcomeUnknown => mem.batch = 0
  BY <1>1, <1>2, Heard DEF Remembers, OuterLeaves
<1>4. /\ op'.leaf \in {"writer_running", "completion_proof_recorded", "repair_context_admitted",
                       "repair_running", "terminal"}
      /\ op'.resp = 0 /\ op'.work = ""
  <2>1. ASSUME NEW leaf \in {"writer_running", "completion_proof_recorded",
                             "repair_context_admitted", "terminal"},
               op' = Transition(op, leaf)
        PROVE  op'.leaf = leaf /\ op'.resp = 0 /\ op'.work = ""
    BY <1>0, <2>1 DEF Transition, Operation, ResponseLeaves, PendingLeaves, WorkLeaves
  <2>2. CASE StartRepair
    BY <1>0, <2>2 DEF StartRepair, Outer, Transition, Operation, ResponseLeaves, PendingLeaves,
                      WorkLeaves
  <2>3. CASE StartWriter \/ RecordProof \/ AdmitRepair \/ Finish
    BY <2>1, <2>3 DEF StartWriter, RecordProof, AdmitRepair, Finish, Outer
  <2> QED
    BY <2>2, <2>3
<1>5. /\ Unsettled' = {} /\ OpenBatches' = {} /\ (OutcomeUnknown' <=> OutcomeUnknown)
      /\ ~OutcomeUnknown => RecordInv'
  BY <1>1, <1>2, LedgerStays, Heard
<1>6. mem'.pc = "off" /\ mem'.res \notin {"invariant", "illegal"} /\ mem'.batch = mem.batch
  BY <1>1, <1>2 DEF DInv, Driveable
<1> QED
  BY <1>3, <1>4, <1>5, <1>6, EmptyDrives

(* The phase is settled, and the batch it left behind abandoned.            *)
LEMMA SettleDrives ==
  ASSUME KInv, LInv, DInv, KInv', LInv', SettlePhase
  PROVE  DInv'
<1>0. op \in Operation
  BY DEF KInv, Position
<1>1. /\ ~OutcomeUnknown /\ Unsettled = {} /\ sends' = sends /\ batches' = Abandoned /\ mem' = Off
  BY DEF SettlePhase, CanSettle, Settleable
<1>2. op'.leaf \in {"writer_settled", "repair_settled", "terminal"} /\ op'.resp = 0 /\ op'.work = ""
  <2>1. SettleTarget \in {"writer_settled", "repair_settled", "terminal"}
    BY DEF SettleTarget, PhaseSettled
  <2> DEFINE t == Transition(op, SettleTarget)
  <2>2. t \in Operation /\ t.leaf = SettleTarget /\ t.resp = 0 /\ t.work = ""
    <3>1. ASSUME NEW leaf \in {"writer_settled", "repair_settled", "terminal"}
          PROVE  Transition(op, leaf) \in Operation
      BY Lengths, LeavesAre, PositionTransition DEF KInv, Position
    <3>2. t \in Operation
      BY <2>1, <3>1
    <3>3. ASSUME NEW leaf \in {"writer_settled", "repair_settled", "terminal"}
          PROVE  LET x == Transition(op, leaf) IN x.leaf = leaf /\ x.resp = 0 /\ x.work = ""
      BY <1>0 DEF Transition, Operation, ResponseLeaves, PendingLeaves, WorkLeaves
    <3> QED
      BY <2>1, <3>2, <3>3
  <2>3. \E stop : op' = [t EXCEPT !.stop = stop]
    BY DEF SettlePhase
  <2> HIDE DEF t
  <2> QED
    BY <2>1, <2>2, <2>3 DEF Operation
<1>3. /\ SameCalls(batches, batches') /\ OpenBatches' = {}
      /\ \A b \in 1..Len(batches) : batches'[b].tried = batches[b].tried
  BY <1>1, AbandonedEnds
<1>4. Unsettled' = {} /\ Last' = Last
  BY <1>1 DEF Unsettled, Last
<1>5. ~OutcomeUnknown'
  BY <1>1, <1>3, KnownSends
<1>6. RecordInv'
  <2>1. RecordInv
    BY <1>1, Heard
  <2> QED
    BY <1>1, <1>3, <1>4, <2>1 DEF RecordInv, SameCalls, Grounded
<1>7. mem'.pc = "off" /\ mem'.batch = 0 /\ mem'.res = ""
  BY <1>1, OffPoints
<1> QED
  BY <1>1, <1>2, <1>3, <1>4, <1>5, <1>6, <1>7, EmptyDrives

(* The driver starts, is replaced, stops or dies; or it does not notice.    *)
LEMMA AroundDrives ==
  ASSUME KInv, LInv, DInv, KInv', LInv',
         \/ StartDrive \/ CloseTask \/ Failover \/ Park \/ Crash \/ CancelIdle
         \/ RequestCancel \/ QueueInput \/ AnswerQuestion \/ ApprovalStep \/ Drift
         \/ Done \/ UNCHANGED vars
  PROVE  DInv'
<1>1. CASE StartDrive \/ CloseTask \/ Failover \/ Park \/ Crash
  <2>1. UNCHANGED <<op, sends, batches>> /\ mem' \in {Off, Loop(Off)}
    BY <1>1 DEF StartDrive, CloseTask, Failover, Park, Crash
  <2>2. CASE mem' = Off
    BY <2>1, <2>2, OffPoints, Rests
  <2>3. CASE mem' = Loop(Off)
    BY <2>1, <2>3, OffPoints, Rests
  <2> QED
    BY <2>1, <2>2, <2>3
<1>2. CASE \/ CancelIdle \/ RequestCancel \/ QueueInput \/ AnswerQuestion \/ ApprovalStep \/ Drift
           \/ Done \/ UNCHANGED vars
  <2>1. UNCHANGED <<op, sends, batches, mem>>
    BY <1>2, ApprovalRests DEF CancelIdle, RequestCancel, QueueInput, AnswerQuestion, Drift, Done,
                               vars
  <2> QED
    BY <2>1, Unnoticed
<1> QED
  BY <1>1, <1>2

(* The executors that act on a known ledger only.                           *)
Acting ==
  \/ BeginClosing \/ PrepareTurn \/ BeforeRequest \/ Submit \/ Send
  \/ \E reply \in Replies : Receive(reply)
  \/ \E repeated \in BOOLEAN : Interpret(repeated)
  \/ BeginBatch \/ ReplayBatch \/ SkipSlot \/ (\E st \in {"ok", "error"} : SettleSlot(st))
  \/ Reconcile \/ Boundary
  \/ \E repeats \in BOOLEAN : Observe(repeats)
  \/ Redeliver
  \/ \E complete, novel \in BOOLEAN : Evaluate(complete, novel)
  \/ PrepareControl \/ CloseProtocol \/ FinalBoundary \/ ResumeQuestion \/ SettleUnknown
  \/ WriteBusy \/ \E st \in {"not_sent", "maybe_sent"} : SendFails(st)

(* They do not run once an outcome is unknown.                              *)
LEMMA ActingKnows ==
  ASSUME UnknownInv, Acting
  PROVE  ~OutcomeUnknown
<1>1. CASE \/ Send \/ (\E reply \in Replies : Receive(reply)) \/ SkipSlot
           \/ (\E st \in {"ok", "error"} : SettleSlot(st))
           \/ \E st \in {"not_sent", "maybe_sent"} : SendFails(st)
  <2>1. mem.pc \in {"send", "sent", "tools", "ran"}
    BY <1>1 DEF Send, Receive, SkipSlot, SettleSlot, SendFails
  <2> QED
    BY <2>1 DEF UnknownInv
<1>2. CASE \/ BeginClosing \/ PrepareTurn \/ BeforeRequest \/ Submit
           \/ (\E repeated \in BOOLEAN : Interpret(repeated))
           \/ BeginBatch \/ ReplayBatch \/ Reconcile \/ Boundary
           \/ (\E repeats \in BOOLEAN : Observe(repeats)) \/ Redeliver
           \/ (\E complete, novel \in BOOLEAN : Evaluate(complete, novel))
           \/ PrepareControl \/ CloseProtocol \/ FinalBoundary \/ ResumeQuestion
           \/ SettleUnknown \/ WriteBusy
  <2>1. mem.pc = "act" /\ mem.act \notin {"synthesize", "fail_unknown"}
    BY <1>2 DEF BeginClosing, PrepareTurn, BeforeRequest, Submit, Interpret, BeginBatch,
                ReplayBatch, Reconcile, Boundary, Observe, Redeliver, Evaluate, PrepareControl,
                CloseProtocol, FinalBoundary, ResumeQuestion, SettleUnknown, WriteBusy, Do
  <2> QED
    BY <2>1 DEF UnknownInv
<1> QED
  BY <1>1, <1>2 DEF Acting

LEMMA ActingDrives ==
  ASSUME KInv, LInv, SInv, DInv, Project, KInv', LInv', Acting
  PROVE  DInv'
<1>1. ~OutcomeUnknown
  BY ActingKnows DEF DInv
<1>2. CASE BeginClosing \/ WriteBusy
  BY <1>1, <1>2, ClosingDrives
<1>3. CASE PrepareTurn
  BY <1>1, <1>3, PrepareDrives
<1>4. CASE BeforeRequest
  BY <1>1, <1>4, BeforeDrives
<1>5. CASE Submit
  BY <1>1, <1>5, SubmitDrives
<1>6. CASE Send
  BY <1>1, <1>6, SendDrives
<1>7. CASE \E reply \in Replies : Receive(reply)
  BY <1>1, <1>7, ReceiveDrives
<1>8. CASE \E repeated \in BOOLEAN : Interpret(repeated)
  BY <1>1, <1>8, InterpretDrives
<1>9. CASE BeginBatch
  BY <1>1, <1>9, BatchDrives
<1>10. CASE ReplayBatch
  BY <1>1, <1>10, ReplayDrives
<1>11. CASE SkipSlot \/ (\E st \in {"ok", "error"} : SettleSlot(st)) \/ Reconcile
  <2>1. ~Synthesize
    BY <1>11 DEF SkipSlot, SettleSlot, Reconcile, Synthesize, Do
  <2> QED
    BY <1>1, <1>11, <2>1, SlotDrives
<1>12. CASE Boundary
  BY <1>1, <1>12, BoundaryDrives
<1>13. CASE \E repeats \in BOOLEAN : Observe(repeats)
  BY <1>1, <1>13, ObserveDrives
<1>14. CASE Redeliver
  BY <1>1, <1>14, RedeliverDrives
<1>15. CASE \E complete, novel \in BOOLEAN : Evaluate(complete, novel)
  BY <1>1, <1>15, EvaluateDrives
<1>16. CASE PrepareControl
  BY <1>1, <1>16, ControlDrives
<1>17. CASE CloseProtocol \/ FinalBoundary
  BY <1>1, <1>17, CloseDrives
<1>18. CASE ResumeQuestion
  BY <1>1, <1>18, ResumeDrives
<1>19. CASE SettleUnknown \/ \E st \in {"not_sent", "maybe_sent"} : SendFails(st)
  BY <1>1, <1>19, FailDrives
<1> QED
  BY <1>2, <1>3, <1>4, <1>5, <1>6, <1>7, <1>8, <1>9, <1>10, <1>11, <1>12, <1>13, <1>14, <1>15,
     <1>16, <1>17, <1>18, <1>19 DEF Acting

LEMMA DriveNext ==
  ASSUME KInv, LInv, SInv, DInv, Project, KInv', LInv', [Next]_vars
  PROVE  DInv'
<1>1. \/ Acting
      \/ RunSlot \/ RunCommand \/ Synthesize \/ Decide
      \/ RequestApproval \/ WaitApproval \/ FailInvariant \/ Return
      \/ StartWriter \/ RecordProof \/ AdmitRepair \/ StartRepair \/ Finish \/ SettlePhase
      \/ StartDrive \/ CloseTask \/ Failover \/ Park \/ Crash \/ CancelIdle
      \/ RequestCancel \/ QueueInput \/ AnswerQuestion \/ ApprovalStep \/ Drift
      \/ Done \/ UNCHANGED vars
  BY DEF Next, KernelStep, OuterStep, WorldStep, ExecutorStep, ApprovalStep,
         Acting
<1> QED
  BY <1>1, ActingDrives, RunDrives, SynthesizeDrives, DecideDrives, RestDrives, OuterDrives,
     SettleDrives, AroundDrives

LEMMA DriveInit == Init => DInv
<1> SUFFICES ASSUME Init PROVE DInv
  OBVIOUS
<1>1. /\ mem.pc = "off" /\ mem.batch = 0 /\ mem.res = "" /\ DOMAIN sends = {} /\ DOMAIN batches = {}
      /\ Last = 0 /\ Len(batches) = 0
  <2>1. mem.pc = "off" /\ mem.batch = 0 /\ mem.res = ""
    BY OffPoints DEF Init
  <2>2. Len(sends) = 0 /\ Len(batches) = 0
    BY DEF Init
  <2>3. DOMAIN sends = 1..Len(sends) /\ DOMAIN batches = 1..Len(batches)
    BY InitInv, Lengths
  <2>4. 1..0 = {}
    OBVIOUS
  <2> QED
    BY <2>1, <2>2, <2>3, <2>4 DEF Last
<1>2. op.leaf = "accepted" /\ op.resp = 0 /\ op.work = "" /\ op.last = 0
  BY DEF Init
<1>3. Unsettled = {} /\ OpenBatches = {} /\ Loose = {} /\ ~OutcomeUnknown
  BY <1>1 DEF Unsettled, OpenBatches, Loose, OutcomeUnknown
<1>4. RecordInv
  <2>0. 1..0 = {}
    OBVIOUS
  <2>1. 1..Last = {} /\ 1..Len(batches) = {}
    BY <1>1, <2>0
  <2> QED
    BY <1>3, <2>1 DEF RecordInv
<1>5. Sound(op)
  BY <1>2, <1>3 DEF Sound, Cites, Decides, Asks, Recalls, Waits, WorkLeaves
<1>6. Remembers(op, mem) /\ Choice(op, mem)
  BY <1>1 DEF Remembers, Choice
<1> QED
  BY <1>1, <1>2, <1>3, <1>4, <1>5, <1>6
  DEF DInv, Regular, ProgressValid, Driveable, UnknownInv, EndInv

(* What is reported as done can be settled.                                 *)
LEMMA DoneCanSettle ==
  ASSUME KInv, LInv, DInv, Project, mem.pc = "end", mem.res = "done"
  PROVE  CanSettle
<1>1. op.leaf = "kernel_settled" /\ op.work = "done" /\ ~OutcomeUnknown
  BY DEF DInv, EndInv
<1>2. Unsettled = {} /\ Loose = {} /\ ProgressValid
  BY <1>1, Heard DEF Cites, Waits
<1>3. OpenBatches = {}
  BY <1>2 DEF Loose, Carried
<1>4. BusyBatches = {}
  BY <1>1 DEF LInv, BusyInv
<1>5. Settleable
  BY <1>1, <1>2, <1>3, <1>4 DEF Settleable
<1>6. SettledFrom = "kernel_settled"
  BY <1>1 DEF SettledFrom
<1>7. SettleTarget \in LeafNext["kernel_settled"]
  BY Moves DEF SettleTarget, PhaseSettled, Project
<1> QED
  BY <1>5, <1>6, <1>7 DEF CanSettle

(* The invariant of a project task.                                         *)
LEMMA DriveHolds == Spec => [](KInv /\ LInv /\ SInv /\ (Project => DInv))
<1>1. Init => KInv /\ LInv /\ SInv /\ (Project => DInv)
  BY InitInv, LedgerInit, SpinInit, DriveInit
<1>2. KInv /\ LInv /\ SInv /\ (Project => DInv) /\ [Next]_vars
        => (KInv /\ LInv /\ SInv /\ (Project => DInv))'
  <2> SUFFICES ASSUME KInv, LInv, SInv, Project => DInv, [Next]_vars
               PROVE  (KInv /\ LInv /\ SInv /\ (Project => DInv))'
    OBVIOUS
  <2>1. KInv' /\ LInv' /\ SInv'
    BY NextInv, LedgerNext, SpinNext
  <2>2. mode' = mode
    BY <2>1, Shapes
  <2>3. Project' => Project
    BY <2>2 DEF Project
  <2> QED
    BY <2>1, <2>3, DriveNext
<1> QED
  BY <1>1, <1>2, PTL DEF Spec

(* A project task always finds a way on: the reducer never meets facts that *)
(* it must call an invariant failure, and no executor is refused, however   *)
(* sends failed, Stop came and processes died in between.  (A decision that *)
(* comes back with nothing left to do for it is told apart: Stranded.)      *)
THEOREM NoDeadEnds == Spec => []NoDeadEnd
<1>1. (Project => DInv) => NoDeadEnd
  BY DEF Project, DInv, NoDeadEnd
<1> QED
  BY <1>1, DriveHolds, PTL

(* What the kernel reports as done, prepare_operation_settlement accepts:   *)
(* no effect is in flight, no call pending, and no outcome unknown.         *)
THEOREM DonesSettle == Spec => []DoneSettles
<1>1. KInv /\ LInv /\ (Project => DInv) => DoneSettles
  BY DoneCanSettle DEF Project, DoneSettles
<1> QED
  BY <1>1, DriveHolds, PTL

=============================================================================
