------------------------- MODULE KernelLedgerProofs -------------------------
(***************************************************************************)
(* The position and the ledger of effects agree.  From that: an edit or a  *)
(* command runs at most once (UnsafeOnce), a batch counts as delivered     *)
(* only if a send the provider answered carried it (DeliveryBacked), and a *)
(* settled phase leaves nothing behind (SettledClean).                     *)
(*                                                                         *)
(* None of the three is inductive.  That a call is not run again rests on  *)
(* calls being pending in the newest batch only, and only while the leaf   *)
(* is tool_effect_pending; that a delivery is backed rests on the newest   *)
(* send being the only unsettled one, and on the leaf that waits for its   *)
(* reply.  LInv says this, and what the reducer saw when it chose an       *)
(* action that has yet to be executed.                                     *)
(***************************************************************************)
EXTENDS KernelProofs, WellFoundedInduction

Newest == Len(batches)

(* Only the newest send is unsettled; while it has no reply, the position   *)
(* waits for it.                                                            *)
SendsInv ==
  \A n \in Unsettled :
    /\ n = Len(sends)
    /\ sends[n].reply = "" => op.leaf = "provider_effect_pending" /\ op.turn = n

(* Calls are pending only at tool_effect_pending, and in the newest batch.  *)
BusyInv ==
  /\ op.leaf = "tool_effect_pending" =>
       BusyBatches = {Newest} /\ batches[Newest].turn = op.turn
  /\ op.leaf # "tool_effect_pending" => BusyBatches = {}

(* A batch that was ever sent is settled, has at most one live attempt, and *)
(* is delivered only by an answered one.                                    *)
AttemptInv ==
  \A b \in 1..Len(batches) :
    /\ batches[b].tried # {} => FullySettled(b)
    /\ \A m, n \in ActiveAttempts(b) : m = n
    /\ batches[b].end = "delivered" =>
         \E n \in ActiveAttempts(b) : sends[n].st = "ok" /\ sends[n].reply # ""

(* Between two phases no kernel runs, and nothing is open.                  *)
RestInv ==
  op.leaf \in OuterLeaves => mem.pc = "off" /\ Unsettled = {} /\ OpenBatches = {}

Shell(b) == batches[b].items[1].kind = "shell"

(* A call that must not run twice has not run.                              *)
Unrun(b, i) == ~IsSafe(batches[b].items[i].kind) => batches[b].items[i].runs = 0

(* The approval that may still lead to a run.                               *)
ApprovalLive ==
  io.approval = "claimed" \/ (io.approval \in {"requested", "approved"} /\ ~io.cancel)

ApprovalInv ==
  ApprovalLive =>
    op.leaf = "tool_effect_pending" /\ Shell(Newest) /\ Unrun(Newest, 1)

(* The approval is settled or denied, whoever knows of it.                  *)
VerdictIn == io.approval \in {"settled", "denied", "refused", "stuck", "told"}

(* The driver runs the calls of the newest batch, and none of them twice;   *)
(* a command is left to its approval.                                       *)
ToolInv ==
  /\ mem.pc \in {"tools", "ran", "ask"} => op.leaf = "tool_effect_pending"
  /\ mem.pc \in {"tools", "ran"} => mem.batch = Newest /\ ~Shell(Newest)
  /\ mem.pc = "tools" => \A i \in PendingItems(Newest) : Unrun(Newest, i)
  /\ mem.pc = "ran" => \A i \in PendingItems(Newest) : i = Slot \/ Unrun(Newest, i)
  /\ mem.pc = "ask" => Shell(Newest) /\ Unrun(Newest, 1) /\ io.approval = "none"

(* What the reducer saw when it chose act, of the leaf and of the newest    *)
(* batch.                                                                   *)
Chosen(act) ==
  /\ act = "prepare" => op.leaf \in {"writer_running", "repair_running"}
  /\ act = "begin_closing" => op.leaf \in CancelLeaves
  /\ act \in {"before_request", "submit"} => op.leaf = "provider_request_ready"
  /\ act = "before_request" => Unsettled # {}
  /\ act = "submit" => Unsettled = {}
  /\ act = "interpret" => op.leaf = "provider_response_ready"
  /\ act = "settle_unknown" => op.leaf = "provider_effect_pending"
  /\ act = "execute" => op.leaf = "plan_ready"
  /\ act = "evaluate" => op.leaf = "completion_pending"
  /\ act = "control" => op.leaf = "control_ready"
  /\ act \in {"close", "final_boundary"} => op.leaf = "closing"
  /\ act \in {"resume", "return"} => op.leaf = "kernel_settled"
  /\ act \in {"observe", "post_tools", "redeliver"} =>
       op.leaf = "tool_delivery_pending"
  /\ act \in {"replay", "synthesize", "reconcile", "wait_approval",
                  "approval_boundary"} => op.leaf = "tool_effect_pending"
  /\ act = "replay" => AllSafe(Newest)
  /\ act = "synthesize" => io.approval = "none" \/ ~Shell(Newest)
  /\ act = "reconcile" =>
       Shell(Newest) /\ (VerdictIn \/ io.cancel)

(* What it saw still holds when the action is executed.                     *)
ChoiceInv == mem.pc = "act" => Chosen(mem.act)

(* The position waits for the send in progress.                             *)
FlightInv == mem.pc \in {"send", "sent"} => op.leaf = "provider_effect_pending"

LInv ==
  /\ SendsInv /\ BusyInv /\ AttemptInv /\ RestInv
  /\ ApprovalInv /\ ToolInv /\ ChoiceInv /\ FlightInv
  /\ UnsafeOnce

-----------------------------------------------------------------------------
(* Changes of the batches, row by row.                                     *)

(* Only attempts and ends differ.                                           *)
SameCalls(bs, cs) ==
  /\ Len(cs) = Len(bs)
  /\ \A c \in 1..Len(bs) : cs[c].items = bs[c].items /\ cs[c].turn = bs[c].turn

(* Everything but the calls is the same.                                    *)
SameHeads(bs, cs) ==
  /\ Len(cs) = Len(bs)
  /\ \A c \in 1..Len(bs) :
       /\ cs[c].turn = bs[c].turn /\ cs[c].end = bs[c].end
       /\ cs[c].tried = bs[c].tried /\ cs[c].void = bs[c].void
       /\ DOMAIN cs[c].items = DOMAIN bs[c].items

(* One call ran, nothing else changed.                                      *)
OneRun(bs, cs, b, i) ==
  /\ SameHeads(bs, cs)
  /\ \A c \in 1..Len(bs) : \A j \in DOMAIN bs[c].items :
       /\ cs[c].items[j].kind = bs[c].items[j].kind
       /\ cs[c].items[j].st = bs[c].items[j].st
       /\ cs[c].items[j].runs = IF c = b /\ j = i THEN bs[c].items[j].runs + 1
                                ELSE bs[c].items[j].runs

(* One call took its outcome, nothing else changed.                         *)
OneOutcome(bs, cs, b, i, st) ==
  /\ SameHeads(bs, cs)
  /\ \A c \in 1..Len(bs) : \A j \in DOMAIN bs[c].items :
       /\ cs[c].items[j].kind = bs[c].items[j].kind
       /\ cs[c].items[j].runs = bs[c].items[j].runs
       /\ cs[c].items[j].st = IF c = b /\ j = i THEN st ELSE bs[c].items[j].st

(* A call that ran, as a row of its batch and of the ledger.                *)
LEMMA RunRows ==
  ASSUME NEW bs \in Seq(Batch), NEW b \in 1..Len(bs), NEW i \in DOMAIN bs[b].items
  PROVE  OneRun(bs, WithRun(bs, b, i), b, i)
<1> DEFINE x == [bs[b].items[i] EXCEPT !.runs = @ + 1]
           t == [bs[b].items EXCEPT ![i] = x]
           r == [bs[b] EXCEPT !.items = t]
           cs == [bs EXCEPT ![b] = r]
<1>0. bs[b] \in Batch
  BY ElementOfSeq
<1>1. bs[b] \in Batch /\ bs[b].items \in Seq(Item)
  BY <1>0 DEF Batch
<1>2. bs[b].items[i] \in Item
  BY <1>1, ElementOfSeq
<1>3. /\ x.kind = bs[b].items[i].kind /\ x.st = bs[b].items[i].st
      /\ x.runs = bs[b].items[i].runs + 1
  BY <1>2 DEF Item
<1>4. /\ DOMAIN t = DOMAIN bs[b].items
      /\ \A j \in DOMAIN bs[b].items : t[j] = IF j = i THEN x ELSE bs[b].items[j]
  BY <1>1
<1> HIDE DEF x
<1>5. /\ r.turn = bs[b].turn /\ r.end = bs[b].end
      /\ r.tried = bs[b].tried /\ r.void = bs[b].void /\ r.items = t
  BY <1>1 DEF Batch
<1>6. WithRun(bs, b, i) = cs
  BY DEF WithRun, x
<1> HIDE DEF t, r
<1>7. Len(cs) = Len(bs) /\ \A c \in 1..Len(bs) : cs[c] = IF c = b THEN r ELSE bs[c]
  OBVIOUS
<1> HIDE DEF cs
<1>8. SameHeads(bs, cs)
  BY <1>4, <1>5, <1>7 DEF SameHeads
<1>9. ASSUME NEW c \in 1..Len(bs), NEW j \in DOMAIN bs[c].items
      PROVE  /\ cs[c].items[j].kind = bs[c].items[j].kind
             /\ cs[c].items[j].st = bs[c].items[j].st
             /\ cs[c].items[j].runs = IF c = b /\ j = i THEN bs[c].items[j].runs + 1
                                      ELSE bs[c].items[j].runs
  <2>1. CASE c = b
    BY <1>3, <1>4, <1>5, <1>7, <2>1
  <2>2. CASE c # b
    BY <1>7, <2>2
  <2> QED
    BY <2>1, <2>2
<1> QED
  BY <1>6, <1>8, <1>9 DEF OneRun

(* A call that took its outcome, as a row of its batch and of the ledger.   *)
LEMMA OutcomeRows ==
  ASSUME NEW bs \in Seq(Batch), NEW b \in 1..Len(bs), NEW i \in DOMAIN bs[b].items, NEW st
  PROVE  OneOutcome(bs, WithOutcome(bs, b, i, st), b, i, st)
<1> DEFINE x == [bs[b].items[i] EXCEPT !.st = st]
           t == [bs[b].items EXCEPT ![i] = x]
           r == [bs[b] EXCEPT !.items = t]
           cs == [bs EXCEPT ![b] = r]
<1>0. bs[b] \in Batch
  BY ElementOfSeq
<1>1. bs[b] \in Batch /\ bs[b].items \in Seq(Item)
  BY <1>0 DEF Batch
<1>2. bs[b].items[i] \in Item
  BY <1>1, ElementOfSeq
<1>3. /\ x.kind = bs[b].items[i].kind /\ x.runs = bs[b].items[i].runs
      /\ x.st = st
  BY <1>2 DEF Item
<1>4. /\ DOMAIN t = DOMAIN bs[b].items
      /\ \A j \in DOMAIN bs[b].items : t[j] = IF j = i THEN x ELSE bs[b].items[j]
  BY <1>1
<1> HIDE DEF x
<1>5. /\ r.turn = bs[b].turn /\ r.end = bs[b].end
      /\ r.tried = bs[b].tried /\ r.void = bs[b].void /\ r.items = t
  BY <1>1 DEF Batch
<1>6. WithOutcome(bs, b, i, st) = cs
  BY DEF WithOutcome, x
<1> HIDE DEF t, r
<1>7. Len(cs) = Len(bs) /\ \A c \in 1..Len(bs) : cs[c] = IF c = b THEN r ELSE bs[c]
  OBVIOUS
<1> HIDE DEF cs
<1>8. SameHeads(bs, cs)
  BY <1>4, <1>5, <1>7 DEF SameHeads
<1>9. ASSUME NEW c \in 1..Len(bs), NEW j \in DOMAIN bs[c].items
      PROVE  /\ cs[c].items[j].kind = bs[c].items[j].kind
             /\ cs[c].items[j].runs = bs[c].items[j].runs
             /\ cs[c].items[j].st = IF c = b /\ j = i THEN st ELSE bs[c].items[j].st
  <2>1. CASE c = b
    BY <1>3, <1>4, <1>5, <1>7, <2>1
  <2>2. CASE c # b
    BY <1>7, <2>2
  <2> QED
    BY <2>1, <2>2
<1> QED
  BY <1>6, <1>8, <1>9 DEF OneOutcome

(* The end of one batch is marked.                                          *)
LEMMA EndRows ==
  ASSUME NEW bs \in Seq(Batch), NEW b \in 1..Len(bs), NEW e
  PROVE  /\ SameCalls(bs, WithEnd(bs, b, e))
         /\ \A c \in 1..Len(bs) :
              /\ WithEnd(bs, b, e)[c].tried = bs[c].tried
              /\ WithEnd(bs, b, e)[c].void = bs[c].void
              /\ WithEnd(bs, b, e)[c].end = IF c = b THEN e ELSE bs[c].end
<1> DEFINE r == [bs[b] EXCEPT !.end = e]
           cs == [bs EXCEPT ![b] = r]
<1>1. bs[b] \in Batch
  BY ElementOfSeq
<1>2. /\ r.turn = bs[b].turn /\ r.end = e /\ r.items = bs[b].items
      /\ r.tried = bs[b].tried /\ r.void = bs[b].void
  BY <1>1 DEF Batch
<1>3. WithEnd(bs, b, e) = cs
  BY DEF WithEnd
<1> HIDE DEF r
<1>4. Len(cs) = Len(bs) /\ \A c \in 1..Len(bs) : cs[c] = IF c = b THEN r ELSE bs[c]
  OBVIOUS
<1> HIDE DEF cs
<1> QED
  BY <1>2, <1>3, <1>4 DEF SameCalls

(* The calls in progress depend on the calls alone.                         *)
LEMMA CallsKept ==
  ASSUME KInv, Len(batches') = Len(batches), batches' \in Seq(Batch),
         \A c \in 1..Len(batches) :
           /\ DOMAIN batches'[c].items = DOMAIN batches[c].items
           /\ \A j \in DOMAIN batches[c].items :
                batches'[c].items[j].st = batches[c].items[j].st
  PROVE  /\ \A c \in 1..Len(batches) : PendingItems(c)' = PendingItems(c)
         /\ BusyBatches' = BusyBatches
<1>1. DOMAIN batches = 1..Len(batches) /\ DOMAIN batches' = 1..Len(batches)
  BY Lengths
<1>2. ASSUME NEW c \in 1..Len(batches) PROVE PendingItems(c)' = PendingItems(c)
  BY <1>2 DEF PendingItems
<1>3. BusyBatches = {c \in 1..Len(batches) : PendingItems(c) # {}}
  BY <1>1 DEF BusyBatches, FullySettled
<1>4. BusyBatches' = {c \in 1..Len(batches) : PendingItems(c)' # {}}
  BY <1>1 DEF BusyBatches, FullySettled
<1> QED
  BY <1>2, <1>3, <1>4

-----------------------------------------------------------------------------
(* The parts of LInv under the kinds of step that leave them alone.        *)

(* A batch ready for its calls is the only busy one.                        *)
LEMMA NewestPending ==
  ASSUME KInv, BusyInv, op.leaf = "tool_effect_pending"
  PROVE  /\ PendingTools = {Newest}
         /\ (CHOOSE x \in PendingTools : TRUE) = Newest
         /\ Newest \in 1..Len(batches)
         /\ PendingItems(Newest) # {}
         /\ PendingItems(Newest) \subseteq DOMAIN batches[Newest].items
<1>1. BusyBatches = {Newest} /\ batches[Newest].turn = op.turn
  BY DEF BusyInv
<1>2. Newest \in DOMAIN batches /\ PendingItems(Newest) # {}
  BY <1>1 DEF BusyBatches, FullySettled
<1>3. PendingTools = {Newest}
  BY <1>1 DEF PendingTools
<1>4. (CHOOSE x \in PendingTools : TRUE) = Newest
  BY <1>3
<1>5. PendingItems(Newest) \subseteq DOMAIN batches[Newest].items
  BY DEF PendingItems
<1> QED
  BY <1>2, <1>3, <1>4, <1>5, Lengths

(* The sends stay, and the position does not leave the one it waits for.    *)
LEMMA SendsKept ==
  ASSUME SendsInv, sends' = sends,
         op.leaf # "provider_effect_pending" \/ (op'.leaf = op.leaf /\ op'.turn = op.turn)
  PROVE  SendsInv'
BY DEF SendsInv, Unsettled

(* A settled send leaves none unsettled.                                    *)
LEMMA SendsSettled ==
  ASSUME KInv, SendsInv, NEW n \in Unsettled, NEW st \in {"ok", "not_sent", "maybe_sent"},
         sends' = SettleSend(n, st)
  PROVE  /\ Unsettled' = {} /\ SendsInv'
         /\ Len(sends') = Len(sends)
         /\ n \in 1..Len(sends) /\ sends[n].st = "pending"
         /\ sends'[n].st = st /\ sends'[n].reply = sends[n].reply
         /\ \A m \in 1..Len(sends) : m # n => sends'[m] = sends[m]
<1>1. n = Len(sends) /\ n \in 1..Len(sends) /\ sends[n].st = "pending"
  BY Lengths DEF SendsInv, Unsettled
<1>2. sends[n] \in SendRecord
  BY <1>1, Lengths
<1> DEFINE r == [sends[n] EXCEPT !.st = st]
<1>3. r \in SendRecord /\ r.st = st /\ r.reply = sends[n].reply
  BY <1>2 DEF SendRecord
<1>4. sends' = [sends EXCEPT ![n] = r]
  BY DEF SettleSend
<1> HIDE DEF r
<1>5. /\ Len(sends') = Len(sends) /\ DOMAIN sends' = 1..Len(sends)
      /\ \A m \in 1..Len(sends) : sends'[m] = IF m = n THEN r ELSE sends[m]
  <2>1. /\ [sends EXCEPT ![n] = r] \in Seq(SendRecord)
        /\ Len([sends EXCEPT ![n] = r]) = Len(sends)
        /\ \A m \in 1..Len(sends) :
             [sends EXCEPT ![n] = r][m] = IF m = n THEN r ELSE sends[m]
    BY <1>1, <1>3, Lengths, ExceptSeq
  <2> QED
    BY <1>4, <2>1
<1>6. \A m \in 1..Len(sends) : m # n => sends[m].st # "pending"
  BY <1>1, Lengths DEF SendsInv, Unsettled
<1>7. Unsettled' = {}
  BY <1>3, <1>5, <1>6 DEF Unsettled
<1> QED
  BY <1>1, <1>3, <1>5, <1>7 DEF SendsInv

(* The calls stay, and so does the leaf, or it was not about them.          *)
LEMMA BusyKept ==
  ASSUME KInv, BusyInv, batches' \in Seq(Batch), SameCalls(batches, batches'),
         \/ op'.leaf = op.leaf /\ op'.turn = op.turn
         \/ "tool_effect_pending" \notin {op.leaf, op'.leaf}
  PROVE  BusyInv'
<1>1. BusyBatches' = BusyBatches
  BY CallsKept DEF SameCalls
<1>2. Newest' = Newest
  BY DEF SameCalls, Newest
<1>3. CASE op.leaf = "tool_effect_pending"
  <2>1. batches'[Newest].turn = batches[Newest].turn
    BY <1>3, NewestPending DEF SameCalls
  <2> QED
    BY <1>1, <1>2, <1>3, <2>1 DEF BusyInv
<1>4. CASE op.leaf # "tool_effect_pending"
  BY <1>1, <1>4 DEF BusyInv
<1> QED
  BY <1>3, <1>4

(* Calls and counts that stay keep every call at most once.                 *)
LEMMA OnceKept ==
  ASSUME KInv, UnsafeOnce, batches' \in Seq(Batch), SameCalls(batches, batches')
  PROVE  UnsafeOnce'
<1>1. DOMAIN batches = 1..Len(batches) /\ DOMAIN batches' = 1..Len(batches)
  BY Lengths DEF SameCalls
<1> QED
  BY <1>1 DEF UnsafeOnce, SameCalls

(* No send and no batch changes: the attempts are as they were.             *)
LEMMA AttemptKept ==
  ASSUME AttemptInv, UNCHANGED <<sends, batches>>
  PROVE  AttemptInv'
BY DEF AttemptInv, FullySettled, PendingItems, ActiveAttempts

(* The live approval stays with its batch.                                  *)
LEMMA ApprovalKept ==
  ASSUME KInv, BusyInv, ApprovalInv, SameCalls(batches, batches'),
         ApprovalLive' => ApprovalLive,
         op'.leaf = op.leaf \/ op.leaf # "tool_effect_pending"
  PROVE  ApprovalInv'
<1>1. CASE ApprovalLive'
  <2>1. op.leaf = "tool_effect_pending" /\ Shell(Newest) /\ Unrun(Newest, 1)
    BY <1>1 DEF ApprovalInv
  <2>2. Newest' = Newest /\ batches'[Newest].items = batches[Newest].items
    BY <2>1, NewestPending DEF SameCalls, Newest
  <2> QED
    BY <2>1, <2>2 DEF ApprovalInv, Shell, Unrun
<1>2. CASE ~ApprovalLive'
  BY <1>2 DEF ApprovalInv
<1> QED
  BY <1>1, <1>2

(* A step that ends outside the places that carry a promise.                *)
LEMMA DriverFree ==
  ASSUME mem'.pc \in {"off", "loop", "end"}
  PROVE  ToolInv' /\ ChoiceInv' /\ FlightInv'
BY DEF ToolInv, ChoiceInv, FlightInv

(* The driver returns, starts or stops; the store is as it was.             *)
LEMMA Still ==
  ASSUME KInv, LInv, UNCHANGED <<op, sends, batches>>,
         mem'.pc \in {"off", "loop", "end"}, ApprovalLive' => ApprovalLive,
         op.leaf \in OuterLeaves => mem'.pc = "off"
  PROVE  LInv'
<1>1. SameCalls(batches, batches') /\ batches' \in Seq(Batch)
  BY Lengths DEF SameCalls
<1>2. RestInv'
  BY DEF LInv, RestInv, Unsettled, OpenBatches, Open
<1> QED
  BY <1>1, <1>2, SendsKept, BusyKept, AttemptKept, ApprovalKept, DriverFree, OnceKept
  DEF LInv

(* A commit that only moves the position, between leaves that wait for      *)
(* nothing.                                                                 *)
LEMMA Onward ==
  ASSUME KInv, LInv, UNCHANGED <<sends, batches>>,
         mem'.pc \in {"loop", "end"}, ApprovalLive' => ApprovalLive,
         op.leaf \notin {"provider_effect_pending", "tool_effect_pending"},
         op'.leaf \notin OuterLeaves \union {"tool_effect_pending"}
  PROVE  LInv'
<1>1. SameCalls(batches, batches') /\ batches' \in Seq(Batch)
  BY Lengths DEF SameCalls
<1>2. RestInv'
  BY DEF RestInv
<1> QED
  BY <1>1, <1>2, SendsKept, BusyKept, AttemptKept, ApprovalKept, DriverFree, OnceKept
  DEF LInv

-----------------------------------------------------------------------------
(* The outer lifecycle and the outside.                                    *)

(* At the start there is no send, no batch and no kernel.                   *)
LEMMA LedgerInit == Init => LInv
<1> SUFFICES ASSUME Init PROVE LInv
  OBVIOUS
<1>1. /\ sends = <<>> /\ batches = <<>> /\ mem = Off /\ op.leaf = "accepted"
      /\ io.approval = "none"
  BY DEF Init
<1>2. Unsettled = {} /\ BusyBatches = {} /\ OpenBatches = {} /\ Len(batches) = 0
  BY <1>1 DEF Unsettled, BusyBatches, OpenBatches
<1>3. mem.pc = "off"
  BY <1>1, DriverOff
<1>4. SendsInv /\ BusyInv /\ RestInv
  BY <1>1, <1>2, <1>3 DEF SendsInv, BusyInv, RestInv
<1>5. AttemptInv /\ UnsafeOnce
  BY <1>1, <1>2 DEF AttemptInv, UnsafeOnce
<1>6. ApprovalInv /\ ToolInv /\ ChoiceInv /\ FlightInv
  BY <1>1, <1>3 DEF ApprovalInv, ApprovalLive, ToolInv, ChoiceInv, FlightInv
<1> QED
  BY <1>4, <1>5, <1>6 DEF LInv

(* A transition names the leaf it goes to.                                  *)
LEMMA TransitionLeaf ==
  ASSUME NEW o \in Operation, NEW leaf, NEW work
  PROVE  /\ Transition(o, leaf).leaf = leaf
         /\ Decided(o, leaf, work).leaf = leaf
         /\ Close(o).leaf = "closing"
BY DEF Transition, Decided, Close, Operation

(* Settling a phase abandons what is still open.                            *)
LEMMA AbandonedEnds ==
  ASSUME KInv, batches' = Abandoned
  PROVE  /\ SameCalls(batches, batches') /\ OpenBatches' = {}
         /\ \A b \in 1..Len(batches) :
              /\ batches'[b].tried = batches[b].tried /\ batches'[b].void = batches[b].void
              /\ batches'[b].end = "delivered" => batches[b].end = "delivered"
<1>1. DOMAIN Abandoned = 1..Len(batches) /\ Len(Abandoned) = Len(batches)
  BY Lengths, AbandonedRows DEF Abandoned
<1>2. ASSUME NEW b \in 1..Len(batches)
      PROVE  /\ Abandoned[b].items = batches[b].items /\ Abandoned[b].turn = batches[b].turn
             /\ Abandoned[b].tried = batches[b].tried /\ Abandoned[b].void = batches[b].void
             /\ Abandoned[b].end = IF Open(b) THEN "abandoned" ELSE batches[b].end
  <2>1. batches[b] \in Batch
    BY Lengths
  <2>2. Abandoned[b] = IF Open(b) THEN [batches[b] EXCEPT !.end = "abandoned"] ELSE batches[b]
    BY Lengths DEF Abandoned
  <2> QED
    BY <2>1, <2>2 DEF Batch
<1>3. \A b \in 1..Len(batches) : Abandoned[b].end # "open"
  BY <1>2 DEF Open
<1> HIDE DEF Abandoned
<1>4. OpenBatches' = {}
  BY <1>1, <1>3 DEF OpenBatches, Open
<1> QED
  BY <1>1, <1>2, <1>4 DEF SameCalls, Open

(* The attempts keep their standing when rows only end.                     *)
LEMMA AttemptEnds ==
  ASSUME KInv, AttemptInv, SameCalls(batches, batches'), sends' = sends,
         \A b \in 1..Len(batches) :
           /\ batches'[b].tried = batches[b].tried /\ batches'[b].void = batches[b].void
           /\ batches'[b].end = "delivered" => batches[b].end = "delivered"
  PROVE  AttemptInv'
<1> SUFFICES ASSUME NEW b \in 1..Len(batches)
             PROVE  /\ batches'[b].tried # {} => FullySettled(b)'
                    /\ \A m, n \in ActiveAttempts(b)' : m = n
                    /\ batches'[b].end = "delivered" =>
                         \E n \in ActiveAttempts(b)' : sends'[n].st = "ok" /\ sends'[n].reply # ""
  BY DEF AttemptInv, SameCalls
<1>1. FullySettled(b)' = FullySettled(b) /\ ActiveAttempts(b)' = ActiveAttempts(b)
  BY DEF FullySettled, PendingItems, ActiveAttempts, SameCalls
<1>2. /\ batches[b].tried # {} => FullySettled(b)
      /\ \A m, n \in ActiveAttempts(b) : m = n
      /\ batches[b].end = "delivered" =>
           \E n \in ActiveAttempts(b) : sends[n].st = "ok" /\ sends[n].reply # ""
  BY DEF AttemptInv
<1> QED
  BY <1>1, <1>2

(* The lifecycle around the kernel.                                         *)
LEMMA LedgerOuter ==
  ASSUME KInv, LInv, OuterStep
  PROVE  LInv'
<1>0. op \in Operation
  BY DEF KInv, Position
<1>1. CASE StartDrive \/ CloseTask \/ Failover \/ Park \/ CancelIdle
  <2>1. UNCHANGED <<op, sends, batches>>
    BY <1>1 DEF StartDrive, CloseTask, Failover, Park, CancelIdle
  <2>2. mem \in Driver /\ io \in Outside
    BY DEF KInv
  <2>3. mem'.pc \in {"off", "loop"} /\ (op.leaf \in OuterLeaves => mem'.pc = "off")
    BY <1>1, <2>2, DriverOff, DriverLoop
    DEF LInv, RestInv, StartDrive, CloseTask, Failover, Park, CancelIdle, Idle
  <2>4. io'.approval = io.approval /\ io'.cancel = io.cancel
    BY <1>1, <2>2 DEF StartDrive, CloseTask, Failover, Park, CancelIdle, Outside
  <2> QED
    BY <2>1, <2>3, <2>4, Still DEF ApprovalLive
<1>2. CASE StartWriter \/ StartRepair
  <2>1. UNCHANGED <<sends, batches, mem, io>> /\ mem.pc = "off" /\ op.leaf \in OuterLeaves
    BY <1>2 DEF StartWriter, StartRepair, Outer, Idle, OuterLeaves
  <2>2. op'.leaf \in {"writer_running", "repair_running"}
    BY <1>0, <1>2 DEF StartWriter, StartRepair, Outer, Transition, Operation
  <2>3. op'.leaf \notin OuterLeaves /\ op.leaf # "provider_effect_pending"
        /\ "tool_effect_pending" \notin {op.leaf, op'.leaf}
    BY <2>1, <2>2 DEF OuterLeaves
  <2>4. SameCalls(batches, batches') /\ batches' \in Seq(Batch) /\ RestInv'
    BY <2>1, <2>3, Lengths DEF SameCalls, RestInv
  <2>5. ApprovalLive' => ApprovalLive
    BY <2>1 DEF ApprovalLive
  <2> QED
    BY <2>1, <2>3, <2>4, <2>5, SendsKept, BusyKept, AttemptKept, ApprovalKept, DriverFree,
       OnceKept DEF LInv
<1>3. CASE RecordProof \/ AdmitRepair \/ Finish
  <2>1. UNCHANGED <<sends, batches, mem, io>> /\ mem.pc = "off" /\ op.leaf \in OuterLeaves
    BY <1>3 DEF RecordProof, AdmitRepair, Finish, Outer, Idle, OuterLeaves
  <2>2. op'.leaf \in {"completion_proof_recorded", "repair_context_admitted", "terminal"}
    BY <1>0, <1>3, TransitionLeaf DEF RecordProof, AdmitRepair, Finish, Outer
  <2>3. op.leaf # "provider_effect_pending" /\ "tool_effect_pending" \notin {op.leaf, op'.leaf}
    BY <2>1, <2>2 DEF OuterLeaves
  <2>4. SameCalls(batches, batches') /\ batches' \in Seq(Batch)
    BY <2>1, Lengths DEF SameCalls
  <2>5. RestInv'
    BY <2>1 DEF LInv, RestInv, Unsettled, OpenBatches, Open
  <2>6. ApprovalLive' => ApprovalLive
    BY <2>1 DEF ApprovalLive
  <2> QED
    BY <2>1, <2>3, <2>4, <2>5, <2>6, SendsKept, BusyKept, AttemptKept, ApprovalKept,
       DriverFree, OnceKept DEF LInv
<1>4. CASE SettlePhase
  <2>1. UNCHANGED <<sends, io>> /\ batches' = Abandoned /\ mem' = Off /\ Settleable
    BY <1>4 DEF SettlePhase, CanSettle
  <2>2. op'.leaf = SettleTarget
    BY <1>0, <1>4 DEF SettlePhase, Transition, Operation
  <2>3. op'.leaf \in {"writer_settled", "repair_settled", "terminal"}
    BY <2>2 DEF SettleTarget, PhaseSettled
  <2>4. Unsettled = {} /\ op.leaf \notin {"provider_effect_pending", "tool_effect_pending"}
    BY <2>1 DEF Settleable
  <2>5. batches' \in Seq(Batch)
    BY <2>1, AbandonedRows DEF Ledger
  <2>6. /\ SameCalls(batches, batches') /\ OpenBatches' = {} /\ mem'.pc = "off"
    BY <2>1, AbandonedEnds, DriverOff
  <2>7. AttemptInv'
    BY <2>1, AbandonedEnds, AttemptEnds DEF LInv
  <2>8. RestInv'
    BY <2>1, <2>4, <2>6 DEF RestInv, Unsettled
  <2>9. ApprovalLive' => ApprovalLive
    BY <2>1 DEF ApprovalLive
  <2>10. "tool_effect_pending" \notin {op.leaf, op'.leaf}
    BY <2>3, <2>4
  <2> QED
    BY <2>1, <2>4, <2>5, <2>6, <2>7, <2>8, <2>9, <2>10, SendsKept, BusyKept, ApprovalKept,
       DriverFree, OnceKept DEF LInv
<1> QED
  BY <1>1, <1>2, <1>3, <1>4 DEF OuterStep

(* People and services act while the driver stands still.                   *)
LEMMA Watching ==
  ASSUME KInv, LInv, UNCHANGED <<op, sends, batches, mem>>,
         io.cancel => io'.cancel,
         io.approval = "none" => io'.approval = "none", VerdictIn => VerdictIn',
         ApprovalLive' => ApprovalLive
  PROVE  LInv'
<1>1. SameCalls(batches, batches') /\ batches' \in Seq(Batch)
  BY Lengths DEF SameCalls
<1>2. SendsInv' /\ BusyInv' /\ AttemptInv' /\ ApprovalInv' /\ UnsafeOnce'
  BY <1>1, SendsKept, BusyKept, AttemptKept, ApprovalKept, OnceKept DEF LInv
<1>3. RestInv' /\ FlightInv'
  BY DEF LInv, RestInv, FlightInv, Unsettled, OpenBatches, Open
<1>4. ToolInv'
  BY DEF LInv, ToolInv, Newest, Shell, Unrun, PendingItems, Slot
<1>5. ChoiceInv'
  BY DEF LInv, ChoiceInv, Chosen, Newest, Shell, AllSafe, Unsettled
<1> QED
  BY <1>2, <1>3, <1>4, <1>5 DEF LInv

(* A call that ran: what is pending, safe or a command stays so.            *)
LEMMA RanRows ==
  ASSUME KInv, batches' \in Seq(Batch), NEW b, NEW i, OneRun(batches, batches', b, i)
  PROVE  /\ Newest' = Newest /\ BusyBatches' = BusyBatches /\ OpenBatches' = OpenBatches
         /\ \A c \in 1..Len(batches) :
              /\ PendingItems(c)' = PendingItems(c)
              /\ FullySettled(c)' = FullySettled(c)
              /\ ActiveAttempts(c)' = ActiveAttempts(c)
              /\ AllSafe(c)' = AllSafe(c)
              /\ 1 \in DOMAIN batches[c].items => Shell(c)' = Shell(c)
<1>1. DOMAIN batches = 1..Len(batches) /\ DOMAIN batches' = 1..Len(batches)
  BY Lengths DEF OneRun, SameHeads
<1>2. /\ \A c \in 1..Len(batches) : PendingItems(c)' = PendingItems(c)
      /\ BusyBatches' = BusyBatches
  BY CallsKept DEF OneRun, SameHeads
<1>3. Newest' = Newest
  BY DEF OneRun, SameHeads, Newest
<1>4. OpenBatches' = OpenBatches
  BY <1>1 DEF OneRun, SameHeads, OpenBatches, Open
<1>5. ASSUME NEW c \in 1..Len(batches)
      PROVE  /\ FullySettled(c)' = FullySettled(c)
             /\ ActiveAttempts(c)' = ActiveAttempts(c)
             /\ AllSafe(c)' = AllSafe(c)
             /\ 1 \in DOMAIN batches[c].items => Shell(c)' = Shell(c)
  <2>1. FullySettled(c)' = FullySettled(c)
    BY <1>2 DEF FullySettled
  <2>2. ActiveAttempts(c)' = ActiveAttempts(c)
    BY DEF ActiveAttempts, OneRun, SameHeads
  <2>3. AllSafe(c)' = AllSafe(c)
    BY DEF AllSafe, OneRun, SameHeads
  <2>4. 1 \in DOMAIN batches[c].items => Shell(c)' = Shell(c)
    BY DEF Shell, OneRun, SameHeads
  <2> QED
    BY <2>1, <2>2, <2>3, <2>4
<1> QED
  BY <1>2, <1>3, <1>4, <1>5

(* A call that had not run may run; the attempts do not notice.             *)
LEMMA RanOnce ==
  ASSUME KInv, LInv, batches' \in Seq(Batch), NEW b \in 1..Len(batches),
         NEW i \in DOMAIN batches[b].items, OneRun(batches, batches', b, i),
         Unrun(b, i), UNCHANGED <<op, sends>>
  PROVE  SendsInv' /\ BusyInv' /\ AttemptInv' /\ UnsafeOnce'
<1>1. SendsInv'
  BY SendsKept DEF LInv
<1>2. BusyInv'
  <2>1. CASE op.leaf = "tool_effect_pending"
    <3>1. batches'[Newest].turn = batches[Newest].turn
      BY <2>1, NewestPending DEF LInv, OneRun, SameHeads
    <3> QED
      BY <2>1, <3>1, RanRows DEF LInv, BusyInv
  <2>2. CASE op.leaf # "tool_effect_pending"
    BY <2>2, RanRows DEF LInv, BusyInv
  <2> QED
    BY <2>1, <2>2
<1>3. AttemptInv'
  <2>1. Len(batches') = Len(batches)
    BY DEF OneRun, SameHeads
  <2> SUFFICES ASSUME NEW c \in 1..Len(batches)
               PROVE  /\ batches'[c].tried # {} => FullySettled(c)'
                      /\ \A m, n \in ActiveAttempts(c)' : m = n
                      /\ batches'[c].end = "delivered" =>
                           \E n \in ActiveAttempts(c)' :
                             sends'[n].st = "ok" /\ sends'[n].reply # ""
    BY <2>1 DEF AttemptInv
  <2>2. FullySettled(c)' = FullySettled(c) /\ ActiveAttempts(c)' = ActiveAttempts(c)
    BY RanRows
  <2>3. batches'[c].tried = batches[c].tried /\ batches'[c].end = batches[c].end
    BY DEF OneRun, SameHeads
  <2>4. /\ batches[c].tried # {} => FullySettled(c)
        /\ \A m, n \in ActiveAttempts(c) : m = n
        /\ batches[c].end = "delivered" =>
             \E n \in ActiveAttempts(c) : sends[n].st = "ok" /\ sends[n].reply # ""
    BY DEF LInv, AttemptInv
  <2> QED
    BY <2>2, <2>3, <2>4
<1>4. UnsafeOnce'
  <2>1. DOMAIN batches' = 1..Len(batches) /\ DOMAIN batches = 1..Len(batches)
    BY Lengths DEF OneRun, SameHeads
  <2> SUFFICES ASSUME NEW c \in 1..Len(batches), NEW j \in DOMAIN batches'[c].items,
                      ~IsSafe(batches'[c].items[j].kind)
               PROVE  batches'[c].items[j].runs <= 1
    BY <2>1 DEF UnsafeOnce
  <2>2. j \in DOMAIN batches[c].items /\ ~IsSafe(batches[c].items[j].kind)
    BY DEF OneRun, SameHeads
  <2>3. batches[c].items[j].runs <= 1
    BY <2>1, <2>2 DEF LInv, UnsafeOnce
  <2>4. CASE c = b /\ j = i
    <3>1. batches[c].items[j].runs = 0
      BY <2>2, <2>4 DEF Unrun
    <3> QED
      BY <2>2, <2>4, <3>1 DEF OneRun
  <2>5. CASE ~(c = b /\ j = i)
    BY <2>2, <2>3, <2>5 DEF OneRun
  <2> QED
    BY <2>4, <2>5
<1> QED
  BY <1>1, <1>2, <1>3, <1>4

(* The first call of a batch with pending calls exists.                     *)
LEMMA FirstCall ==
  ASSUME KInv, NEW b \in 1..Len(batches), PendingItems(b) # {}
  PROVE  1 \in DOMAIN batches[b].items /\ batches[b].items \in Seq(Item)
<1>1. batches[b] \in Batch
  BY Lengths
<1>2. batches[b].items \in Seq(Item)
  BY <1>1 DEF Batch
<1>3. Len(batches[b].items) \in Nat /\ DOMAIN batches[b].items = 1..Len(batches[b].items)
  BY <1>2
<1>4. DOMAIN batches[b].items # {}
  BY DEF PendingItems
<1> QED
  BY <1>2, <1>3, <1>4

(* The approved command runs: its item had not run, and the approval is     *)
(* spent.                                                                   *)
LEMMA LedgerRunCommand ==
  ASSUME KInv, LInv, RunCommand
  PROVE  LInv'
<1>1. /\ io.approval = "claimed" /\ UNCHANGED <<op, sends, mem>>
      /\ io'.approval = "ran" /\ io'.cancel = io.cancel
  BY DEF KInv, Outside, RunCommand
<1>2. op.leaf = "tool_effect_pending" /\ Shell(Newest) /\ Unrun(Newest, 1)
  BY <1>1 DEF LInv, ApprovalInv, ApprovalLive
<1>3. PendingTools = {Newest} /\ Newest \in 1..Len(batches) /\ PendingItems(Newest) # {}
  BY <1>2, NewestPending DEF LInv
<1>4. 1 \in DOMAIN batches[Newest].items
  BY <1>3, FirstCall
<1>5. batches' = WithRun(batches, Newest, 1)
  BY <1>3 DEF RunCommand, WithRun
<1>6. batches \in Seq(Batch) /\ batches' \in Seq(Batch)
  BY <1>5, Lengths, BatchRuns DEF SameAttempts
<1>7. OneRun(batches, batches', Newest, 1)
  BY <1>3, <1>4, <1>5, <1>6, RunRows
<1>8. SendsInv' /\ BusyInv' /\ AttemptInv' /\ UnsafeOnce'
  BY <1>1, <1>2, <1>3, <1>4, <1>6, <1>7, RanOnce
<1>9. /\ Newest' = Newest /\ OpenBatches' = OpenBatches /\ AllSafe(Newest)' = AllSafe(Newest)
      /\ Shell(Newest)' = Shell(Newest)
  <2>1. /\ Newest' = Newest /\ OpenBatches' = OpenBatches
        /\ \A c \in 1..Len(batches) :
             AllSafe(c)' = AllSafe(c) /\ (1 \in DOMAIN batches[c].items => Shell(c)' = Shell(c))
    BY <1>6, <1>7, RanRows
  <2> QED
    BY <1>3, <1>4, <2>1 DEF AllSafe, Shell
<1>10. RestInv' /\ FlightInv'
  BY <1>1, <1>9 DEF LInv, RestInv, FlightInv, Unsettled
<1>11. ApprovalInv'
  BY <1>1 DEF ApprovalInv, ApprovalLive
<1>12. ToolInv'
  BY <1>1, <1>2 DEF LInv, ToolInv
<1>13. ChoiceInv'
  BY <1>1, <1>2, <1>9 DEF LInv, ChoiceInv, Chosen, VerdictIn, Unsettled
<1> QED
  BY <1>8, <1>10, <1>11, <1>12, <1>13 DEF LInv

(* Everything else that happens around the driver.                          *)
LEMMA LedgerOutside ==
  ASSUME KInv, LInv,
         RequestCancel \/ QueueInput \/ AnswerQuestion \/ ApprovalStep \/ Drift \/ Crash
  PROVE  LInv'
<1>0. io \in Outside
  BY DEF KInv
<1>1. CASE RequestCancel \/ QueueInput \/ AnswerQuestion \/ Drift
  <2>1. UNCHANGED <<op, sends, batches, mem>>
    BY <1>1 DEF RequestCancel, QueueInput, AnswerQuestion, Drift
  <2>2. io'.approval = io.approval /\ (io.cancel => io'.cancel)
    BY <1>0, <1>1 DEF RequestCancel, QueueInput, AnswerQuestion, Drift, Outside
  <2> QED
    BY <2>1, <2>2, Watching DEF ApprovalLive, VerdictIn
<1>2. CASE ApprovalStep
  <2>1. UNCHANGED <<op, sends, batches, mem>> /\ io'.cancel = io.cancel
    BY <1>0, <1>2, ApprovalMoves
  <2>2. /\ io.approval = "none" => io'.approval = "none"
        /\ VerdictIn => VerdictIn'
        /\ ApprovalLive' => ApprovalLive
    <3>1. CASE ClaimApproval \/ \E verdict \in {"approved", "denied"} : Resolve(verdict)
      BY <1>0, <2>1, <3>1 DEF ClaimApproval, Resolve, Outside, VerdictIn, ApprovalLive
    <3>2. CASE CommandHalted \/ SaveReceipt \/ DropReceipt \/ SaveDenial \/ WakeDenied
      BY <1>0, <2>1, <3>2 DEF CommandHalted, SaveReceipt, DropReceipt, SaveDenial,
                              WakeDenied, Outside, VerdictIn, ApprovalLive
    <3>3. CASE ExecutorFails
      <4>1. io'.approval = Orphaned(io.approval) /\ Orphaned(io.approval) # io.approval
        BY <1>0, <3>3 DEF ExecutorFails, Outside
      <4> QED
        BY <2>1, <4>1 DEF Orphaned, VerdictIn, ApprovalLive
    <3> QED
      BY <1>2, <3>1, <3>2, <3>3 DEF ApprovalStep
  <2> QED
    BY <2>1, <2>2, Watching
<1>3. CASE Crash
  <2>1. UNCHANGED <<op, sends, batches>> /\ mem'.pc = "off"
    BY <1>3, DriverOff DEF Crash
  <2>2. io'.cancel = io.cancel /\ io'.approval = Orphaned(io.approval)
    BY <1>0, <1>3 DEF Crash, Outside
  <2>3. ApprovalLive' => ApprovalLive
    BY <2>2 DEF Orphaned, ApprovalLive
  <2> QED
    BY <2>1, <2>3, Still
<1> QED
  BY <1>1, <1>2, <1>3

-----------------------------------------------------------------------------
(* The kernel loop: deciding, and the steps that only move the position.   *)

(* With no call pending, a batch is settled.                                *)
LEMMA QuietBatches ==
  ASSUME KInv, BusyInv, op.leaf # "tool_effect_pending", NEW b \in 1..Len(batches)
  PROVE  FullySettled(b)
BY Lengths DEF BusyInv, BusyBatches

(* The reducer's choice says what it saw.                                   *)
LEMMA ReducerChose == ASSUME KInv, LInv PROVE Chosen(NextAction)
<1>1. CASE ~ProgressValid \/ OutcomeUnknown
  <2>1. NextAction \in {"fail", "fail_unknown"}
    BY <1>1 DEF NextAction
  <2> QED
    BY <2>1 DEF Chosen
<1>2. CASE ProgressValid /\ ~OutcomeUnknown /\ io.cancel /\ op.work # "closing"
           /\ op.leaf \in CancelLeaves
  <2>1. NextAction = "begin_closing"
    BY <1>2 DEF NextAction
  <2> QED
    BY <1>2, <2>1 DEF Chosen
<1>3. CASE /\ ProgressValid /\ ~OutcomeUnknown
           /\ ~(io.cancel /\ op.work # "closing" /\ op.leaf \in CancelLeaves)
  <2>1. CASE op.leaf = "provider_request_ready"
    <3>1. NextAction = PreparedRequestAction
      BY <1>3, <2>1 DEF NextAction
    <3>2. NextAction \in {"before_request", "submit", "fail"}
          /\ (NextAction = "submit" => Unsettled = {})
          /\ (NextAction = "before_request" => Unsettled # {})
      BY <3>1 DEF PreparedRequestAction
    <3> QED
      BY <2>1, <3>2 DEF Chosen
  <2>2. CASE op.leaf = "provider_effect_pending"
    <3>1. NextAction \in {"settle_unknown", "fail"}
      BY <1>3, <2>2 DEF NextAction, ProviderPendingAction
    <3> QED
      BY <2>2, <3>1 DEF Chosen
  <2>3. CASE op.leaf = "provider_response_ready"
    <3>1. NextAction \in {"interpret", "fail"}
      BY <1>3, <2>3 DEF NextAction, ResponseReadyAction
    <3> QED
      BY <2>3, <3>1 DEF Chosen
  <2>4. CASE op.leaf = "tool_effect_pending"
    <3>1. PendingTools = {Newest} /\ (CHOOSE x \in PendingTools : TRUE) = Newest
      BY <2>4, NewestPending DEF LInv
    <3>2. ApprovalPending <=> io.approval # "none" /\ Shell(Newest)
      BY <3>1 DEF ApprovalPending, Shell
    <3>3. CASE ApprovalPending
      <4>1. NextAction = ApprovalAction
        BY <1>3, <2>4, <3>3 DEF NextAction
      <4>2. /\ NextAction \in {"fail_unknown", "reconcile", "approval_boundary", "wait_approval"}
            /\ NextAction = "reconcile" => VerdictIn \/ io.cancel
        BY <4>1 DEF ApprovalAction, VerdictIn
      <4> QED
        BY <2>4, <3>2, <3>3, <4>2 DEF Chosen
    <3>4. CASE ~ApprovalPending
      <4>1. NextAction = ToolPendingAction
        BY <1>3, <2>4, <3>4 DEF NextAction
      <4>2. /\ NextAction \in {"fail", "replay", "synthesize"}
            /\ NextAction = "replay" => AllSafe(Newest)
        BY <3>1, <4>1 DEF ToolPendingAction, CanRecover
      <4> QED
        BY <2>4, <3>2, <3>4, <4>2 DEF Chosen
    <3> QED
      BY <3>3, <3>4
  <2>5. CASE op.leaf = "tool_delivery_pending"
    <3>1. NextAction = ToolDeliveryAction
      BY <1>3, <2>5 DEF NextAction
    <3>2. DeliveryBatch # 0 => FullySettled(DeliveryBatch)
      <4>1. DeliveryBatch # 0 => DeliveryBatch \in 1..Len(batches)
        BY DeliveryRange, Lengths
      <4> QED
        BY <2>5, <4>1, QuietBatches DEF LInv
    <3>3. NextAction \in {"observe", "post_tools", "fail", "redeliver"}
      BY <3>1, <3>2 DEF ToolDeliveryAction
    <3> QED
      BY <2>5, <3>3 DEF Chosen
  <2>6. CASE op.leaf \in {"writer_running", "repair_running"}
    <3>1. NextAction \in {"fail", "prepare"}
      BY <1>3, <2>6 DEF NextAction, RunningAction
    <3> QED
      BY <2>6, <3>1 DEF Chosen
  <2>7. CASE op.leaf \notin {"provider_request_ready", "provider_effect_pending",
                             "provider_response_ready", "tool_effect_pending",
                             "tool_delivery_pending", "writer_running", "repair_running"}
    <3>1. NextAction = ExecutionAction
      BY <1>3, <2>7 DEF NextAction
    <3>2. /\ NextAction \in {"execute", "evaluate", "fail", "control", "close", "resume", "return"}
          /\ NextAction = "execute" => op.leaf = "plan_ready"
          /\ NextAction = "evaluate" => op.leaf = "completion_pending"
          /\ NextAction = "control" => op.leaf = "control_ready"
          /\ NextAction = "close" => op.leaf = "closing"
          /\ NextAction \in {"resume", "return"} => op.leaf = "kernel_settled"
      BY <3>1 DEF ExecutionAction
    <3> QED
      BY <3>2 DEF Chosen
  <2> QED
    BY <2>1, <2>2, <2>3, <2>4, <2>5, <2>6, <2>7
<1> QED
  BY <1>1, <1>2, <1>3

(* Deciding changes nothing but the choice.                                 *)
LEMMA LedgerDecide ==
  ASSUME KInv, LInv, Decide
  PROVE  LInv'
<1>1. UNCHANGED <<op, sends, batches, io>> /\ mem.pc = "loop"
  BY DEF Decide
<1>2. mem'.pc = "act" /\ mem'.act = NextAction
  BY DEF KInv, Driver, Decide
<1>3. op.leaf \notin OuterLeaves
  BY <1>1 DEF LInv, RestInv
<1>4. SameCalls(batches, batches') /\ batches' \in Seq(Batch)
  BY <1>1, Lengths DEF SameCalls
<1>5. SendsInv' /\ BusyInv' /\ AttemptInv' /\ ApprovalInv' /\ UnsafeOnce'
  BY <1>1, <1>4, SendsKept, BusyKept, AttemptKept, ApprovalKept, OnceKept DEF LInv, ApprovalLive
<1>6. RestInv' /\ ToolInv' /\ FlightInv'
  BY <1>1, <1>2, <1>3 DEF RestInv, ToolInv, FlightInv
<1>7. ChoiceInv'
  BY <1>1, <1>2, ReducerChose DEF ChoiceInv, Chosen, Newest, Shell, AllSafe, Unsettled,
                                 VerdictIn
<1> QED
  BY <1>5, <1>6, <1>7 DEF LInv

(* A commit was refused or an executor raised: the store is as it was.      *)
LEMMA LedgerRefused ==
  ASSUME KInv, LInv, UNCHANGED <<op, sends, batches, io>>, mem.pc # "off", mem'.pc \in {"loop", "end"}
  PROVE  LInv'
<1>1. op.leaf \notin OuterLeaves
  BY DEF LInv, RestInv
<1> QED
  BY <1>1, Still DEF ApprovalLive

(* Halt and Loop say where the driver goes.                                 *)
LEMMA DriverPoints ==
  ASSUME KInv
  PROVE  /\ Loop(mem).pc = "loop" /\ \A res : Halt(mem, res).pc = "end"
         /\ \A b : Loop([mem EXCEPT !.batch = b]).pc = "loop"
                   /\ Halt([mem EXCEPT !.batch = b], "illegal").pc = "end"
BY DEF KInv, Driver, Loop, Halt

(* Steps of the loop that read only, or that end it.                        *)
LEMMA LedgerReadOnly ==
  ASSUME KInv, LInv, WaitApproval \/ Return \/ FailInvariant
  PROVE  LInv'
<1>1. UNCHANGED <<op, sends, batches, io>> /\ mem.pc = "act"
  BY DEF WaitApproval, Return, FailInvariant, Do
<1>2. mem'.pc = "end"
  BY DriverPoints DEF WaitApproval, Return, FailInvariant
<1> QED
  BY <1>1, <1>2, LedgerRefused

(* A Save from a leaf that waits for nothing, to another such leaf.         *)
LEMMA LedgerSave ==
  ASSUME KInv, LInv, NEW o, NEW m, Save(o, m), m.pc = "loop", mem.pc # "off",
         io'.approval = io.approval, io'.cancel = io.cancel,
         op.leaf \notin {"provider_effect_pending", "tool_effect_pending"},
         o.leaf \notin OuterLeaves \union {"tool_effect_pending"}
  PROVE  LInv'
<1>0. op.leaf \notin OuterLeaves
  BY DEF LInv, RestInv
<1>1. \/ op' = o /\ mem' = m /\ UNCHANGED <<sends, batches>>
      \/ mem'.pc = "end" /\ UNCHANGED <<op, sends, batches>>
  BY DriverPoints DEF Save, Commit
<1>2. ApprovalLive' => ApprovalLive
  BY DEF ApprovalLive
<1>3. CASE op' = o /\ mem' = m /\ UNCHANGED <<sends, batches>>
  BY <1>2, <1>3, Onward
<1>4. CASE mem'.pc = "end" /\ UNCHANGED <<op, sends, batches>>
  BY <1>0, <1>2, <1>4, Still
<1> QED
  BY <1>1, <1>3, <1>4

(* Freeze saves a request, or raises.                                       *)
LEMMA LedgerFreeze ==
  ASSUME KInv, LInv, NEW m \in Driver, NEW lt, NEW close, NEW round, mem.pc = "act",
         Freeze(m, lt, close, round),
         io'.approval = io.approval, io'.cancel = io.cancel,
         op.leaf \notin {"provider_effect_pending", "tool_effect_pending"}
  PROVE  LInv'
<1> DEFINE o == [Transition(op, "provider_request_ready") EXCEPT
                   !.turn = Len(sends) + 1,
                   !.resp = IF Unsettled # {} THEN op.resp ELSE 0,
                   !.lt   = lt,
                   !.req  = [batch |-> m.batch, close |-> close, work |-> op.work,
                             src |-> Source, lt |-> lt, round |-> round]]
<1>1. \/ mem' = Halt(m, "illegal") /\ UNCHANGED <<op, sends, batches>>
      \/ Save(o, Loop(m))
  BY DEF Freeze
<1>2. o.leaf = "provider_request_ready"
  <2>1. op \in Operation
    BY DEF KInv, Position
  <2> QED
    BY <2>1 DEF Transition, Operation
<1>3. Loop(m).pc = "loop" /\ Halt(m, "illegal").pc = "end"
  BY DriverLoop, DriverHalt
<1> HIDE DEF o
<1>4. CASE mem' = Halt(m, "illegal") /\ UNCHANGED <<op, sends, batches>>
  <2>1. op.leaf \notin OuterLeaves /\ (ApprovalLive' => ApprovalLive)
    BY DEF LInv, RestInv, ApprovalLive
  <2> QED
    BY <1>3, <1>4, <2>1, Still
<1>5. CASE Save(o, Loop(m))
  BY <1>2, <1>3, <1>5, LedgerSave DEF OuterLeaves
<1> QED
  BY <1>1, <1>4, <1>5

(* Stop, or the end of the budget: the protocol is closed.                  *)
LEMMA LedgerClosing ==
  ASSUME KInv, LInv, BeginClosing \/ WriteBusy
  PROVE  LInv'
<1>1. Save(Close(op), Loop(mem)) /\ io' = io /\ mem.pc = "act"
      /\ op.leaf \in CancelLeaves \union {"plan_ready"}
  BY DEF BeginClosing, WriteBusy, Do, LInv, ChoiceInv, Chosen
<1>2. op \in Operation /\ mem \in Driver
  BY DEF KInv, Position
<1>3. Close(op).leaf = "closing" /\ Loop(mem).pc = "loop"
  BY <1>2, TransitionLeaf, DriverLoop
<1> QED
  BY <1>1, <1>3, LedgerSave DEF CancelLeaves, OuterLeaves

(* The next turn, or the end of the budget.                                 *)
LEMMA LedgerPrepareTurn ==
  ASSUME KInv, LInv, PrepareTurn
  PROVE  LInv'
<1>1. io' = io /\ mem.pc = "act" /\ op.leaf \in {"writer_running", "repair_running"}
  BY DEF PrepareTurn, Do, LInv, ChoiceInv, Chosen
<1>2. op \in Operation /\ mem \in Driver
  BY DEF KInv, Position
<1>3. Close(op).leaf = "closing" /\ Loop(mem).pc = "loop"
  BY <1>2, TransitionLeaf, DriverLoop
<1>4. Save(Close(op), Loop(mem)) \/ Freeze(mem, op.lt + 1, FALSE, op.round)
  BY DEF PrepareTurn
<1> QED
  BY <1>1, <1>2, <1>3, <1>4, LedgerSave, LedgerFreeze DEF OuterLeaves

(* interpret, whatever the reply.                                           *)
LEMMA LedgerInterpret ==
  ASSUME KInv, LInv, NEW repeated \in BOOLEAN, Interpret(repeated)
  PROVE  LInv'
<1>1. io' = io /\ mem.pc = "act" /\ op.leaf = "provider_response_ready"
  BY DEF Interpret, Do, LInv, ChoiceInv, Chosen
<1>2. op \in Operation /\ mem \in Driver
  BY DEF KInv, Position
<1>3. Loop(mem).pc = "loop"
  BY <1>2, DriverLoop
<1> DEFINE counted == [op EXCEPT !.invalid = op.invalid + 1]
           ready(leaf) == [Transition(op, leaf) EXCEPT !.invalid = 0]
           cut == [Decided(op, "control_ready", "retry") EXCEPT !.cut = TRUE]
<1>4. PICK o \in {Transition(op, "closing"), Close(op), cut, Close(counted),
                  Decided(counted, "control_ready", "retry"),
                  Decided(op, "control_ready", "question"),
                  ready("completion_pending"), ready("plan_ready")} : Save(o, Loop(mem))
  BY DEF Interpret
<1>5. o.leaf \in {"closing", "control_ready", "completion_pending", "plan_ready"}
  BY <1>2, <1>4 DEF Transition, Decided, Close, Operation
<1> HIDE DEF counted, ready, cut
<1> QED
  BY <1>1, <1>3, <1>4, <1>5, LedgerSave DEF OuterLeaves

(* evaluate_completion, and the answer to a question.                       *)
LEMMA LedgerEvaluate ==
  ASSUME KInv, LInv, ResumeQuestion \/ \E complete, novel \in BOOLEAN : Evaluate(complete, novel)
  PROVE  LInv'
<1>1. io' = io /\ mem.pc = "act" /\ op.leaf \in {"completion_pending", "kernel_settled"}
  BY DEF Evaluate, ResumeQuestion, Do, LInv, ChoiceInv, Chosen
<1>2. op \in Operation /\ mem \in Driver
  BY DEF KInv, Position
<1>3. Loop(mem).pc = "loop"
  BY <1>2, DriverLoop
<1>4. PICK o \in {Decided(op, "control_ready", "done"),
                  [Decided(op, "control_ready", "retry") EXCEPT !.idle = @ + 1],
                  [Decided(op, "control_ready", "retry") EXCEPT !.idle = 0],
                  Transition(op, Running(op.phase))} : Save(o, Loop(mem))
  BY DEF Evaluate, ResumeQuestion
<1>5. o.leaf \in {"control_ready", "writer_running", "repair_running"}
  BY <1>2, <1>4 DEF Transition, Decided, Running, Operation
<1> QED
  BY <1>1, <1>3, <1>4, <1>5, LedgerSave DEF OuterLeaves

(* record_progress and the delivery of results.                             *)
LEMMA LedgerDelivery ==
  ASSUME KInv, LInv, Redeliver \/ \E repeats \in BOOLEAN : Observe(repeats)
  PROVE  LInv'
<1> DEFINE m == [mem EXCEPT !.batch = DeliveryBatch]
<1>1. io' = io /\ mem.pc = "act" /\ op.leaf = "tool_delivery_pending"
  BY DEF Redeliver, Observe, Do, LInv, ChoiceInv, Chosen
<1>2. op \in Operation /\ m \in Driver
  <2>1. DeliveryBatch \in Nat
    BY DeliveryRange, Lengths
  <2> QED
    BY <2>1, DriverBatch DEF KInv, Position
<1>3. Loop(m).pc = "loop"
  BY <1>2, DriverLoop
<1>4. \/ \E o \in {Transition(op, "completion_pending"), Close(op)} : Save(o, Loop(m))
      \/ Freeze(m, op.turn + 1, FALSE, op.round)
      \/ \E idle : Save([op EXCEPT !.last = DeliveryBatch, !.idle = idle], Loop(m))
  <2>1. CASE Redeliver
    BY <2>1 DEF Redeliver
  <2>2. ASSUME NEW repeats \in BOOLEAN, Observe(repeats)
        PROVE  \E idle : Save([op EXCEPT !.last = DeliveryBatch, !.idle = idle], Loop(m))
    BY <2>2, Zenon DEF Observe
  <2> QED
    BY <2>1, <2>2
<1> HIDE DEF m
<1>5. CASE \E o \in {Transition(op, "completion_pending"), Close(op)} : Save(o, Loop(m))
  <2>1. PICK o \in {Transition(op, "completion_pending"), Close(op)} : Save(o, Loop(m))
    BY <1>5
  <2>2. o.leaf \in {"completion_pending", "closing"}
    BY <1>2, <2>1, TransitionLeaf
  <2> QED
    BY <1>1, <1>3, <2>1, <2>2, LedgerSave DEF OuterLeaves
<1>6. CASE Freeze(m, op.turn + 1, FALSE, op.round)
  BY <1>1, <1>2, <1>6, LedgerFreeze
<1>7. CASE \E idle : Save([op EXCEPT !.last = DeliveryBatch, !.idle = idle], Loop(m))
  <2>1. PICK idle : Save([op EXCEPT !.last = DeliveryBatch, !.idle = idle], Loop(m))
    BY <1>7
  <2>2. [op EXCEPT !.last = DeliveryBatch, !.idle = idle].leaf = "tool_delivery_pending"
    BY <1>1, <1>2 DEF Operation
  <2> QED
    BY <1>1, <1>3, <2>1, <2>2, LedgerSave DEF OuterLeaves
<1> QED
  BY <1>4, <1>5, <1>6, <1>7

(* prepare_control_delivery.                                                *)
LEMMA LedgerControl ==
  ASSUME KInv, LInv, PrepareControl
  PROVE  LInv'
<1>0. op \in Operation /\ mem \in Driver /\ io \in Outside
  BY DEF KInv, Position
<1>1. mem.pc = "act" /\ op.leaf = "control_ready" /\ op.work # ""
  BY DEF PrepareControl, Do, LInv, ChoiceInv, Chosen, KInv, Decision
<1>2. CASE Source = 0 \/ Stranded
  <2>1. mem'.pc = "end" /\ UNCHANGED <<op, sends, batches, io>>
    BY <1>2, DriverPoints DEF PrepareControl
  <2> QED
    BY <1>1, <2>1, LedgerRefused
<1>3. CASE ~(Source = 0 \/ Stranded)
  <2>1. op.work \in {"retry", "question", "done"}
    BY <1>0, <1>1, <1>3 DEF Operation, Works, Stranded
  <2>2. io'.approval = io.approval /\ io'.cancel = io.cancel
    <3>1. \/ io' = io
          \/ io' = [io EXCEPT !.question = "asked"]
          \/ io' = [io EXCEPT !.question = io.question]
          \/ io' = [io EXCEPT !.drift = FALSE]
      BY <1>3, <2>1 DEF PrepareControl
    <3> QED
      BY <1>0, <3>1 DEF Outside
  <2>3. \/ \E lt, close, round : Freeze(mem, lt, close, round)
        \/ \E o \in {Transition(op, "closing"), Transition(op, "completion_pending"), Close(op)} :
             Save(o, Loop(mem))
    <3>1. CASE op.work = "retry"
      BY <1>3, <3>1 DEF PrepareControl
    <3>2. CASE op.work = "question"
      BY <1>3, <3>2 DEF PrepareControl
    <3>3. CASE op.work = "done" /\ sends[Source].reply = "answer"
      BY <1>3, <3>3 DEF PrepareControl
    <3>4. CASE op.work = "done" /\ sends[Source].reply # "answer"
      BY <1>3, <3>4 DEF PrepareControl
    <3> QED
      BY <2>1, <3>1, <3>2, <3>3, <3>4
  <2>4. CASE \E lt, close, round : Freeze(mem, lt, close, round)
    BY <1>0, <1>1, <2>2, <2>4, LedgerFreeze
  <2>5. CASE \E o \in {Transition(op, "closing"), Transition(op, "completion_pending"), Close(op)} :
             Save(o, Loop(mem))
    <3>1. PICK o \in {Transition(op, "closing"), Transition(op, "completion_pending"), Close(op)} :
            Save(o, Loop(mem))
      BY <2>5
    <3>2. o.leaf \in {"closing", "completion_pending"} /\ Loop(mem).pc = "loop"
      BY <1>0, <3>1, TransitionLeaf, DriverLoop
    <3> QED
      BY <1>1, <2>2, <3>1, <3>2, LedgerSave DEF OuterLeaves
  <2> QED
    BY <2>3, <2>4, <2>5
<1> QED
  BY <1>2, <1>3

-----------------------------------------------------------------------------
(* Sends and their outcomes.                                               *)

(* The unsettled send is the newest, and Only and CHOOSE find it.           *)
LEMMA NewestSend ==
  ASSUME KInv, SendsInv, Unsettled # {}
  PROVE  /\ Unsettled = {Len(sends)} /\ Only(Unsettled) = Len(sends)
         /\ (CHOOSE x \in Unsettled : TRUE) = Len(sends)
         /\ Len(sends) \in 1..Len(sends)
<1>1. Unsettled = {Len(sends)}
  BY DEF SendsInv
<1>2. Only(Unsettled) = Len(sends)
  BY <1>1 DEF Only
<1>3. Len(sends) \in 1..Len(sends)
  BY <1>1, Lengths DEF Unsettled
<1> QED
  BY <1>1, <1>2, <1>3

(* A live attempt is a send.                                                *)
LEMMA AttemptSends ==
  ASSUME KInv, NEW b \in 1..Len(batches)
  PROVE  ActiveAttempts(b) \subseteq 1..Len(sends)
BY DEF KInv, Ledger, ActiveAttempts

(* An answered send that delivered a batch is not touched again.            *)
LEMMA AttemptStays ==
  ASSUME KInv, AttemptInv, batches' = batches,
         \A m \in 1..Len(sends) : sends[m].st = "ok" => sends'[m] = sends[m]
  PROVE  AttemptInv'
<1> SUFFICES ASSUME NEW b \in 1..Len(batches)
             PROVE  /\ batches'[b].tried # {} => FullySettled(b)'
                    /\ \A m, n \in ActiveAttempts(b)' : m = n
                    /\ batches'[b].end = "delivered" =>
                         \E n \in ActiveAttempts(b)' : sends'[n].st = "ok" /\ sends'[n].reply # ""
  BY DEF AttemptInv
<1>1. FullySettled(b)' = FullySettled(b) /\ ActiveAttempts(b)' = ActiveAttempts(b)
  BY DEF FullySettled, PendingItems, ActiveAttempts
<1>2. /\ batches[b].tried # {} => FullySettled(b)
      /\ \A m, n \in ActiveAttempts(b) : m = n
      /\ batches[b].end = "delivered" =>
           \E n \in ActiveAttempts(b) : sends[n].st = "ok" /\ sends[n].reply # ""
  BY DEF AttemptInv
<1>3. \A n \in ActiveAttempts(b) : n \in 1..Len(sends)
  BY AttemptSends
<1> QED
  BY <1>1, <1>2, <1>3

(* Delivered ends the batch whose live attempt the send is, and no other.   *)
LEMMA DeliveredEnds ==
  ASSUME KInv, NEW n \in 1..Len(sends)
  PROVE  /\ SameCalls(batches, Delivered(n)) /\ Delivered(n) \in Seq(Batch)
         /\ \A c \in 1..Len(batches) :
              /\ Delivered(n)[c].tried = batches[c].tried
              /\ Delivered(n)[c].void = batches[c].void
              /\ Delivered(n)[c].end = "delivered" =>
                   batches[c].end = "delivered" \/ n \in ActiveAttempts(c)
<1> DEFINE b == sends[n].batch
<1>1. b \in 0..Len(batches)
  BY DEF KInv, Ledger
<1>2. CASE b # 0 /\ n \in ActiveAttempts(b)
  <2>1. Delivered(n) = WithEnd(batches, b, "delivered")
    BY <1>2 DEF Delivered, WithEnd
  <2>2. b \in 1..Len(batches) /\ batches \in Seq(Batch)
    BY <1>1, <1>2, Lengths
  <2> HIDE DEF b
  <2>3. WithEnd(batches, b, "delivered") \in Seq(Batch)
    BY <2>2, BatchEnd DEF SameAttempts
  <2> QED
    BY <1>2, <2>1, <2>2, <2>3, EndRows
<1>3. CASE ~(b # 0 /\ n \in ActiveAttempts(b))
  <2>1. Delivered(n) = batches
    BY <1>3 DEF Delivered
  <2> QED
    BY <2>1, Lengths DEF SameCalls
<1> QED
  BY <1>2, <1>3

(* The generation is closed: the send is settled as answered, and the batch *)
(* it carried is delivered.                                                 *)
LEMMA GenerationClosed ==
  ASSUME KInv, LInv, NEW n \in Unsettled, sends' = SettleSend(n, "ok"),
         batches' = Delivered(n), op.leaf # "provider_effect_pending",
         \/ op'.leaf = op.leaf /\ op'.turn = op.turn
         \/ "tool_effect_pending" \notin {op.leaf, op'.leaf},
         op'.leaf \notin OuterLeaves, ApprovalLive' => ApprovalLive
  PROVE  /\ Unsettled' = {} /\ SendsInv' /\ BusyInv' /\ AttemptInv' /\ RestInv'
         /\ ApprovalInv' /\ UnsafeOnce'
<1>1. /\ Unsettled' = {} /\ SendsInv' /\ n \in 1..Len(sends) /\ sends[n].st = "pending"
      /\ sends'[n].st = "ok" /\ sends'[n].reply = sends[n].reply
      /\ \A m \in 1..Len(sends) : m # n => sends'[m] = sends[m]
  BY SendsSettled DEF LInv
<1>2. sends'[n].reply # ""
  BY <1>1 DEF LInv, SendsInv
<1>3. /\ SameCalls(batches, batches') /\ batches' \in Seq(Batch)
      /\ \A c \in 1..Len(batches) :
           /\ batches'[c].tried = batches[c].tried /\ batches'[c].void = batches[c].void
           /\ batches'[c].end = "delivered" =>
                batches[c].end = "delivered" \/ n \in ActiveAttempts(c)
  BY <1>1, DeliveredEnds
<1>4. BusyInv' /\ ApprovalInv' /\ UnsafeOnce' /\ RestInv'
  BY <1>3, BusyKept, ApprovalKept, OnceKept DEF LInv, RestInv
<1>5. AttemptInv'
  <2> SUFFICES ASSUME NEW b \in 1..Len(batches)
               PROVE  /\ batches'[b].tried # {} => FullySettled(b)'
                      /\ \A k, m \in ActiveAttempts(b)' : k = m
                      /\ batches'[b].end = "delivered" =>
                           \E m \in ActiveAttempts(b)' : sends'[m].st = "ok" /\ sends'[m].reply # ""
    BY <1>3 DEF AttemptInv, SameCalls
  <2>1. FullySettled(b)' = FullySettled(b) /\ ActiveAttempts(b)' = ActiveAttempts(b)
    BY <1>3 DEF FullySettled, PendingItems, ActiveAttempts, SameCalls
  <2>2. /\ batches[b].tried # {} => FullySettled(b)
        /\ \A k, m \in ActiveAttempts(b) : k = m
        /\ batches[b].end = "delivered" =>
             \E m \in ActiveAttempts(b) : sends[m].st = "ok" /\ sends[m].reply # ""
    BY DEF LInv, AttemptInv
  <2>3. \A m \in ActiveAttempts(b) : m \in 1..Len(sends)
    BY AttemptSends
  <2>4. \A m \in ActiveAttempts(b) : sends[m].st = "ok" => sends'[m] = sends[m]
    BY <1>1, <2>3
  <2>5. batches'[b].end = "delivered" =>
          \E m \in ActiveAttempts(b) : sends'[m].st = "ok" /\ sends'[m].reply # ""
    <3>1. CASE batches[b].end = "delivered"
      BY <2>2, <2>4, <3>1
    <3>2. CASE n \in ActiveAttempts(b)
      BY <1>1, <1>2, <3>2
    <3> QED
      BY <1>3, <3>1, <3>2
  <2> QED
    BY <1>3, <2>1, <2>2, <2>5
<1> QED
  BY <1>1, <1>4, <1>5

(* before_request closes the generation the prepared request answers.       *)
LEMMA LedgerBeforeRequest ==
  ASSUME KInv, LInv, BeforeRequest
  PROVE  LInv'
<1>1. /\ mem.pc = "act" /\ op.leaf = "provider_request_ready" /\ Unsettled # {} /\ io' = io
      /\ op \in Operation /\ mem \in Driver
  BY DEF BeforeRequest, Do, LInv, ChoiceInv, Chosen, KInv, Position
<1> DEFINE n == Only(Unsettled)
<1>2. n \in Unsettled
  BY <1>1, NewestSend DEF LInv
<1>3. \/ /\ op' = [op EXCEPT !.resp = 0] /\ sends' = SettleSend(n, "ok")
         /\ batches' = Delivered(n) /\ mem' = [mem EXCEPT !.act = "submit"]
      \/ mem'.pc = "end" /\ UNCHANGED <<op, sends, batches>>
  BY DriverPoints DEF BeforeRequest, Commit
<1> HIDE DEF n
<1>4. CASE /\ op' = [op EXCEPT !.resp = 0] /\ sends' = SettleSend(n, "ok")
           /\ batches' = Delivered(n) /\ mem' = [mem EXCEPT !.act = "submit"]
  <2>1. op'.leaf = "provider_request_ready" /\ op'.turn = op.turn
    BY <1>1, <1>4 DEF Operation
  <2>2. mem'.pc = "act" /\ mem'.act = "submit"
    BY <1>1, <1>4 DEF Driver
  <2>3. ApprovalLive' => ApprovalLive
    BY <1>1 DEF ApprovalLive
  <2>4. /\ Unsettled' = {} /\ SendsInv' /\ BusyInv' /\ AttemptInv' /\ RestInv'
        /\ ApprovalInv' /\ UnsafeOnce'
    BY <1>1, <1>2, <1>4, <2>1, <2>3, GenerationClosed DEF OuterLeaves
  <2>5. ToolInv' /\ FlightInv' /\ ChoiceInv'
    BY <2>1, <2>2, <2>4 DEF ToolInv, FlightInv, ChoiceInv, Chosen
  <2> QED
    BY <2>4, <2>5 DEF LInv
<1>5. CASE mem'.pc = "end" /\ UNCHANGED <<op, sends, batches>>
  BY <1>1, <1>5, LedgerRefused
<1> QED
  BY <1>3, <1>4, <1>5

(* The boundary after tools and before waiting for an approval.             *)
LEMMA LedgerBoundary ==
  ASSUME KInv, LInv, Boundary
  PROVE  LInv'
<1>1. /\ mem.pc = "act" /\ Unsettled # {}
      /\ op.leaf \in {"tool_delivery_pending", "tool_effect_pending"}
      /\ op \in Operation /\ mem \in Driver /\ io \in Outside
  BY DEF Boundary, Do, LInv, ChoiceInv, Chosen, KInv, Position, Decision
<1>2. io'.approval = io.approval /\ io'.cancel = io.cancel
  BY <1>1 DEF Boundary, Outside
<1> DEFINE n == CHOOSE x \in Unsettled : TRUE
<1>3. n \in Unsettled
  BY <1>1, NewestSend DEF LInv
<1>4. \/ op' = op /\ sends' = SettleSend(n, "ok") /\ batches' = Delivered(n) /\ mem' = Loop(mem)
      \/ mem'.pc = "end" /\ UNCHANGED <<op, sends, batches>>
  BY DriverPoints DEF Boundary, Commit
<1> HIDE DEF n
<1>5. ApprovalLive' => ApprovalLive
  BY <1>2 DEF ApprovalLive
<1>6. CASE op' = op /\ sends' = SettleSend(n, "ok") /\ batches' = Delivered(n) /\ mem' = Loop(mem)
  <2>1. mem'.pc = "loop"
    BY <1>1, <1>6, DriverLoop
  <2> QED
    BY <1>1, <1>3, <1>5, <1>6, <2>1, GenerationClosed, DriverFree DEF LInv, OuterLeaves
<1>7. CASE mem'.pc = "end" /\ UNCHANGED <<op, sends, batches>>
  BY <1>1, <1>5, <1>7, Still DEF OuterLeaves
<1> QED
  BY <1>4, <1>6, <1>7

(* The last generation and the verdict, in one commit.                      *)
LEMMA LedgerKernelBoundary ==
  ASSUME KInv, LInv, KernelBoundary, mem.pc = "act", op.leaf = "closing"
  PROVE  LInv'
<1>0. op \in Operation /\ mem \in Driver /\ io \in Outside
  BY DEF KInv, Position
<1> DEFINE waiting == {x \in Unsettled : sends[x].reply # ""}
           n == CHOOSE x \in waiting : TRUE
<1>1. waiting # {} => n \in Unsettled
  OBVIOUS
<1>2. \/ /\ op' \in {Transition(op, "kernel_settled"),
                     Transition(Transition(op, "kernel_settled"), Running(op.phase))}
         /\ sends' = (IF waiting = {} THEN sends ELSE SettleSend(n, "ok"))
         /\ batches' = (IF waiting = {} THEN batches ELSE Delivered(n))
         /\ mem' = Loop(mem)
         /\ \E x : io' = [io EXCEPT !.input = x]
      \/ mem'.pc = "end" /\ UNCHANGED <<op, sends, batches, io>>
  BY DriverPoints DEF KernelBoundary
<1> HIDE DEF waiting, n
<1>3. CASE mem'.pc = "end" /\ UNCHANGED <<op, sends, batches, io>>
  BY <1>3, LedgerRefused
<1>4. CASE /\ op' \in {Transition(op, "kernel_settled"),
                       Transition(Transition(op, "kernel_settled"), Running(op.phase))}
           /\ sends' = (IF waiting = {} THEN sends ELSE SettleSend(n, "ok"))
           /\ batches' = (IF waiting = {} THEN batches ELSE Delivered(n))
           /\ mem' = Loop(mem)
           /\ \E x : io' = [io EXCEPT !.input = x]
  <2>1. mem'.pc = "loop"
    BY <1>0, <1>4, DriverLoop
  <2>2. io'.approval = io.approval /\ io'.cancel = io.cancel
    BY <1>0, <1>4 DEF Outside
  <2>3. op'.leaf \in {"kernel_settled", "writer_running", "repair_running"}
    BY <1>0, <1>4 DEF Transition, Operation, Running
  <2>4. ApprovalLive' => ApprovalLive
    BY <2>2 DEF ApprovalLive
  <2>5. op'.leaf \notin OuterLeaves /\ "tool_effect_pending" \notin {op.leaf, op'.leaf}
    BY <2>3 DEF OuterLeaves
  <2>6. CASE waiting = {}
    BY <1>4, <2>1, <2>4, <2>5, <2>6, Onward
  <2>7. CASE waiting # {}
    BY <1>1, <1>4, <2>1, <2>4, <2>5, <2>7, GenerationClosed, DriverFree DEF LInv
  <2> QED
    BY <2>6, <2>7
<1> QED
  BY <1>2, <1>3, <1>4

(* close_protocol and its last boundary.                                    *)
LEMMA LedgerClose ==
  ASSUME KInv, LInv, CloseProtocol \/ FinalBoundary
  PROVE  LInv'
<1>0. op \in Operation /\ mem \in Driver /\ io \in Outside
  BY DEF KInv, Position
<1>1. mem.pc = "act" /\ op.leaf = "closing"
  BY DEF CloseProtocol, FinalBoundary, Do, LInv, ChoiceInv, Chosen
<1>2. CASE FinalBoundary
  BY <1>1, <1>2, LedgerKernelBoundary DEF FinalBoundary
<1>3. CASE CloseProtocol
  <2> DEFINE fresh == {b \in OpenBatches : batches[b].turn = op.turn /\ batches[b].tried = {}}
             m == IF op.resp # 0 /\ fresh # {}
                  THEN [mem EXCEPT !.batch = CHOOSE b \in fresh : TRUE] ELSE mem
  <2>1. m \in Driver /\ m.pc = mem.pc
    <3>1. fresh # {} => (CHOOSE b \in fresh : TRUE) \in Nat
      <4>1. fresh \subseteq 1..Len(batches)
        BY Lengths DEF OpenBatches
      <4> QED
        BY <4>1, ChosenMember, Lengths
    <3> HIDE DEF fresh
    <3> QED
      BY <1>0, <3>1, DriverBatch
  <2>2. \/ mem' = Halt(mem, "illegal") /\ UNCHANGED <<op, sends, batches, io>>
        \/ Freeze(m, sends[op.resp].lt, TRUE, op.round + 1) /\ UNCHANGED io
        \/ Save(Close(op), [m EXCEPT !.act = "final_boundary"]) /\ UNCHANGED io
        \/ KernelBoundary
    BY <1>3 DEF CloseProtocol
  <2> HIDE DEF m, fresh
  <2>3. CASE mem' = Halt(mem, "illegal") /\ UNCHANGED <<op, sends, batches, io>>
    BY <1>1, <2>3, DriverPoints, LedgerRefused
  <2>4. CASE Freeze(m, sends[op.resp].lt, TRUE, op.round + 1) /\ UNCHANGED io
    BY <1>1, <2>1, <2>4, LedgerFreeze
  <2>5. CASE Save(Close(op), [m EXCEPT !.act = "final_boundary"]) /\ UNCHANGED io
    <3>1. \/ /\ op' = Close(op) /\ mem' = [m EXCEPT !.act = "final_boundary"]
             /\ UNCHANGED <<sends, batches>>
          \/ mem'.pc = "end" /\ UNCHANGED <<op, sends, batches>>
      BY <2>5, DriverPoints DEF Save, Commit
    <3>2. CASE mem'.pc = "end" /\ UNCHANGED <<op, sends, batches>>
      BY <1>1, <2>5, <3>2, LedgerRefused
    <3>3. CASE /\ op' = Close(op) /\ mem' = [m EXCEPT !.act = "final_boundary"]
               /\ UNCHANGED <<sends, batches>>
      <4>1. op'.leaf = "closing"
        BY <1>0, <3>3, TransitionLeaf
      <4>2. mem'.pc = "act" /\ mem'.act = "final_boundary"
        BY <1>1, <2>1, <3>3 DEF Driver
      <4>3. SameCalls(batches, batches') /\ batches' \in Seq(Batch)
        BY <3>3, Lengths DEF SameCalls
      <4>4. ApprovalLive' => ApprovalLive
        BY <2>5 DEF ApprovalLive
      <4>5. "tool_effect_pending" \notin {op.leaf, op'.leaf} /\ op.leaf # "provider_effect_pending"
        BY <1>1, <4>1
      <4>6. SendsInv' /\ BusyInv' /\ AttemptInv' /\ ApprovalInv' /\ UnsafeOnce'
        BY <1>1, <3>3, <4>3, <4>4, <4>5, SendsKept, BusyKept, AttemptKept, ApprovalKept, OnceKept
        DEF LInv
      <4>7. RestInv' /\ ToolInv' /\ FlightInv' /\ ChoiceInv'
        BY <4>1, <4>2 DEF RestInv, OuterLeaves, ToolInv, FlightInv, ChoiceInv, Chosen
      <4> QED
        BY <4>6, <4>7 DEF LInv
    <3> QED
      BY <3>1, <3>2, <3>3
  <2>6. CASE KernelBoundary
    BY <1>1, <2>6, LedgerKernelBoundary
  <2> QED
    BY <2>2, <2>3, <2>4, <2>5, <2>6
<1> QED
  BY <1>2, <1>3

(* A new send is the only unsettled one.                                    *)
LEMMA SendsBegun ==
  ASSUME KInv, Unsettled = {}, NEW s \in SendRecord, sends' = Append(sends, s)
  PROVE  /\ Len(sends') = Len(sends) + 1
         /\ \A m \in Unsettled' : m = Len(sends) + 1
         /\ \A m \in 1..Len(sends) : sends'[m] = sends[m]
<1>1. /\ sends' \in Seq(SendRecord) /\ Len(sends') = Len(sends) + 1
      /\ \A m \in 1..Len(sends) : sends'[m] = sends[m]
      /\ sends'[Len(sends) + 1] = s
  BY Lengths, AppendProperties
<1>2. \A m \in 1..Len(sends) : sends[m].st # "pending"
  BY Lengths DEF Unsettled
<1>3. Len(sends) \in Nat /\ DOMAIN sends' = 1..Len(sends')
  BY <1>1, Lengths
<1>4. \A m \in 1..Len(sends') : m \in 1..Len(sends) \/ m = Len(sends) + 1
  BY <1>1, <1>3
<1>5. \A m \in Unsettled' : m = Len(sends) + 1
  BY <1>1, <1>2, <1>3, <1>4 DEF Unsettled
<1> QED
  BY <1>1, <1>5

(* admit_provider_request: the batch it carries is settled, and its earlier *)
(* attempts are superseded.                                                 *)
LEMMA LedgerAdmit ==
  ASSUME KInv, LInv, Submit
  PROVE  LInv'
<1> DEFINE n == Len(sends) + 1
           b == op.req.batch
           s == [batch |-> b, close |-> op.req.close, work |-> op.req.work,
                 src |-> op.req.src, lt |-> op.req.lt, st |-> "pending",
                 reply |-> "", ran |-> FALSE]
           row == [batches[b] EXCEPT !.tried = @ \union {n},
                                     !.void  = @ \union ActiveAttempts(b)]
           cs == IF b = 0 THEN batches ELSE [batches EXCEPT ![b] = row]
           o == [Transition(op, "provider_effect_pending") EXCEPT
                   !.turn = n, !.round = op.req.round]
           m == [mem EXCEPT !.pc = "send", !.act = ""]
<1>0. /\ mem.pc = "act" /\ op.leaf = "provider_request_ready" /\ Unsettled = {} /\ io' = io
      /\ op \in Operation /\ mem \in Driver
  BY DEF Submit, Do, LInv, ChoiceInv, Chosen, KInv, Position
<1>1. \/ /\ op' = o /\ sends' = Append(sends, s) /\ batches' = cs /\ mem' = m
         /\ b # 0 => Resendable(b)
      \/ mem'.pc = "end" /\ UNCHANGED <<op, sends, batches>>
  BY DriverPoints DEF Submit, Commit
<1>2. n \in Nat /\ Len(sends) \in Nat /\ Len(batches) \in Nat
  BY Lengths
<1>3. op.req \in Request /\ b \in 0..Len(batches)
  <2>1. op.req \in Request
    BY <1>0 DEF Operation
  <2> QED
    BY <2>1 DEF KInv, Position
<1>4. s \in SendRecord /\ s.st = "pending" /\ s.reply = ""
  BY <1>3 DEF Request, SendRecord
<1>5. o.leaf = "provider_effect_pending" /\ o.turn = n
  <2> HIDE DEF n
  <2> QED
    BY <1>0 DEF Transition, Operation
<1>6. b # 0 => b \in 1..Len(batches) /\ batches[b] \in Batch
  BY <1>2, <1>3, Lengths
<1>7. b # 0 => /\ row \in Batch /\ row.end = batches[b].end
               /\ row.items = batches[b].items /\ row.turn = batches[b].turn
               /\ row.tried = batches[b].tried \union {n}
               /\ row.void = batches[b].void \union ActiveAttempts(b)
  <2> HIDE DEF b, n
  <2>1. ActiveAttempts(b) = batches[b].tried \ batches[b].void
    BY DEF ActiveAttempts
  <2> QED
    BY <1>2, <1>6, <2>1 DEF Batch
<1>8. /\ cs \in Seq(Batch) /\ Len(cs) = Len(batches)
      /\ \A c \in 1..Len(batches) : cs[c] = IF c = b THEN row ELSE batches[c]
  <2> HIDE DEF b, row
  <2>1. CASE b = 0
    BY <2>1, Lengths
  <2>2. CASE b # 0
    BY <2>2, <1>6, <1>7, Lengths, ExceptSeq
  <2> QED
    BY <2>1, <2>2
<1>10. m.pc = "send"
  BY <1>0 DEF Driver
<1>11. CASE mem'.pc = "end" /\ UNCHANGED <<op, sends, batches>>
  BY <1>0, <1>11, LedgerRefused
<1>12. CASE /\ op' = o /\ sends' = Append(sends, s) /\ batches' = cs /\ mem' = m
            /\ b # 0 => Resendable(b)
  <2> HIDE DEF b, s, row, cs, o, m
  <2>0. /\ Len(sends') = n /\ \A k \in Unsettled' : k = n
        /\ \A k \in 1..Len(sends) : sends'[k] = sends[k]
    BY <1>0, <1>4, <1>12, SendsBegun
  <2> HIDE DEF n
  <2>1. SendsInv' /\ \A k \in 1..Len(sends) : sends'[k] = sends[k]
    BY <1>5, <1>12, <2>0 DEF SendsInv
  <2>2. SameCalls(batches, batches') /\ batches' \in Seq(Batch)
    BY <1>6, <1>7, <1>8, <1>12 DEF SameCalls
  <2>3. ApprovalLive' => ApprovalLive
    BY <1>0 DEF ApprovalLive
  <2>4. op'.leaf = "provider_effect_pending" /\ mem'.pc = "send"
    BY <1>5, <1>10, <1>12
  <2>5. BusyInv' /\ ApprovalInv' /\ UnsafeOnce'
    BY <1>0, <2>2, <2>3, <2>4, BusyKept, ApprovalKept, OnceKept DEF LInv
  <2>6. RestInv' /\ ToolInv' /\ ChoiceInv' /\ FlightInv'
    BY <2>4 DEF RestInv, OuterLeaves, ToolInv, ChoiceInv, FlightInv
  <2>7. AttemptInv'
    <3> SUFFICES ASSUME NEW c \in 1..Len(batches)
                 PROVE  /\ batches'[c].tried # {} => FullySettled(c)'
                        /\ \A j, k \in ActiveAttempts(c)' : j = k
                        /\ batches'[c].end = "delivered" =>
                             \E k \in ActiveAttempts(c)' :
                               sends'[k].st = "ok" /\ sends'[k].reply # ""
      BY <2>2 DEF AttemptInv, SameCalls
    <3>1. FullySettled(c)' /\ FullySettled(c)
      <4>1. FullySettled(c)
        BY <1>0, QuietBatches DEF LInv
      <4> QED
        BY <2>2, <4>1 DEF FullySettled, PendingItems, SameCalls
    <3>2. CASE c = b
      <4>1. c # 0 /\ batches'[c] = row
        BY <1>2, <1>8, <1>12, <3>2
      <4>2. ActiveAttempts(c)' = {n}
        <5>1. n \notin batches[c].void
          <6>1. batches[c].void \subseteq 1..Len(sends)
            BY DEF KInv, Ledger
          <6> QED
            BY <1>2, <6>1 DEF n
        <5>2. ActiveAttempts(c)' = (batches[c].tried \union {n}) \
                 (batches[c].void \union (batches[c].tried \ batches[c].void))
          BY <1>7, <3>2, <4>1, Zenon DEF ActiveAttempts
        <5>3. batches[c].tried \subseteq 1..Len(sends)
          BY DEF KInv, Ledger
        <5>4. n \notin batches[c].tried
          BY <1>2, <5>3 DEF n
        <5> QED
          BY <5>1, <5>2, <5>4
      <4>3. batches'[c].end = "open"
        BY <1>7, <1>12, <3>2, <4>1 DEF Resendable, Open
      <4> QED
        BY <3>1, <4>2, <4>3
    <3>3. CASE c # b
      <4>1. batches'[c] = batches[c]
        BY <1>8, <1>12, <3>3
      <4>2. ActiveAttempts(c)' = ActiveAttempts(c)
        BY <4>1 DEF ActiveAttempts
      <4>3. /\ \A j, k \in ActiveAttempts(c) : j = k
            /\ batches[c].end = "delivered" =>
                 \E k \in ActiveAttempts(c) : sends[k].st = "ok" /\ sends[k].reply # ""
        BY DEF LInv, AttemptInv
      <4>4. \A k \in ActiveAttempts(c) : sends'[k] = sends[k]
        BY <2>1, AttemptSends
      <4> QED
        BY <3>1, <4>1, <4>2, <4>3, <4>4
    <3> QED
      BY <3>2, <3>3
  <2> QED
    BY <2>1, <2>5, <2>6, <2>7 DEF LInv
<1> QED
  BY <1>1, <1>11, <1>12

(* A step on the pending send that leaves the batches and the leaf's        *)
(* promises alone.                                                          *)
LEMMA SendTouched ==
  ASSUME KInv, LInv, NEW n \in Unsettled, batches' = batches,
         \A k \in 1..Len(sends) : k # n => sends'[k] = sends[k],
         SendsInv', ApprovalLive' => ApprovalLive,
         op.leaf = "provider_effect_pending",
         op'.leaf \notin OuterLeaves \union {"tool_effect_pending"},
         mem'.pc \in {"loop", "end"} \/ (mem'.pc = "sent" /\ op'.leaf = op.leaf)
  PROVE  LInv'
<1>1. SameCalls(batches, batches') /\ batches' \in Seq(Batch)
  BY Lengths DEF SameCalls
<1>2. "tool_effect_pending" \notin {op.leaf, op'.leaf}
  OBVIOUS
<1>3. BusyInv' /\ ApprovalInv' /\ UnsafeOnce'
  BY <1>1, <1>2, BusyKept, ApprovalKept, OnceKept DEF LInv
<1>4. \A k \in 1..Len(sends) : sends[k].st = "ok" => sends'[k] = sends[k]
  BY DEF Unsettled
<1>5. AttemptInv'
  BY <1>4, AttemptStays DEF LInv
<1>6. RestInv' /\ ToolInv' /\ ChoiceInv' /\ FlightInv'
  BY DEF RestInv, ToolInv, ChoiceInv, FlightInv
<1> QED
  BY <1>3, <1>5, <1>6 DEF LInv

(* execute_request reaches the provider, and its reply is recorded.         *)
LEMMA LedgerFlight ==
  ASSUME KInv, LInv, Send \/ \E reply \in Replies : Receive(reply)
  PROVE  LInv'
<1> DEFINE n == op.turn
<1>0. op \in Operation /\ mem \in Driver /\ mem.pc \in {"send", "sent"}
  BY DEF KInv, Position, Send, Receive
<1>1. n = Len(sends) /\ n \in 1..Len(sends) /\ sends[n].st = "pending"
      /\ op.leaf = "provider_effect_pending"
  BY <1>0, Lengths DEF KInv, InFlight, LInv, FlightInv
<1>2. sends[n] \in SendRecord /\ n \in Unsettled
  BY <1>1, Lengths DEF Unsettled
<1>3. \A k \in 1..Len(sends) : k # n => sends[k].st # "pending"
  BY <1>1, Lengths DEF LInv, SendsInv, Unsettled
<1>4. ASSUME NEW r \in SendRecord, sends' = [sends EXCEPT ![n] = r]
      PROVE  /\ Len(sends') = Len(sends) /\ DOMAIN sends' = 1..Len(sends)
             /\ \A k \in 1..Len(sends) : k # n => sends'[k] = sends[k]
             /\ sends'[n] = r
             /\ \A k \in Unsettled' : k = Len(sends')
  <2>1. /\ [sends EXCEPT ![n] = r] \in Seq(SendRecord)
        /\ Len([sends EXCEPT ![n] = r]) = Len(sends)
        /\ \A k \in 1..Len(sends) :
             [sends EXCEPT ![n] = r][k] = IF k = n THEN r ELSE sends[k]
    BY <1>1, Lengths, ExceptSeq
  <2>2. sends' \in Seq(SendRecord) /\ Len(sends') = Len(sends)
        /\ \A k \in 1..Len(sends) : sends'[k] = IF k = n THEN r ELSE sends[k]
    BY <1>4, <2>1
  <2>3. DOMAIN sends' = 1..Len(sends)
    BY <2>2
  <2> HIDE DEF n
  <2> QED
    BY <1>1, <1>3, <2>2, <2>3 DEF Unsettled
<1>5. CASE Send
  <2> DEFINE r == [sends[n] EXCEPT !.ran = TRUE]
  <2>1. r \in SendRecord /\ r.reply = sends[n].reply
    BY <1>2 DEF SendRecord
  <2>2. sends' = [sends EXCEPT ![n] = r] /\ UNCHANGED <<op, batches, io>>
    BY <1>5 DEF Send
  <2>3. mem'.pc = "sent"
    BY <1>0, <1>5 DEF Send, Driver
  <2> HIDE DEF r
  <2>4. /\ Len(sends') = Len(sends)
        /\ \A k \in 1..Len(sends) : k # n => sends'[k] = sends[k]
        /\ \A k \in Unsettled' : k = Len(sends')
    BY <1>4, <2>1, <2>2
  <2>5. SendsInv'
    BY <1>1, <2>2, <2>4 DEF SendsInv
  <2>6. ApprovalLive' => ApprovalLive
    BY <2>2 DEF ApprovalLive
  <2> QED
    BY <1>1, <1>2, <2>2, <2>3, <2>4, <2>5, <2>6, SendTouched DEF OuterLeaves
<1>6. ASSUME NEW reply \in Replies, Receive(reply) PROVE LInv'
  <2> DEFINE r == [sends[n] EXCEPT !.reply = reply]
             o == [Transition(op, "provider_response_ready") EXCEPT !.resp = n]
             m == [mem EXCEPT !.batch = 0]
  <2>1. r \in SendRecord /\ r.reply # ""
    <3>1. reply \in AllReplies
      BY RepliesAssumption
    <3> QED
      BY <1>2, <3>1 DEF SendRecord, AllReplies
  <2>2. \/ /\ op' = o /\ sends' = [sends EXCEPT ![n] = r] /\ mem' = Loop(m)
           /\ UNCHANGED <<batches, io>>
        \/ mem'.pc = "end" /\ UNCHANGED <<op, sends, batches, io>>
    BY <1>6, DriverPoints DEF Receive, Commit
  <2>3. o.leaf = "provider_response_ready" /\ Loop(m).pc = "loop"
    BY <1>0, DriverPoints DEF Transition, Operation
  <2> HIDE DEF r, o, m
  <2>4. CASE mem'.pc = "end" /\ UNCHANGED <<op, sends, batches, io>>
    BY <1>0, <2>4, LedgerRefused
  <2>5. CASE /\ op' = o /\ sends' = [sends EXCEPT ![n] = r] /\ mem' = Loop(m)
             /\ UNCHANGED <<batches, io>>
    <3>1. /\ Len(sends') = Len(sends) /\ sends'[n] = r
          /\ \A k \in 1..Len(sends) : k # n => sends'[k] = sends[k]
          /\ \A k \in Unsettled' : k = Len(sends')
      BY <1>4, <2>1, <2>5
    <3>2. SendsInv'
      BY <1>1, <2>1, <3>1 DEF SendsInv
    <3>3. ApprovalLive' => ApprovalLive
      BY <2>5 DEF ApprovalLive
    <3> QED
      BY <1>1, <1>2, <2>3, <2>5, <3>1, <3>2, <3>3, SendTouched DEF OuterLeaves
  <2> QED
    BY <2>2, <2>4, <2>5
<1> QED
  BY <1>5, <1>6

(* The provider failed, or nobody knows whether it was reached.             *)
LEMMA LedgerSendFails ==
  ASSUME KInv, LInv, SettleUnknown \/ \E st \in {"not_sent", "maybe_sent"} : SendFails(st)
  PROVE  LInv'
<1> DEFINE n == op.turn
<1>0. op \in Operation /\ mem \in Driver /\ io \in Outside
  BY DEF KInv, Position
<1>1. PICK st \in {"not_sent", "maybe_sent"} :
        SendFails(st) \/ (st = "maybe_sent" /\ SettleUnknown)
  BY Zenon
<1>2. n \in Unsettled /\ op.leaf = "provider_effect_pending" /\ mem.pc # "off"
  <2>1. CASE SendFails(st)
    <3>1. mem.pc \in {"send", "sent"}
      BY <2>1 DEF SendFails
    <3>2. Len(sends) > 0 /\ n = Len(sends) /\ sends[n].st = "pending"
      BY <3>1 DEF KInv, InFlight
    <3> QED
      BY <3>1, <3>2, Lengths DEF Unsettled, LInv, FlightInv
  <2>2. CASE SettleUnknown
    BY <2>2 DEF KInv, Decision, SettleUnknown, Do, LInv, ChoiceInv, Chosen
  <2> QED
    BY <1>1, <2>1, <2>2
<1>3. io'.approval = io.approval /\ io'.cancel = io.cancel
  <2>1. PICK f : io' = io \/ io' = [io EXCEPT !.faults = f]
    BY <1>1, Zenon DEF SendFails, SettleUnknown
  <2> QED
    BY <1>0, <2>1 DEF Outside
<1>4. \/ /\ op' = FailedSend(n, st) /\ sends' = SettleSend(n, st)
         /\ mem'.pc = "end" /\ UNCHANGED batches
      \/ mem'.pc = "end" /\ UNCHANGED <<op, sends, batches>>
  BY <1>1, DriverPoints DEF SendFails, SettleUnknown, Commit
<1>5. FailedSend(n, st).leaf \in {"control_ready", "tool_delivery_pending",
                                  "writer_running", "repair_running"}
  <2> DEFINE b == sends[n].batch
             t == Transition(op, "tool_delivery_pending")
             d == [t EXCEPT !.turn = batches[b].turn, !.lt = batches[b].turn]
  <2>1. FailedSend(n, st) \in {Transition(op, "control_ready"),
                               Transition(op, Running(op.phase)), d}
    <3>1. CASE op.work # ""
      BY <3>1 DEF FailedSend
    <3>2. CASE op.work = ""
      BY <3>2 DEF FailedSend
    <3> QED
      BY <3>1, <3>2
  <2>2. d.leaf = "tool_delivery_pending"
    <3> HIDE DEF b
    <3> QED
      BY <1>0 DEF Transition, Operation
  <2> HIDE DEF d, n
  <2> QED
    BY <1>0, <2>1, <2>2, TransitionLeaf DEF Running
<1>6. ApprovalLive' => ApprovalLive
  BY <1>3 DEF ApprovalLive
<1> HIDE DEF n
<1>7. CASE mem'.pc = "end" /\ UNCHANGED <<op, sends, batches>>
  BY <1>2, <1>6, <1>7, Still DEF OuterLeaves
<1>8. CASE /\ op' = FailedSend(n, st) /\ sends' = SettleSend(n, st)
           /\ mem'.pc = "end" /\ UNCHANGED batches
  <2>1. SendsInv' /\ \A k \in 1..Len(sends) : k # n => sends'[k] = sends[k]
    BY <1>2, <1>8, SendsSettled DEF LInv
  <2> QED
    BY <1>2, <1>5, <1>6, <1>8, <2>1, SendTouched DEF OuterLeaves
<1> QED
  BY <1>4, <1>7, <1>8

-----------------------------------------------------------------------------
(* Tool calls and their outcomes.                                          *)

(* A set of numbers has a least one.                                        *)
LEMMA LeastNumber ==
  ASSUME NEW S \in SUBSET Nat, S # {}
  PROVE  \E x \in S : \A y \in S : x <= y
<1> DEFINE R == OpToRel(<, Nat)
<1>1. IsWellFoundedOn(R, Nat)
  BY NatLessThanWellFounded
<1>2. \A x, y \in Nat : x < y => <<x, y>> \in R
  BY DEF OpToRel
<1> HIDE DEF R
<1>3. \E x \in S : \A y \in S : ~ (<<y, x>> \in R)
  BY <1>1, WFMin
<1>4. \E x \in S : \A y \in S : ~ (y < x)
  BY <1>2, <1>3, Zenon
<1> QED
  BY <1>4

(* The first pending call of the newest batch is one of them.               *)
LEMMA FirstPending ==
  ASSUME KInv, BusyInv, op.leaf = "tool_effect_pending"
  PROVE  (CHOOSE x \in PendingItems(Newest) : \A y \in PendingItems(Newest) : x <= y)
           \in PendingItems(Newest)
<1>1. Newest \in 1..Len(batches) /\ PendingItems(Newest) # {}
      /\ PendingItems(Newest) \subseteq DOMAIN batches[Newest].items
  BY NewestPending
<1>2. batches[Newest].items \in Seq(Item)
  BY <1>1, FirstCall
<1>3. DOMAIN batches[Newest].items \subseteq Nat
  BY <1>2
<1>4. PendingItems(Newest) \in SUBSET Nat
  BY <1>1, <1>3
<1>5. \E x \in PendingItems(Newest) : \A y \in PendingItems(Newest) : x <= y
  BY <1>1, <1>4, LeastNumber
<1> QED
  BY <1>5

(* One call of the newest batch takes its outcome; the last pending one     *)
(* makes the batch deliverable.                                             *)
LEMMA OutcomeKept ==
  ASSUME KInv, LInv, op.leaf = "tool_effect_pending", batches' \in Seq(Batch),
         NEW i \in DOMAIN batches[Newest].items, NEW st, st # "pending",
         OneOutcome(batches, batches', Newest, i, st), sends' = sends,
         PendingItems(Newest) = {i} => op'.leaf = "tool_delivery_pending",
         PendingItems(Newest) # {i} => op' = op
  PROVE  /\ SendsInv' /\ BusyInv' /\ AttemptInv' /\ RestInv' /\ UnsafeOnce'
         /\ Newest' = Newest /\ Shell(Newest)' = Shell(Newest)
         /\ PendingItems(Newest)' = PendingItems(Newest) \ {i}
         /\ \A j \in PendingItems(Newest) : Unrun(Newest, j) => Unrun(Newest, j)'
<1>1. /\ Newest \in 1..Len(batches) /\ PendingItems(Newest) # {}
      /\ PendingItems(Newest) \subseteq DOMAIN batches[Newest].items
      /\ 1 \in DOMAIN batches[Newest].items
      /\ BusyBatches = {Newest} /\ batches[Newest].turn = op.turn
  BY NewestPending, FirstCall DEF LInv, BusyInv
<1>2. /\ Len(batches') = Len(batches)
      /\ DOMAIN batches = 1..Len(batches) /\ DOMAIN batches' = 1..Len(batches)
  BY Lengths DEF OneOutcome, SameHeads
<1>3. Newest' = Newest
  BY <1>2 DEF Newest
<1>4. \A c \in 1..Len(batches) : c # Newest => PendingItems(c)' = PendingItems(c)
  BY DEF OneOutcome, SameHeads, PendingItems
<1>5. PendingItems(Newest)' = PendingItems(Newest) \ {i}
  <2>1. /\ DOMAIN batches'[Newest].items = DOMAIN batches[Newest].items
        /\ \A j \in DOMAIN batches[Newest].items :
             batches'[Newest].items[j].st = IF j = i THEN st ELSE batches[Newest].items[j].st
    BY <1>1 DEF OneOutcome, SameHeads
  <2> QED
    BY <1>3, <2>1 DEF PendingItems
<1>6. \A c \in 1..Len(batches) : c # Newest => PendingItems(c) = {}
  BY <1>1, <1>2 DEF BusyBatches, FullySettled
<1>7. Shell(Newest)' = Shell(Newest)
  BY <1>1, <1>3 DEF Shell, OneOutcome, SameHeads
<1>8. \A j \in PendingItems(Newest) : Unrun(Newest, j) => Unrun(Newest, j)'
  BY <1>1, <1>3 DEF Unrun, OneOutcome, SameHeads
<1>9. SendsInv' /\ RestInv'
  <2>1. op'.leaf \in {"tool_effect_pending", "tool_delivery_pending"}
    OBVIOUS
  <2> QED
    BY <2>1, SendsKept DEF LInv, RestInv, OuterLeaves
<1>10. BusyInv'
  <2>1. BusyBatches' = {c \in 1..Len(batches) : PendingItems(c)' # {}}
    BY <1>2 DEF BusyBatches, FullySettled
  <2>2. batches'[Newest].turn = batches[Newest].turn
    BY <1>1 DEF OneOutcome, SameHeads
  <2>3. CASE PendingItems(Newest) = {i}
    <3>1. \A c \in 1..Len(batches) : PendingItems(c)' = {}
      BY <1>3, <1>4, <1>5, <1>6, <2>3
    <3> QED
      BY <2>1, <2>3, <3>1 DEF BusyInv
  <2>4. CASE PendingItems(Newest) # {i}
    <3>1. PendingItems(Newest)' # {}
      BY <1>1, <1>5, <2>4
    <3>2. BusyBatches' = {Newest}
      BY <1>1, <1>3, <1>4, <1>6, <2>1, <3>1
    <3> QED
      BY <1>1, <1>3, <2>2, <2>4, <3>2 DEF BusyInv
  <2> QED
    BY <2>3, <2>4
<1>11. AttemptInv'
  <2> SUFFICES ASSUME NEW c \in 1..Len(batches)
               PROVE  /\ batches'[c].tried # {} => FullySettled(c)'
                      /\ \A m, n \in ActiveAttempts(c)' : m = n
                      /\ batches'[c].end = "delivered" =>
                           \E n \in ActiveAttempts(c)' :
                             sends'[n].st = "ok" /\ sends'[n].reply # ""
    BY <1>2 DEF AttemptInv
  <2>1. /\ batches'[c].tried = batches[c].tried /\ batches'[c].end = batches[c].end
        /\ ActiveAttempts(c)' = ActiveAttempts(c)
    BY DEF OneOutcome, SameHeads, ActiveAttempts
  <2>2. /\ batches[c].tried # {} => FullySettled(c)
        /\ \A m, n \in ActiveAttempts(c) : m = n
        /\ batches[c].end = "delivered" =>
             \E n \in ActiveAttempts(c) : sends[n].st = "ok" /\ sends[n].reply # ""
    BY DEF LInv, AttemptInv
  <2>3. FullySettled(c) => FullySettled(c)'
    <3>1. CASE c = Newest
      BY <1>1, <3>1 DEF FullySettled
    <3>2. CASE c # Newest
      BY <1>4, <3>2 DEF FullySettled
    <3> QED
      BY <3>1, <3>2
  <2> QED
    BY <2>1, <2>2, <2>3
<1>12. UnsafeOnce'
  <2> SUFFICES ASSUME NEW c \in 1..Len(batches), NEW j \in DOMAIN batches'[c].items,
                      ~IsSafe(batches'[c].items[j].kind)
               PROVE  batches'[c].items[j].runs <= 1
    BY <1>2 DEF UnsafeOnce
  <2>1. j \in DOMAIN batches[c].items /\ ~IsSafe(batches[c].items[j].kind)
        /\ batches'[c].items[j].runs = batches[c].items[j].runs
    BY DEF OneOutcome, SameHeads
  <2> QED
    BY <1>2, <2>1 DEF LInv, UnsafeOnce
<1> QED
  BY <1>3, <1>5, <1>7, <1>8, <1>9, <1>10, <1>11, <1>12

(* SettleItem on a call of the newest batch.                                *)
LEMMA SettledItem ==
  ASSUME KInv, LInv, op.leaf = "tool_effect_pending", NEW i \in DOMAIN batches[Newest].items,
         NEW st \in {"ok", "error", "interrupted"}, NEW m, SettleItem(Newest, i, st, m),
         io' = io, mem.pc # "off"
  PROVE  \/ mem'.pc = "end" /\ LInv'
         \/ /\ mem' = m
            /\ SendsInv' /\ BusyInv' /\ AttemptInv' /\ RestInv' /\ UnsafeOnce'
            /\ Newest' = Newest /\ Shell(Newest)' = Shell(Newest)
            /\ PendingItems(Newest)' = PendingItems(Newest) \ {i}
            /\ \A j \in PendingItems(Newest) : Unrun(Newest, j) => Unrun(Newest, j)'
            /\ PendingItems(Newest) # {i} => op' = op
<1>0. op \in Operation
  BY DEF KInv, Position
<1>1. \/ /\ op' = IF PendingItems(Newest) = {i} THEN Transition(op, "tool_delivery_pending")
                  ELSE op
         /\ sends' = sends /\ batches' = WithOutcome(batches, Newest, i, st) /\ mem' = m
      \/ mem'.pc = "end" /\ UNCHANGED <<op, sends, batches>>
  BY DriverPoints DEF SettleItem, Commit, WithOutcome
<1>2. CASE mem'.pc = "end" /\ UNCHANGED <<op, sends, batches>>
  BY <1>2, LedgerRefused
<1>3. CASE /\ op' = IF PendingItems(Newest) = {i} THEN Transition(op, "tool_delivery_pending")
                    ELSE op
           /\ sends' = sends /\ batches' = WithOutcome(batches, Newest, i, st) /\ mem' = m
  <2>1. Newest \in 1..Len(batches)
    BY NewestPending DEF LInv
  <2>2. batches \in Seq(Batch) /\ batches' \in Seq(Batch)
    BY <1>3, Lengths, BatchItem DEF SameAttempts
  <2>3. OneOutcome(batches, batches', Newest, i, st)
    BY <1>3, <2>1, <2>2, OutcomeRows
  <2>4. PendingItems(Newest) = {i} => op'.leaf = "tool_delivery_pending"
    BY <1>0, <1>3, TransitionLeaf
  <2>5. PendingItems(Newest) # {i} => op' = op
    BY <1>3
  <2> QED
    BY <1>3, <2>2, <2>3, <2>4, <2>5, OutcomeKept
<1> QED
  BY <1>1, <1>2, <1>3

(* A slot of the batch in hand is skipped or settled.                       *)
LEMMA LedgerSlot ==
  ASSUME KInv, LInv, SkipSlot \/ \E st \in {"ok", "error"} : SettleSlot(st)
  PROVE  LInv'
<1>0. mem \in Driver /\ mem.pc \in {"tools", "ran"} /\ io' = io
  BY DEF KInv, SkipSlot, SettleSlot
<1>1. op.leaf = "tool_effect_pending" /\ mem.batch = Newest /\ ~Shell(Newest)
  BY <1>0 DEF LInv, ToolInv
<1>2. \A j \in PendingItems(Newest) : j = Slot \/ Unrun(Newest, j)
  BY <1>0 DEF LInv, ToolInv
<1>3. PICK st \in {"ok", "error"} : SettleItem(Newest, Slot, st, AfterSlot)
  BY <1>1 DEF SkipSlot, SettleSlot
<1>4. PICK i \in DOMAIN batches[Newest].items : i = Slot
  <2>1. Slot \in PendingItems(Newest)
    BY <1>1, FirstPending DEF LInv, Slot
  <2> QED
    BY <1>1, <2>1, NewestPending DEF LInv
<1>5. /\ PendingItems(Newest) = {i} => AfterSlot.pc = "loop"
      /\ PendingItems(Newest) # {i} => AfterSlot.pc = "tools" /\ AfterSlot.batch = mem.batch
  BY <1>0, <1>1, <1>4 DEF AfterSlot, Loop, Driver
<1>6. ~ApprovalLive'
  BY <1>0, <1>1 DEF LInv, ApprovalInv, ApprovalLive
<1>7. SettleItem(Newest, i, st, AfterSlot)
  BY <1>3, <1>4
<1>8. \/ mem'.pc = "end" /\ LInv'
      \/ /\ mem' = AfterSlot
         /\ SendsInv' /\ BusyInv' /\ AttemptInv' /\ RestInv' /\ UnsafeOnce'
         /\ Newest' = Newest /\ Shell(Newest)' = Shell(Newest)
         /\ PendingItems(Newest)' = PendingItems(Newest) \ {i}
         /\ \A j \in PendingItems(Newest) : Unrun(Newest, j) => Unrun(Newest, j)'
         /\ PendingItems(Newest) # {i} => op' = op
  BY <1>0, <1>1, <1>7, SettledItem
<1>9. CASE ~LInv'
  <2>1. /\ mem' = AfterSlot
        /\ SendsInv' /\ BusyInv' /\ AttemptInv' /\ RestInv' /\ UnsafeOnce'
        /\ Newest' = Newest /\ Shell(Newest)' = Shell(Newest)
        /\ PendingItems(Newest)' = PendingItems(Newest) \ {i}
        /\ \A j \in PendingItems(Newest) : Unrun(Newest, j) => Unrun(Newest, j)'
        /\ PendingItems(Newest) # {i} => op' = op
    BY <1>8, <1>9
  <2>2. ApprovalInv'
    BY <1>6 DEF ApprovalInv
  <2>3. CASE PendingItems(Newest) = {i}
    BY <1>5, <2>1, <2>2, <2>3, DriverFree DEF LInv
  <2>4. CASE PendingItems(Newest) # {i}
    <3>1. mem'.pc = "tools" /\ mem'.batch = Newest /\ op'.leaf = "tool_effect_pending"
      BY <1>1, <1>5, <2>1, <2>4
    <3>2. \A j \in PendingItems(Newest)' : Unrun(Newest, j)'
      BY <1>2, <1>4, <2>1
    <3>3. ~Shell(Newest)'
      BY <1>1, <2>1
    <3>4. ToolInv'
      BY <2>1, <3>1, <3>2, <3>3 DEF ToolInv
    <3>5. ChoiceInv' /\ FlightInv'
      BY <3>1 DEF ChoiceInv, FlightInv
    <3> QED
      BY <2>1, <2>2, <3>4, <3>5 DEF LInv
  <2> QED
    BY <2>3, <2>4
<1> QED
  BY <1>9

(* The command's item takes the receipt of its approval.                    *)
LEMMA LedgerReconcile ==
  ASSUME KInv, LInv, Reconcile
  PROVE  LInv'
<1>0. mem \in Driver /\ mem.pc = "act" /\ io' = io /\ Chosen("reconcile")
  BY DEF KInv, Reconcile, Do, LInv, ChoiceInv
<1>1. /\ op.leaf = "tool_effect_pending" /\ Shell(Newest)
      /\ VerdictIn \/ io.cancel
  BY <1>0 DEF Chosen
<1>2. CASE ReceiptMissing \/ io.approval = "denied"
  <2>1. mem'.pc = "end" /\ UNCHANGED <<op, sends, batches>>
    BY <1>2, DriverPoints DEF Reconcile
  <2> QED
    BY <1>0, <2>1, LedgerRefused
<1>3. CASE ~(ReceiptMissing \/ io.approval = "denied")
  <2>1. PICK st \in {"ok", "error"} : SettleItem(Newest, 1, st, Loop(mem))
    BY <1>1, <1>3, NewestPending DEF Reconcile, LInv
  <2>2. ~ApprovalLive'
    BY <1>0, <1>1, <1>3 DEF ApprovalLive, VerdictIn, ReceiptMissing
  <2>3. 1 \in DOMAIN batches[Newest].items
    BY <1>1, NewestPending, FirstCall DEF LInv
  <2>4. \/ LInv'
        \/ /\ mem' = Loop(mem)
           /\ SendsInv' /\ BusyInv' /\ AttemptInv' /\ RestInv' /\ UnsafeOnce'
    BY <1>0, <1>1, <2>1, <2>3, SettledItem
  <2>5. Loop(mem).pc = "loop"
    BY DriverPoints
  <2> QED
    BY <2>2, <2>4, <2>5, DriverFree DEF LInv, ApprovalInv
<1> QED
  BY <1>2, <1>3

(* Calls nobody can repeat are marked interrupted, one after the other.     *)
LEMMA LedgerSynthesize ==
  ASSUME KInv, LInv, Synthesize
  PROVE  LInv'
<1> DEFINE i == CHOOSE x \in PendingItems(Newest) : \A y \in PendingItems(Newest) : x <= y
           m == IF PendingItems(Newest) = {i} THEN Halt(mem, "unknown") ELSE mem
<1>0. /\ mem \in Driver /\ mem.pc = "act" /\ mem.act = "synthesize" /\ io' = io
      /\ Chosen("synthesize")
  BY DEF KInv, Synthesize, Do, LInv, ChoiceInv
<1>1. op.leaf = "tool_effect_pending" /\ (io.approval = "none" \/ ~Shell(Newest))
  BY <1>0 DEF Chosen
<1>2. SettleItem(Newest, i, "interrupted", m)
  BY <1>1, NewestPending DEF Synthesize, LInv
<1>3. i \in DOMAIN batches[Newest].items
  <2>1. i \in PendingItems(Newest)
    BY <1>1, FirstPending DEF LInv
  <2> QED
    BY <1>1, <2>1, NewestPending DEF LInv
<1>4. /\ PendingItems(Newest) = {i} => m.pc = "end"
      /\ PendingItems(Newest) # {i} => m = mem
  BY DriverPoints
<1>5. ~ApprovalLive'
  BY <1>0, <1>1 DEF LInv, ApprovalInv, ApprovalLive
<1> HIDE DEF i, m
<1>6. \/ mem'.pc = "end" /\ LInv'
      \/ /\ mem' = m
         /\ SendsInv' /\ BusyInv' /\ AttemptInv' /\ RestInv' /\ UnsafeOnce'
         /\ Newest' = Newest /\ Shell(Newest)' = Shell(Newest)
         /\ PendingItems(Newest) # {i} => op' = op
  BY <1>0, <1>1, <1>2, <1>3, SettledItem
<1>7. CASE ~LInv'
  <2>1. /\ mem' = m
        /\ SendsInv' /\ BusyInv' /\ AttemptInv' /\ RestInv' /\ UnsafeOnce'
        /\ Newest' = Newest /\ Shell(Newest)' = Shell(Newest)
        /\ PendingItems(Newest) # {i} => op' = op
    BY <1>6, <1>7
  <2>2. ApprovalInv'
    BY <1>5 DEF ApprovalInv
  <2>3. CASE PendingItems(Newest) = {i}
    BY <1>4, <2>1, <2>2, <2>3, DriverFree DEF LInv
  <2>4. CASE PendingItems(Newest) # {i}
    <3>1. mem' = mem /\ op' = op
      BY <1>4, <2>1, <2>4
    <3>2. ChoiceInv'
      BY <1>0, <1>1, <2>1, <3>1 DEF ChoiceInv, Chosen
    <3>3. ToolInv' /\ FlightInv'
      BY <1>0, <3>1 DEF ToolInv, FlightInv
    <3> QED
      BY <2>1, <2>2, <3>2, <3>3 DEF LInv
  <2> QED
    BY <2>3, <2>4
<1> QED
  BY <1>7

(* A slot of the batch in hand runs.                                        *)
LEMMA LedgerRunSlot ==
  ASSUME KInv, LInv, RunSlot
  PROVE  LInv'
<1>0. /\ mem \in Driver /\ mem.pc = "tools" /\ UNCHANGED <<op, sends, io>>
      /\ mem'.pc = "ran" /\ mem'.batch = mem.batch
  BY DEF KInv, RunSlot, Driver
<1>1. op.leaf = "tool_effect_pending" /\ mem.batch = Newest /\ ~Shell(Newest)
      /\ \A j \in PendingItems(Newest) : Unrun(Newest, j)
  BY <1>0 DEF LInv, ToolInv
<1>2. PICK i \in PendingItems(Newest) : i = Slot
  BY <1>1, FirstPending DEF LInv, Slot
<1>3. Newest \in 1..Len(batches) /\ i \in DOMAIN batches[Newest].items
      /\ 1 \in DOMAIN batches[Newest].items
  BY <1>1, NewestPending, FirstCall DEF LInv
<1>4. batches' = WithRun(batches, Newest, i)
  BY <1>1, <1>2 DEF RunSlot, WithRun
<1>5. batches \in Seq(Batch) /\ batches' \in Seq(Batch)
  BY <1>4, Lengths, BatchRuns DEF SameAttempts
<1>6. OneRun(batches, batches', Newest, i)
  BY <1>3, <1>4, <1>5, RunRows
<1>7. SendsInv' /\ BusyInv' /\ AttemptInv' /\ UnsafeOnce'
  BY <1>0, <1>1, <1>3, <1>5, <1>6, RanOnce
<1>8. /\ Newest' = Newest /\ Shell(Newest)' = Shell(Newest)
      /\ PendingItems(Newest)' = PendingItems(Newest)
  <2>1. /\ Newest' = Newest
        /\ \A c \in 1..Len(batches) :
             /\ PendingItems(c)' = PendingItems(c)
             /\ 1 \in DOMAIN batches[c].items => Shell(c)' = Shell(c)
    BY <1>5, <1>6, RanRows
  <2> QED
    BY <1>3, <2>1 DEF PendingItems, Shell
<1>9. Slot' = Slot
  BY <1>0, <1>1, <1>8 DEF Slot, PendingItems
<1>10. \A j \in PendingItems(Newest) : j = Slot \/ Unrun(Newest, j)'
  <2>1. PendingItems(Newest) \subseteq DOMAIN batches[Newest].items
    BY DEF PendingItems
  <2> QED
    BY <1>1, <1>2, <1>3, <1>6, <1>8, <2>1 DEF Unrun, OneRun, SameHeads
<1>11. ~ApprovalLive'
  BY <1>0, <1>1 DEF LInv, ApprovalInv, ApprovalLive
<1>12. ApprovalInv' /\ RestInv'
  BY <1>0, <1>1, <1>11 DEF ApprovalInv, RestInv, OuterLeaves
<1>13. ToolInv'
  BY <1>0, <1>1, <1>8, <1>9, <1>10 DEF ToolInv
<1>14. ChoiceInv' /\ FlightInv'
  BY <1>0 DEF ChoiceInv, FlightInv
<1> QED
  BY <1>7, <1>12, <1>13, <1>14 DEF LInv

(* A batch of calls that may be repeated is taken up again.                 *)
LEMMA LedgerReplay ==
  ASSUME KInv, LInv, ReplayBatch
  PROVE  LInv'
<1>0. /\ mem \in Driver /\ mem.pc = "act" /\ UNCHANGED <<op, sends, batches, io>>
      /\ Chosen("replay")
  BY DEF KInv, ReplayBatch, Do, LInv, ChoiceInv
<1>1. op.leaf = "tool_effect_pending" /\ AllSafe(Newest)
  BY <1>0 DEF Chosen
<1>2. (CHOOSE x \in PendingTools : TRUE) = Newest
  BY <1>1, NewestPending DEF LInv
<1>3. mem'.pc = "tools" /\ mem'.batch = Newest
  <2>1. mem' = [mem EXCEPT !.pc = "tools", !.act = "", !.batch = Newest]
    BY <1>1, <1>2 DEF ReplayBatch
  <2> QED
    BY <1>0, <2>1 DEF Driver
<1>4. 1 \in DOMAIN batches[Newest].items
      /\ PendingItems(Newest) \subseteq DOMAIN batches[Newest].items
  BY <1>1, NewestPending, FirstCall DEF LInv
<1>5. ~Shell(Newest) /\ \A j \in PendingItems(Newest) : Unrun(Newest, j)
  BY <1>1, <1>4 DEF Shell, Unrun, AllSafe, IsSafe
<1>6. SameCalls(batches, batches') /\ batches' \in Seq(Batch)
  BY <1>0, Lengths DEF SameCalls
<1>7. SendsInv' /\ BusyInv' /\ AttemptInv' /\ ApprovalInv' /\ UnsafeOnce'
  BY <1>0, <1>6, SendsKept, BusyKept, AttemptKept, ApprovalKept, OnceKept DEF LInv, ApprovalLive
<1>8. RestInv' /\ ChoiceInv' /\ FlightInv'
  BY <1>0, <1>1, <1>3 DEF RestInv, OuterLeaves, ChoiceInv, FlightInv
<1>9. ToolInv'
  BY <1>0, <1>1, <1>3, <1>5 DEF ToolInv, Newest, Shell, Unrun, PendingItems
<1> QED
  BY <1>7, <1>8, <1>9 DEF LInv

(* create_approval, a commit after the batch's.                             *)
LEMMA LedgerRequestApproval ==
  ASSUME KInv, LInv, RequestApproval
  PROVE  LInv'
<1>0. mem.pc = "ask" /\ UNCHANGED <<op, sends, batches>> /\ mem'.pc \in {"loop", "end"}
  BY DriverPoints DEF RequestApproval
<1>1. op.leaf = "tool_effect_pending" /\ Shell(Newest) /\ Unrun(Newest, 1)
  BY <1>0 DEF LInv, ToolInv
<1>2. SameCalls(batches, batches') /\ batches' \in Seq(Batch)
  BY <1>0, Lengths DEF SameCalls
<1>3. SendsInv' /\ BusyInv' /\ AttemptInv' /\ UnsafeOnce'
  BY <1>0, <1>2, SendsKept, BusyKept, AttemptKept, OnceKept DEF LInv
<1>4. ApprovalInv' /\ RestInv'
  BY <1>0, <1>1 DEF ApprovalInv, RestInv, OuterLeaves, Newest, Shell, Unrun
<1> QED
  BY <1>0, <1>3, <1>4, DriverFree DEF LInv

(* The calls of a reply are new: pending, not run, and a command is alone.  *)
LEMMA CallsOf ==
  ASSUME NEW reply, NEW items,
         items = [i \in DOMAIN ItemsOf(reply) |->
                    [kind |-> ItemsOf(reply)[i], st |-> "pending", runs |-> 0]]
  PROVE  /\ 1 \in DOMAIN items
         /\ \A i \in DOMAIN items : items[i].st = "pending" /\ items[i].runs = 0
         /\ items[1].kind = "shell" <=> reply = "shell"
<1> DEFINE kinds == ItemsOf(reply)
<1>1. 1 \in DOMAIN kinds /\ (kinds[1] = "shell" <=> reply = "shell")
  <2>1. CASE reply = "mixed"
    BY <2>1 DEF ItemsOf
  <2>2. CASE reply = "shell"
    BY <2>2 DEF ItemsOf
  <2>3. CASE reply = "answer"
    BY <2>3 DEF ItemsOf
  <2>4. CASE reply \notin {"mixed", "shell", "answer"}
    BY <2>4 DEF ItemsOf
  <2> QED
    BY <2>1, <2>2, <2>3, <2>4
<1> HIDE DEF kinds
<1>2. items = [i \in DOMAIN kinds |-> [kind |-> kinds[i], st |-> "pending", runs |-> 0]]
  BY DEF kinds
<1> QED
  BY <1>1, <1>2

(* The calls of a turn begin: they are the only pending ones.               *)
LEMMA LedgerBeginBatch ==
  ASSUME KInv, LInv, BeginBatch
  PROVE  LInv'
<1> DEFINE s == sends[op.resp]
           kinds == ItemsOf(s.reply)
           b == Len(batches) + 1
           items == [i \in DOMAIN kinds |-> [kind |-> kinds[i], st |-> "pending", runs |-> 0]]
           row == [turn |-> s.lt, tried |-> {}, void |-> {}, end |-> "open", items |-> items]
           o == [Transition(op, "tool_effect_pending") EXCEPT !.turn = s.lt]
           m == [mem EXCEPT !.batch = b, !.act = "",
                            !.pc = IF s.reply = "shell" THEN "ask" ELSE "tools"]
<1>0. /\ mem.pc = "act" /\ op.leaf = "plan_ready"
      /\ op \in Operation /\ mem \in Driver /\ io \in Outside
  BY DEF BeginBatch, Do, LInv, ChoiceInv, Chosen, KInv, Position
<1>1. io'.cancel = io.cancel /\ io'.approval \in {io.approval, "none"}
  BY <1>0 DEF BeginBatch, Outside
<1>2. ~ApprovalLive'
  BY <1>0, <1>1 DEF LInv, ApprovalInv, ApprovalLive
<1>3. \/ /\ op' = o /\ batches' = Append(batches, row) /\ mem' = m /\ sends' = sends
         /\ s.reply = "shell" => io'.approval = "none"
      \/ mem'.pc = "end" /\ UNCHANGED <<op, sends, batches>>
  <2>1. CASE io.cancel
    BY <2>1, DriverPoints DEF BeginBatch
  <2>2. CASE ~io.cancel
    <3>1. s.reply = "shell" => io'.approval = "none"
      BY <1>0, <2>2 DEF BeginBatch, Outside
    <3> QED
      BY <2>2, <3>1, DriverPoints DEF BeginBatch, Commit
  <2> QED
    BY <2>1, <2>2
<1>4. CASE mem'.pc = "end" /\ UNCHANGED <<op, sends, batches>>
  BY <1>0, <1>2, <1>4, Still DEF OuterLeaves
<1>5. CASE /\ op' = o /\ batches' = Append(batches, row) /\ mem' = m /\ sends' = sends
           /\ s.reply = "shell" => io'.approval = "none"
  <2>1. /\ 1 \in DOMAIN items
        /\ \A i \in DOMAIN items : items[i].st = "pending" /\ items[i].runs = 0
        /\ items[1].kind = "shell" <=> s.reply = "shell"
    BY CallsOf
  <2>2. /\ row.turn = s.lt /\ row.tried = {} /\ row.void = {} /\ row.end = "open"
        /\ row.items = items
    BY DEF row
  <2>3. op'.leaf = "tool_effect_pending" /\ op'.turn = s.lt
    <3> HIDE DEF s
    <3> QED
      BY <1>0, <1>5 DEF Transition, Operation
  <2>4. mem'.batch = b /\ mem'.pc = IF s.reply = "shell" THEN "ask" ELSE "tools"
    <3> HIDE DEF s, b
    <3> QED
      BY <1>0, <1>5 DEF Driver
  <2>5. KInv'
    BY BeginBatchInv
  <2> HIDE DEF items, kinds, row, o, m, s
  <2>6. /\ Len(batches') = b /\ DOMAIN batches' = 1..b /\ DOMAIN batches = 1..Len(batches)
        /\ Len(batches) \in Nat
        /\ \A c \in 1..Len(batches) : batches'[c] = batches[c]
        /\ batches'[b] = row
    <3>1. /\ Len(batches') = b /\ DOMAIN batches = 1..Len(batches) /\ Len(batches) \in Nat
          /\ \A c \in 1..Len(batches) : batches'[c] = batches[c]
          /\ batches'[b] = row
      BY <1>5, Lengths
    <3>2. DOMAIN batches' = 1..Len(batches')
      BY <2>5 DEF KInv, Ledger
    <3> QED
      BY <3>1, <3>2
  <2>7. \A c \in 1..b : c \in 1..Len(batches) \/ c = b
    BY <2>6
  <2>8. Newest' = b /\ b \in 1..b /\ b \notin 1..Len(batches)
    BY <2>6 DEF Newest
  <2> HIDE DEF b
  <2>9. \A c \in 1..Len(batches) : PendingItems(c)' = {}
    <3>1. \A c \in 1..Len(batches) : PendingItems(c) = {}
      BY <1>0, QuietBatches DEF LInv, FullySettled
    <3> QED
      BY <2>6, <3>1 DEF PendingItems
  <2>10. {i \in DOMAIN batches'[b].items : batches'[b].items[i].st = "pending"} # {}
    BY <2>1, <2>2, <2>6
  <2>11. BusyInv'
    <3>1. BusyBatches' = {b}
      BY <2>6, <2>7, <2>8, <2>9, <2>10 DEF BusyBatches, FullySettled, PendingItems
    <3> QED
      BY <2>2, <2>3, <2>6, <2>8, <3>1 DEF BusyInv
  <2>12. SendsInv' /\ RestInv' /\ ApprovalInv'
    BY <1>0, <1>2, <1>5, <2>3, SendsKept DEF LInv, RestInv, OuterLeaves, ApprovalInv
  <2>13. AttemptInv'
    <3> SUFFICES ASSUME NEW c \in 1..b
                 PROVE  /\ batches'[c].tried # {} => FullySettled(c)'
                        /\ \A k, n \in ActiveAttempts(c)' : k = n
                        /\ batches'[c].end = "delivered" =>
                             \E n \in ActiveAttempts(c)' :
                               sends'[n].st = "ok" /\ sends'[n].reply # ""
      BY <2>6 DEF AttemptInv
    <3>1. CASE c = b
      BY <2>2, <2>6, <3>1 DEF ActiveAttempts
    <3>2. CASE c \in 1..Len(batches)
      <4>1. FullySettled(c)' /\ ActiveAttempts(c)' = ActiveAttempts(c)
        BY <2>6, <2>9, <3>2 DEF FullySettled, ActiveAttempts
      <4>2. /\ \A k, n \in ActiveAttempts(c) : k = n
            /\ batches[c].end = "delivered" =>
                 \E n \in ActiveAttempts(c) : sends[n].st = "ok" /\ sends[n].reply # ""
        BY <3>2 DEF LInv, AttemptInv
      <4> QED
        BY <1>5, <2>6, <3>2, <4>1, <4>2
    <3> QED
      BY <2>7, <3>1, <3>2
  <2>14. UnsafeOnce'
    <3> SUFFICES ASSUME NEW c \in 1..b, NEW j \in DOMAIN batches'[c].items,
                        ~IsSafe(batches'[c].items[j].kind)
                 PROVE  batches'[c].items[j].runs <= 1
      BY <2>6 DEF UnsafeOnce
    <3>1. CASE c = b
      BY <2>1, <2>2, <2>6, <3>1
    <3>2. CASE c \in 1..Len(batches)
      BY <2>6, <3>2 DEF LInv, UnsafeOnce
    <3> QED
      BY <2>7, <3>1, <3>2
  <2>15. Shell(Newest)' <=> s.reply = "shell"
    BY <2>1, <2>2, <2>6, <2>8 DEF Shell
  <2>16. \A i \in DOMAIN items : Unrun(Newest, i)'
    BY <2>1, <2>2, <2>6, <2>8 DEF Unrun
  <2>17. PendingItems(Newest)' \subseteq DOMAIN items
    BY <2>2, <2>6, <2>8 DEF PendingItems
  <2>18. CASE s.reply = "shell"
    <3>1. ToolInv'
      BY <1>5, <2>1, <2>3, <2>4, <2>15, <2>16, <2>18 DEF ToolInv
    <3>2. ChoiceInv' /\ FlightInv'
      BY <2>4, <2>18 DEF ChoiceInv, FlightInv
    <3> QED
      BY <2>11, <2>12, <2>13, <2>14, <3>1, <3>2 DEF LInv
  <2>19. CASE s.reply # "shell"
    <3>1. ToolInv'
      BY <2>3, <2>4, <2>8, <2>15, <2>16, <2>17, <2>19 DEF ToolInv
    <3>2. ChoiceInv' /\ FlightInv'
      BY <2>4, <2>19 DEF ChoiceInv, FlightInv
    <3> QED
      BY <2>11, <2>12, <2>13, <2>14, <3>1, <3>2 DEF LInv
  <2> QED
    BY <2>18, <2>19
<1> QED
  BY <1>3, <1>4, <1>5

-----------------------------------------------------------------------------
(* The theorems.                                                           *)

(* Every step of the loop keeps position and ledger together.               *)
LEMMA LedgerKernelStep ==
  ASSUME KInv, LInv, KernelStep
  PROVE  LInv'
<1>1. CASE Send \/ \E reply \in Replies : Receive(reply)
  BY <1>1, LedgerFlight
<1>2. CASE \E repeated \in BOOLEAN : Interpret(repeated)
  BY <1>2, LedgerInterpret
<1>3. CASE Redeliver \/ \E repeats \in BOOLEAN : Observe(repeats)
  BY <1>3, LedgerDelivery
<1>4. CASE ResumeQuestion \/ \E complete, novel \in BOOLEAN : Evaluate(complete, novel)
  BY <1>4, LedgerEvaluate
<1>5. CASE SkipSlot \/ \E st \in {"ok", "error"} : SettleSlot(st)
  BY <1>5, LedgerSlot
<1>6. CASE Decide \/ BeginClosing \/ PrepareTurn \/ BeforeRequest \/ Submit
  BY <1>6, LedgerDecide, LedgerClosing, LedgerPrepareTurn, LedgerBeforeRequest, LedgerAdmit
<1>7. CASE BeginBatch \/ RequestApproval \/ ReplayBatch \/ RunSlot \/ Reconcile
  BY <1>7, LedgerBeginBatch, LedgerRequestApproval, LedgerReplay, LedgerRunSlot, LedgerReconcile
<1>8. CASE WaitApproval \/ Boundary \/ PrepareControl \/ Return \/ FailInvariant
  BY <1>8, LedgerReadOnly, LedgerBoundary, LedgerControl
<1>9. CASE CloseProtocol \/ FinalBoundary
  BY <1>9, LedgerClose
<1>10. CASE SettleUnknown \/ Synthesize
  BY <1>10, LedgerSendFails, LedgerSynthesize
<1> QED
  BY <1>1, <1>2, <1>3, <1>4, <1>5, <1>6, <1>7, <1>8, <1>9, <1>10 DEF KernelStep

(* So does everything around it.                                            *)
LEMMA LedgerNext == KInv /\ LInv /\ [Next]_vars => LInv'
<1> SUFFICES ASSUME KInv, LInv, [Next]_vars PROVE LInv'
  OBVIOUS
<1>1. CASE KernelStep
  BY <1>1, LedgerKernelStep
<1>2. CASE OuterStep
  BY <1>2, LedgerOuter
<1>3. CASE WorldStep
  <2>1. CASE WriteBusy
    BY <2>1, LedgerClosing
  <2>2. CASE \E st \in {"not_sent", "maybe_sent"} : SendFails(st)
    BY <2>2, LedgerSendFails
  <2>3. CASE RunCommand
    BY <2>3, LedgerRunCommand
  <2>4. CASE RequestCancel \/ QueueInput \/ AnswerQuestion \/ ApprovalStep \/ Drift \/ Crash
    BY <2>4, LedgerOutside
  <2> QED
    BY <1>3, <2>1, <2>2, <2>3, <2>4 DEF WorldStep, ExecutorStep, ApprovalStep
<1>4. CASE Done \/ UNCHANGED vars
  <2>1. UNCHANGED <<op, sends, batches, mem, io>>
    BY <1>4 DEF Done, vars
  <2> QED
    BY <2>1, Watching DEF ApprovalLive, VerdictIn
<1> QED
  BY <1>1, <1>2, <1>3, <1>4 DEF Next

(* The invariant of the ledger, on top of KInv.                             *)
LEMMA LedgerHolds == Spec => [](KInv /\ LInv)
<1>1. Init => KInv /\ LInv
  BY InitInv, LedgerInit
<1>2. KInv /\ LInv /\ [Next]_vars => (KInv /\ LInv)'
  BY NextInv, LedgerNext
<1> QED
  BY <1>1, <1>2, PTL DEF Spec

(* What LInv means for a settled phase.                                     *)
LEMMA LedgerSettledClean == KInv /\ LInv => SettledClean
BY DEF LInv, RestInv, BusyInv, SettledClean, OuterLeaves

(* What LInv means for a delivered batch.                                   *)
LEMMA LedgerDeliveryBacked == KInv /\ LInv => DeliveryBacked
<1> SUFFICES ASSUME KInv, LInv, NEW b \in 1..Len(batches), batches[b].end = "delivered"
             PROVE  /\ FullySettled(b)
                    /\ \E n \in DOMAIN sends :
                         ActiveAttempts(b) = {n} /\ sends[n].st = "ok" /\ sends[n].reply # ""
  BY Lengths DEF DeliveryBacked
<1>1. PICK n \in ActiveAttempts(b) : sends[n].st = "ok" /\ sends[n].reply # ""
  BY DEF LInv, AttemptInv
<1>2. ActiveAttempts(b) = {n}
  BY DEF LInv, AttemptInv
<1>3. n \in DOMAIN sends
  BY AttemptSends, Lengths
<1>4. batches[b].tried # {}
  BY DEF ActiveAttempts
<1>5. FullySettled(b)
  BY <1>4 DEF LInv, AttemptInv
<1> QED
  BY <1>1, <1>2, <1>3, <1>5

(* An edit or a command runs at most once, whatever crashes, replays, Stops *)
(* and approvals do: recovery replays a batch only when all its calls may   *)
(* be repeated, marks the others interrupted, and a command runs only by an *)
(* approval that is spent when it does.                                     *)
THEOREM UnsafeCallsRunOnce == Spec => []UnsafeOnce
<1>1. KInv /\ LInv => UnsafeOnce
  BY DEF LInv
<1> QED
  BY <1>1, LedgerHolds, PTL

(* A batch counts as delivered only when all its calls are settled and its  *)
(* one live attempt is a send the provider answered, however its sends      *)
(* failed and were made again.                                              *)
THEOREM DeliveriesBacked == Spec => []DeliveryBacked
BY LedgerDeliveryBacked, LedgerHolds, PTL

(* prepare_operation_settlement leaves nothing behind: between two phases   *)
(* and at the end no send is unsettled, no call pending, no batch open.     *)
THEOREM PhasesSettleClean == Spec => []SettledClean
BY LedgerSettledClean, LedgerHolds, PTL

=============================================================================
