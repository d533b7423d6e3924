---------------------------- MODULE KernelProofs ----------------------------
(***************************************************************************)
(* TLAPS proofs about Kernel: its type invariant, and that the results of  *)
(* a batch reach the provider at most once, for every mode, every set of   *)
(* replies and every bound.                                                *)
(***************************************************************************)
EXTENDS Kernel, SequenceTheorems, TLAPS

-----------------------------------------------------------------------------
(* The inductive invariant.                                                *)

(* The ledger on its own: a batch knows every send that carries it, only    *)
(* sends proven unsent are superseded, and those never ran.                 *)
Ledger(ss, bs) ==
  /\ ss \in Seq(SendRecord)
  /\ bs \in Seq(Batch)
  /\ \A n \in 1..Len(ss) :
       /\ ss[n].src \in 0..Len(ss)
       /\ ss[n].batch \in 0..Len(bs)
       /\ ss[n].batch # 0 => n \in bs[ss[n].batch].tried
       /\ ss[n].st = "not_sent" => ~ss[n].ran
  /\ \A b \in 1..Len(bs) :
       /\ bs[b].tried \subseteq 1..Len(ss)
       /\ \A n \in bs[b].void : n \in 1..Len(ss) /\ ss[n].st = "not_sent"
  /\ \A m, n \in 1..Len(ss) :
       m < n /\ ss[m].batch # 0 /\ ss[m].batch = ss[n].batch => ~ss[m].ran

(* What the position refers to exists.                                      *)
Position(o, ls, lb) ==
  /\ o \in Operation
  /\ o.resp \in 0..ls
  /\ o.req.src \in 0..ls
  /\ o.last \in 0..lb
  /\ o.req.batch \in 0..lb
  /\ o.leaf = "plan_ready" => o.resp # 0

(* A send in progress is the last one, is pending, and is not sent twice.   *)
InFlight ==
  mem.pc \in {"send", "sent"} =>
    /\ Len(sends) > 0
    /\ op.turn = Len(sends)
    /\ sends[op.turn].st = "pending"
    /\ mem.pc = "send" => ~sends[op.turn].ran

(* What the reducer saw still holds when its action is executed.            *)
Decision ==
  mem.pc = "act" =>
    /\ mem.act = "settle_unknown" => op.turn \in Unsettled
    /\ mem.act \in {"post_tools", "approval_boundary"} => Unsettled # {}
    /\ mem.act = "replay" /\ op.leaf = "tool_effect_pending" => PendingTools # {}
    /\ mem.act \in {"interpret", "execute"} => op.resp # 0
    /\ mem.act = "before_request" => op.leaf = "provider_request_ready"
    /\ mem.act = "control" => op.work # ""

KInv ==
  /\ mode \in Modes
  /\ io \in Outside
  /\ mem \in Driver
  /\ mem.batch \in 0..Len(batches)
  /\ Ledger(sends, batches)
  /\ Position(op, Len(sends), Len(batches))
  /\ InFlight
  /\ Decision

-----------------------------------------------------------------------------
(* Changes of the ledger.                                                  *)

(* A pending send changes its outcome, its reply or its ghost, and keeps    *)
(* its batch and its source: settle, record_provider_response, the send.    *)
LEMMA LedgerSend ==
  ASSUME NEW ss, NEW bs, Ledger(ss, bs),
         NEW n \in 1..Len(ss), NEW r \in SendRecord,
         ss[n].st = "pending", r.batch = ss[n].batch, r.src = ss[n].src,
         r.st = "not_sent" => ~r.ran,
         r.ran => ss[n].ran \/ n = Len(ss)
  PROVE  /\ Ledger([ss EXCEPT ![n] = r], bs)
         /\ Len([ss EXCEPT ![n] = r]) = Len(ss)
<1> DEFINE tt == [ss EXCEPT ![n] = r]
<1>1. /\ ss \in Seq(SendRecord)
      /\ tt \in Seq(SendRecord)
      /\ Len(tt) = Len(ss)
      /\ \A j \in 1..Len(ss) : tt[j] = IF j = n THEN r ELSE ss[j]
  BY ExceptSeq DEF Ledger
<1>2. Len(ss) \in Nat
  BY <1>1
<1> HIDE DEF tt
<1>3. \A j \in 1..Len(ss) : tt[j].batch = ss[j].batch /\ tt[j].src = ss[j].src
  BY <1>1
<1>4. \A j \in 1..Len(ss) : ss[j].st = "not_sent" => tt[j] = ss[j]
  BY <1>1
<1>5. \A j \in 1..Len(tt) :
        /\ tt[j].src \in 0..Len(tt)
        /\ tt[j].batch \in 0..Len(bs)
        /\ tt[j].batch # 0 => j \in bs[tt[j].batch].tried
        /\ tt[j].st = "not_sent" => ~tt[j].ran
  BY <1>1, <1>3 DEF Ledger
<1>6. \A b \in 1..Len(bs) :
        /\ bs[b].tried \subseteq 1..Len(tt)
        /\ \A k \in bs[b].void : k \in 1..Len(tt) /\ tt[k].st = "not_sent"
  BY <1>1, <1>4 DEF Ledger
<1>7. \A i, j \in 1..Len(tt) :
        i < j /\ tt[i].batch # 0 /\ tt[i].batch = tt[j].batch => ~tt[i].ran
  <2> SUFFICES ASSUME NEW i \in 1..Len(ss), NEW j \in 1..Len(ss),
                      i < j, ss[i].batch # 0, ss[i].batch = ss[j].batch
               PROVE  ~tt[i].ran
    BY <1>1, <1>3
  <2>1. ~ss[i].ran
    BY DEF Ledger
  <2>2. i # Len(ss)
    BY <1>2
  <2> QED
    BY <2>1, <2>2, <1>1
<1> QED
  BY <1>1, <1>5, <1>6, <1>7 DEF Ledger, tt

(* The batches keep their attempts, and new ones have none.                 *)
LEMMA LedgerBatches ==
  ASSUME NEW ss, NEW bs, Ledger(ss, bs),
         NEW cs \in Seq(Batch), Len(cs) >= Len(bs),
         \A b \in 1..Len(bs) : cs[b].tried = bs[b].tried /\ cs[b].void = bs[b].void,
         \A b \in 1..Len(cs) : b > Len(bs) => cs[b].tried = {} /\ cs[b].void = {}
  PROVE  Ledger(ss, cs)
<1>1. ss \in Seq(SendRecord) /\ bs \in Seq(Batch)
  BY DEF Ledger
<1>2. Len(ss) \in Nat /\ Len(bs) \in Nat /\ Len(cs) \in Nat
  BY <1>1
<1>3. \A n \in 1..Len(ss) :
        /\ ss[n].src \in 0..Len(ss)
        /\ ss[n].batch \in 0..Len(cs)
        /\ ss[n].batch # 0 => n \in cs[ss[n].batch].tried
        /\ ss[n].st = "not_sent" => ~ss[n].ran
  <2> SUFFICES ASSUME NEW n \in 1..Len(ss)
               PROVE  /\ ss[n].src \in 0..Len(ss)
                      /\ ss[n].batch \in 0..Len(cs)
                      /\ ss[n].batch # 0 => n \in cs[ss[n].batch].tried
                      /\ ss[n].st = "not_sent" => ~ss[n].ran
    OBVIOUS
  <2>1. /\ ss[n].src \in 0..Len(ss)
        /\ ss[n].batch \in 0..Len(bs)
        /\ ss[n].batch # 0 => n \in bs[ss[n].batch].tried
        /\ ss[n].st = "not_sent" => ~ss[n].ran
    BY DEF Ledger
  <2>2. ss[n].batch # 0 => ss[n].batch \in 1..Len(bs)
    BY <2>1, <1>2
  <2>3. ss[n].batch # 0 => n \in cs[ss[n].batch].tried
    BY <2>1, <2>2
  <2> QED
    BY <2>1, <2>3, <1>2
<1>4. ASSUME NEW b \in 1..Len(cs)
      PROVE  /\ cs[b].tried \subseteq 1..Len(ss)
             /\ \A k \in cs[b].void : k \in 1..Len(ss) /\ ss[k].st = "not_sent"
  <2>1. CASE b \in 1..Len(bs)
    <3>1. /\ bs[b].tried \subseteq 1..Len(ss)
          /\ \A k \in bs[b].void : k \in 1..Len(ss) /\ ss[k].st = "not_sent"
      BY <2>1 DEF Ledger
    <3>2. cs[b].tried = bs[b].tried /\ cs[b].void = bs[b].void
      BY <2>1
    <3> QED
      BY <3>1, <3>2
  <2>2. CASE b \notin 1..Len(bs)
    BY <2>2, <1>2
  <2> QED
    BY <2>1, <2>2
<1> QED
  BY <1>1, <1>3, <1>4 DEF Ledger

(* Send n is the new attempt of batch k, in place of the live ones.         *)
Joined(bs, cs, k, n) ==
  /\ \A b \in 1..Len(bs) :
       cs[b].tried = IF b = k THEN bs[b].tried \union {n} ELSE bs[b].tried
  /\ \A b \in 1..Len(bs) :
       cs[b].void = IF b = k THEN bs[b].void \union (bs[b].tried \ bs[b].void) ELSE bs[b].void

(* admit_provider_request: a new send joins the attempts of the batch it    *)
(* carries, whose live attempts are proven unsent and become superseded.    *)
LEMMA LedgerSubmit ==
  ASSUME NEW ss, NEW bs, Ledger(ss, bs),
         NEW s \in SendRecord, NEW cs \in Seq(Batch), Len(cs) = Len(bs),
         s.src \in 0..Len(ss), s.batch \in 0..Len(bs), s.st = "pending", ~s.ran,
         s.batch # 0 => \A k \in bs[s.batch].tried \ bs[s.batch].void : ss[k].st = "not_sent",
         Joined(bs, cs, s.batch, Len(ss) + 1)
  PROVE  Ledger(Append(ss, s), cs)
<1>0. /\ \A b \in 1..Len(bs) :
           cs[b].tried = IF b = s.batch THEN bs[b].tried \union {Len(ss) + 1} ELSE bs[b].tried
      /\ \A b \in 1..Len(bs) :
           cs[b].void = IF b = s.batch THEN bs[b].void \union (bs[b].tried \ bs[b].void)
                        ELSE bs[b].void
  BY DEF Joined
<1> USE <1>0
<1> DEFINE tt == Append(ss, s)
<1>1. ss \in Seq(SendRecord) /\ bs \in Seq(Batch)
  BY DEF Ledger
<1>2. /\ tt \in Seq(SendRecord)
      /\ Len(tt) = Len(ss) + 1
      /\ \A j \in 1..Len(ss) : tt[j] = ss[j]
      /\ tt[Len(ss) + 1] = s
  BY <1>1, AppendProperties
<1>3. Len(ss) \in Nat /\ Len(bs) \in Nat
  BY <1>1
<1> HIDE DEF tt
<1>4. \A j \in 1..Len(tt) : j \in 1..Len(ss) \/ j = Len(ss) + 1
  BY <1>2, <1>3
<1>8. 1..Len(ss) \subseteq 1..Len(tt) /\ Len(ss) + 1 \in 1..Len(tt)
  BY <1>2, <1>3
<1>5. ASSUME NEW j \in 1..Len(tt)
      PROVE  /\ tt[j].src \in 0..Len(tt)
             /\ tt[j].batch \in 0..Len(cs)
             /\ tt[j].batch # 0 => j \in cs[tt[j].batch].tried
             /\ tt[j].st = "not_sent" => ~tt[j].ran
  <2>1. CASE j \in 1..Len(ss)
    <3>1. /\ ss[j].src \in 0..Len(ss)
          /\ ss[j].batch \in 0..Len(bs)
          /\ ss[j].batch # 0 => j \in bs[ss[j].batch].tried
          /\ ss[j].st = "not_sent" => ~ss[j].ran
      BY <2>1 DEF Ledger
    <3>2. tt[j] = ss[j]
      BY <2>1, <1>2
    <3>4. ss[j].batch # 0 => ss[j].batch \in 1..Len(bs)
      BY <3>1, <1>3
    <3>3. ss[j].batch # 0 => j \in cs[ss[j].batch].tried
      BY <3>1, <3>4
    <3> QED
      BY <3>1, <3>2, <3>3, <1>2, <1>3
  <2>2. CASE j = Len(ss) + 1
    <3>1. tt[j] = s
      BY <2>2, <1>2
    <3>2. s.batch # 0 => s.batch \in 1..Len(bs)
      BY <1>3
    <3>3. s.batch # 0 => j \in cs[s.batch].tried
      BY <3>2, <2>2
    <3> QED
      BY <3>1, <3>3, <1>2, <1>3
  <2> QED
    BY <2>1, <2>2, <1>4
<1>6. ASSUME NEW b \in 1..Len(cs)
      PROVE  /\ cs[b].tried \subseteq 1..Len(tt)
             /\ \A k \in cs[b].void : k \in 1..Len(tt) /\ tt[k].st = "not_sent"
  <2>1. bs[b].tried \subseteq 1..Len(ss)
    BY DEF Ledger
  <2>2. \A k \in bs[b].void : k \in 1..Len(ss) /\ ss[k].st = "not_sent"
    BY DEF Ledger
  <2>3. cs[b].tried \subseteq 1..Len(tt)
    <3>1. cs[b].tried \subseteq bs[b].tried \union {Len(ss) + 1}
      OBVIOUS
    <3> QED
      BY <2>1, <3>1, <1>8
  <2>4. ASSUME NEW k \in cs[b].void
        PROVE  k \in 1..Len(ss) /\ ss[k].st = "not_sent"
    <3>1. CASE b = s.batch
      <4>1. k \in bs[b].void \/ k \in bs[b].tried \ bs[b].void
        BY <3>1
      <4>2. k \in bs[b].tried \ bs[b].void => ss[k].st = "not_sent"
        BY <3>1, <1>3
      <4> QED
        BY <4>1, <4>2, <2>1, <2>2
    <3>2. CASE b # s.batch
      BY <3>2, <2>2
    <3> QED
      BY <3>1, <3>2
  <2> QED
    BY <2>3, <2>4, <1>2, <1>8
<1>7. ASSUME NEW i \in 1..Len(tt), NEW j \in 1..Len(tt),
             i < j, tt[i].batch # 0, tt[i].batch = tt[j].batch
      PROVE  ~tt[i].ran
  <2>1. i \in 1..Len(ss)
    BY <1>7, <1>3, <1>2
  <2>2. CASE j \in 1..Len(ss)
    BY <1>7, <2>1, <2>2, <1>2 DEF Ledger
  <2>3. CASE j = Len(ss) + 1
    <3>1. ss[i].batch = s.batch /\ s.batch # 0
      BY <1>7, <2>1, <2>3, <1>2
    <3>2. i \in bs[s.batch].tried
      BY <3>1, <2>1 DEF Ledger
    <3>3. s.batch \in 1..Len(bs)
      BY <3>1, <1>3
    <3>4. ss[i].st = "not_sent"
      <4>1. CASE i \in bs[s.batch].void
        BY <4>1, <3>3 DEF Ledger
      <4>2. CASE i \notin bs[s.batch].void
        BY <4>2, <3>1, <3>2
      <4> QED
        BY <4>1, <4>2
    <3> QED
      BY <3>4, <2>1, <1>2 DEF Ledger
  <2> QED
    BY <2>2, <2>3, <1>4
<1> QED
  BY <1>2, <1>5, <1>6, <1>7 DEF Ledger, tt

(* The batches are as before, but for their calls and their ends.           *)
SameAttempts(bs, cs) ==
  /\ cs \in Seq(Batch)
  /\ Len(cs) = Len(bs)
  /\ \A c \in 1..Len(bs) : cs[c].tried = bs[c].tried /\ cs[c].void = bs[c].void

(* No call changed its outcome.                                             *)
SameOutcomes(bs, cs) ==
  \A c \in 1..Len(bs) :
    /\ cs[c].turn = bs[c].turn
    /\ DOMAIN cs[c].items = DOMAIN bs[c].items
    /\ \A j \in DOMAIN bs[c].items : cs[c].items[j].st = bs[c].items[j].st

(* The changes of one batch: one call's outcome, one run, the end.          *)
WithOutcome(bs, b, i, st) == [bs EXCEPT ![b].items[i].st = st]

WithRun(bs, b, i) == [bs EXCEPT ![b].items[i].runs = @ + 1]

WithEnd(bs, b, e) == [bs EXCEPT ![b].end = e]

LEMMA BatchItem ==
  ASSUME NEW bs \in Seq(Batch), NEW b, NEW i,
         NEW st \in {"pending", "ok", "error", "interrupted"}
  PROVE  SameAttempts(bs, WithOutcome(bs, b, i, st))
<1> DEFINE cs == WithOutcome(bs, b, i, st)
<1>1. ASSUME b \in 1..Len(bs) PROVE SameAttempts(bs, cs)
  <2> DEFINE t == [bs[b].items EXCEPT ![i].st = st]
             r == [bs[b] EXCEPT !.items = t]
  <2>1. bs[b] \in Batch
    BY <1>1, ElementOfSeq
  <2>2. t \in Seq(Item)
    <3>1. bs[b].items \in Seq(Item)
      BY <2>1 DEF Batch
    <3>2. CASE i \in 1..Len(bs[b].items)
      <4>1. bs[b].items[i] \in Item
        BY <3>1, <3>2, ElementOfSeq
      <4>2. [bs[b].items[i] EXCEPT !.st = st] \in Item
        BY <4>1 DEF Item
      <4> QED
        BY <3>1, <3>2, <4>2, ExceptSeq
    <3>3. CASE i \notin 1..Len(bs[b].items)
      <4>1. [bs[b].items EXCEPT ![i].st = st] = bs[b].items
        BY <3>1, <3>3
      <4> QED
        BY <3>1, <4>1
    <3> QED
      BY <3>2, <3>3
  <2> HIDE DEF t
  <2>3. r \in Batch /\ r.tried = bs[b].tried /\ r.void = bs[b].void
    BY <2>1, <2>2 DEF Batch
  <2>4. cs = [bs EXCEPT ![b] = r]
    BY DEF t, WithOutcome
  <2> HIDE DEF r
  <2>5. /\ [bs EXCEPT ![b] = r] \in Seq(Batch)
        /\ Len([bs EXCEPT ![b] = r]) = Len(bs)
        /\ \A c \in 1..Len(bs) : [bs EXCEPT ![b] = r][c] = IF c = b THEN r ELSE bs[c]
    BY <1>1, <2>3, ExceptSeq
  <2> HIDE DEF cs
  <2> QED
    BY <2>3, <2>4, <2>5 DEF SameAttempts
<1>2. ASSUME b \notin 1..Len(bs) PROVE SameAttempts(bs, cs)
  <2>1. cs = bs
    BY <1>2 DEF WithOutcome
  <2> HIDE DEF cs
  <2> QED
    BY <2>1 DEF SameAttempts
<1> QED
  BY <1>1, <1>2

LEMMA BatchRuns ==
  ASSUME NEW bs \in Seq(Batch), NEW b, NEW i
  PROVE  SameAttempts(bs, WithRun(bs, b, i)) /\ SameOutcomes(bs, WithRun(bs, b, i))
<1> DEFINE cs == WithRun(bs, b, i)
<1>1. ASSUME b \in 1..Len(bs) PROVE SameAttempts(bs, cs) /\ SameOutcomes(bs, cs)
  <2> DEFINE t == [bs[b].items EXCEPT ![i].runs = @ + 1]
             r == [bs[b] EXCEPT !.items = t]
  <2>1. bs[b] \in Batch
    BY <1>1, ElementOfSeq
  <2>2. /\ t \in Seq(Item)
        /\ DOMAIN t = DOMAIN bs[b].items
        /\ \A j \in DOMAIN bs[b].items : t[j].st = bs[b].items[j].st
    <3>1. bs[b].items \in Seq(Item)
      BY <2>1 DEF Batch
    <3>2. CASE i \in 1..Len(bs[b].items)
      <4>1. bs[b].items[i] \in Item
        BY <3>1, <3>2, ElementOfSeq
      <4>2. /\ [bs[b].items[i] EXCEPT !.runs = @ + 1] \in Item
            /\ [bs[b].items[i] EXCEPT !.runs = @ + 1].st = bs[b].items[i].st
        BY <4>1 DEF Item
      <4> QED
        BY <3>1, <3>2, <4>2, ExceptSeq
    <3>3. CASE i \notin 1..Len(bs[b].items)
      <4>1. [bs[b].items EXCEPT ![i].runs = @ + 1] = bs[b].items
        BY <3>1, <3>3
      <4> QED
        BY <3>1, <4>1
    <3> QED
      BY <3>2, <3>3
  <2> HIDE DEF t
  <2>3. /\ r \in Batch /\ r.tried = bs[b].tried /\ r.void = bs[b].void
        /\ r.turn = bs[b].turn /\ r.items = t
    BY <2>1, <2>2 DEF Batch
  <2>4. cs = [bs EXCEPT ![b] = r]
    BY DEF t, WithRun
  <2> HIDE DEF r
  <2>5. /\ [bs EXCEPT ![b] = r] \in Seq(Batch)
        /\ Len([bs EXCEPT ![b] = r]) = Len(bs)
        /\ \A c \in 1..Len(bs) : [bs EXCEPT ![b] = r][c] = IF c = b THEN r ELSE bs[c]
    BY <1>1, <2>3, ExceptSeq
  <2> HIDE DEF cs
  <2>6. /\ cs \in Seq(Batch)
        /\ Len(cs) = Len(bs)
        /\ cs[b] = r
        /\ \A c \in 1..Len(bs) : c # b => cs[c] = bs[c]
    BY <1>1, <2>4, <2>5
  <2> QED
    BY <2>2, <2>3, <2>6 DEF SameAttempts, SameOutcomes
<1>2. ASSUME b \notin 1..Len(bs) PROVE SameAttempts(bs, cs) /\ SameOutcomes(bs, cs)
  <2>1. cs = bs
    BY <1>2 DEF WithRun
  <2> HIDE DEF cs
  <2> QED
    BY <2>1 DEF SameAttempts, SameOutcomes
<1> QED
  BY <1>1, <1>2

LEMMA BatchEnd ==
  ASSUME NEW bs \in Seq(Batch), NEW b, NEW e \in {"open", "delivered", "abandoned"}
  PROVE  SameAttempts(bs, WithEnd(bs, b, e))
<1> DEFINE cs == WithEnd(bs, b, e)
<1>1. ASSUME b \in 1..Len(bs) PROVE SameAttempts(bs, cs)
  <2>1. bs[b] \in Batch
    BY <1>1, ElementOfSeq
  <2>2. /\ [bs[b] EXCEPT !.end = e] \in Batch
        /\ [bs[b] EXCEPT !.end = e].tried = bs[b].tried
        /\ [bs[b] EXCEPT !.end = e].void = bs[b].void
    BY <2>1 DEF Batch
  <2>3. cs = [bs EXCEPT ![b] = [bs[b] EXCEPT !.end = e]]
    BY DEF WithEnd
  <2> HIDE DEF cs
  <2> QED
    BY <1>1, <2>2, <2>3, ExceptSeq DEF SameAttempts
<1>2. ASSUME b \notin 1..Len(bs) PROVE SameAttempts(bs, cs)
  <2>1. cs = bs
    BY <1>2 DEF WithEnd
  <2> HIDE DEF cs
  <2> QED
    BY <2>1 DEF SameAttempts
<1> QED
  BY <1>1, <1>2

LEMMA LedgerSame ==
  ASSUME NEW ss, NEW bs, NEW cs, Ledger(ss, bs), SameAttempts(bs, cs)
  PROVE  Ledger(ss, cs) /\ Len(cs) = Len(bs)
<1>1. bs \in Seq(Batch) /\ cs \in Seq(Batch) /\ Len(cs) = Len(bs)
  BY DEF Ledger, SameAttempts
<1>2. \A b \in 1..Len(bs) : cs[b].tried = bs[b].tried /\ cs[b].void = bs[b].void
  BY DEF SameAttempts
<1>3. Len(bs) \in Nat
  BY <1>1
<1> QED
  BY <1>1, <1>2, <1>3, LedgerBatches

-----------------------------------------------------------------------------
(* Changes of the position and of the driver.                              *)

LEMMA LeavesAre ==
  Leaves = {"accepted", "writer_running", "provider_effect_pending",
            "provider_response_ready", "tool_effect_pending", "tool_delivery_pending",
            "writer_settled", "completion_proof_recorded", "repair_context_admitted",
            "repair_running", "repair_settled", "terminal", "provider_request_ready",
            "plan_ready", "completion_pending", "control_ready", "closing",
            "kernel_settled"}
BY DEF Leaves, LeafNext

LEMMA NoRequestType == NoRequest \in Request /\ NoRequest.src = 0 /\ NoRequest.batch = 0
BY DEF NoRequest, Request, Works

(* A transition to any leaf but plan_ready, with any decision.              *)
LEMMA PositionTransition ==
  ASSUME NEW o, NEW ls \in Nat, NEW lb \in Nat, Position(o, ls, lb),
         NEW leaf \in Leaves, leaf = "plan_ready" => o.resp # 0
  PROVE  Position(Transition(o, leaf), ls, lb)
<1>1. Transition(o, leaf) \in Operation
  BY NoRequestType DEF Position, Transition, Operation, Works
<1>2. /\ Transition(o, leaf).resp \in {o.resp, 0}
      /\ Transition(o, leaf).req \in {o.req, NoRequest}
      /\ Transition(o, leaf).last = o.last
      /\ Transition(o, leaf).leaf = leaf
      /\ leaf = "plan_ready" => Transition(o, leaf).resp = o.resp
  BY DEF Position, Transition, Operation, ResponseLeaves, PendingLeaves
<1> QED
  BY <1>1, <1>2, NoRequestType DEF Position

LEMMA PositionDecided ==
  ASSUME NEW o, NEW ls \in Nat, NEW lb \in Nat, Position(o, ls, lb),
         NEW leaf \in Leaves \ {"plan_ready"}, NEW work \in Works
  PROVE  Position(Decided(o, leaf, work), ls, lb)
<1> DEFINE t == Transition(o, leaf)
<1>1. Position(t, ls, lb)
  BY PositionTransition
<1> HIDE DEF t
<1>2. Position([t EXCEPT !.work = work], ls, lb)
  BY <1>1 DEF Position, Operation
<1> QED
  BY <1>2 DEF Decided, t

LEMMA PositionNat ==
  ASSUME NEW o, NEW ls \in Nat, NEW lb \in Nat, Position(o, ls, lb)
  PROVE  /\ o.invalid + 1 \in Nat /\ o.idle + 1 \in Nat /\ o.round + 1 \in Nat
         /\ o.lt + 1 \in Nat /\ o.turn + 1 \in Nat /\ o.round \in Nat
<1>1. o \in Operation
  BY DEF Position
<1>2. /\ o.invalid \in Nat /\ o.idle \in Nat /\ o.round \in Nat
      /\ o.lt \in Nat /\ o.turn \in Nat
  BY <1>1 DEF Operation
<1> QED
  BY <1>2

(* The counters of the operation point at nothing.                          *)
LEMMA PositionCounts ==
  ASSUME NEW o, NEW ls \in Nat, NEW lb \in Nat, Position(o, ls, lb), NEW n \in Nat
  PROVE  /\ Position([o EXCEPT !.invalid = n], ls, lb)
         /\ Position([o EXCEPT !.idle = n], ls, lb)
BY DEF Position, Operation

LEMMA PositionClose ==
  ASSUME NEW o, NEW ls \in Nat, NEW lb \in Nat, Position(o, ls, lb)
  PROVE  Position(Close(o), ls, lb)
BY PositionDecided, LeavesAre DEF Close, Works

LEMMA RunningLeaf ==
  ASSUME NEW n
  PROVE  /\ Running(n) \in Leaves \ {"plan_ready"}
         /\ PhaseSettled(n) \in Leaves \ {"plan_ready"}
BY LeavesAre DEF Running, PhaseSettled

LEMMA DriverLoop ==
  ASSUME NEW m \in Driver
  PROVE  /\ Loop(m) \in Driver
         /\ Loop(m).batch = m.batch
         /\ Loop(m).pc = "loop"
BY DEF Driver, Loop, Actions

LEMMA DriverHalt ==
  ASSUME NEW m \in Driver,
         NEW res \in Works \union {"failed", "stopped", "approval", "unknown", "invariant",
                                   "illegal", "stranded", "unready"}
  PROVE  /\ Halt(m, res) \in Driver
         /\ Halt(m, res).batch = m.batch
         /\ Halt(m, res).pc = "end"
BY DEF Driver, Halt, Actions

LEMMA DriverOff == Off \in Driver /\ Off.batch = 0 /\ Off.pc = "off"
BY DEF Driver, Off, Actions, Works

LEMMA DriverBatch ==
  ASSUME NEW m \in Driver, NEW b \in Nat
  PROVE  /\ [m EXCEPT !.batch = b] \in Driver
         /\ [m EXCEPT !.batch = b].batch = b
         /\ [m EXCEPT !.batch = b].pc = m.pc
BY DEF Driver

-----------------------------------------------------------------------------
(* What the reducer and the executors read.                                *)

LEMMA Lengths ==
  ASSUME KInv
  PROVE  /\ Len(sends) \in Nat /\ DOMAIN sends = 1..Len(sends)
         /\ Len(batches) \in Nat /\ DOMAIN batches = 1..Len(batches)
         /\ sends \in Seq(SendRecord) /\ batches \in Seq(Batch)
         /\ \A n \in 1..Len(sends) : sends[n] \in SendRecord
         /\ \A b \in 1..Len(batches) : batches[b] \in Batch
BY DEF KInv, Ledger

LEMMA ChosenMember == \A S : S # {} => (CHOOSE x \in S : TRUE) \in S
BY Zenon

LEMMA OnlyMember == \A S : Only(S) \in S \union {0}
BY DEF Only

LEMMA PendingRange ==
  ASSUME KInv, PendingTools # {}
  PROVE  (CHOOSE x \in PendingTools : TRUE) \in 1..Len(batches)
<1>1. PendingTools \subseteq 1..Len(batches)
  BY Lengths DEF PendingTools, BusyBatches
<1> QED
  BY <1>1, ChosenMember

LEMMA DeliveryRange ==
  ASSUME KInv
  PROVE  DeliveryBatch \in 0..Len(batches)
<1> DEFINE open == {b \in OpenBatches : batches[b].turn = op.turn}
           fresh == {b \in open : batches[b].tried = {}}
<1>1. open \subseteq 1..Len(batches) /\ fresh \subseteq 1..Len(batches)
  BY Lengths DEF OpenBatches
<1>2. DeliveryBatch \in {Only(fresh), Only(open)}
  BY DEF DeliveryBatch
<1>3. Only(fresh) \in 0..Len(batches)
  BY <1>1, OnlyMember, Lengths
<1>4. Only(open) \in 0..Len(batches)
  BY <1>1, OnlyMember, Lengths
<1> HIDE DEF open, fresh
<1> QED
  BY <1>2, <1>3, <1>4

LEMMA SourceRange ==
  ASSUME KInv
  PROVE  Source \in 0..Len(sends)
<1>1. \A n \in 1..Len(sends) : sends[n].src \in 0..Len(sends)
  BY DEF KInv, Ledger
<1>2. ASSUME NEW b \in 1..Len(batches)
      PROVE  Only(ActiveAttempts(b)) \in 0..Len(sends)
  <2>1. ActiveAttempts(b) \subseteq 1..Len(sends)
    BY DEF KInv, Ledger, ActiveAttempts
  <2> QED
    BY <2>1, OnlyMember, Lengths
<1> DEFINE a == IF DeliveryBatch = 0 THEN 0 ELSE Only(ActiveAttempts(DeliveryBatch))
<1>3. a \in 0..Len(sends)
  BY <1>2, DeliveryRange, Lengths
<1>4. op.resp \in 0..Len(sends)
  BY DEF KInv, Position
<1>5. \/ Source = op.resp
      \/ Source = 0
      \/ a # 0 /\ Source = sends[a].src
      \/ op.turn \in DOMAIN sends /\ Source = sends[op.turn].src
  <2>1. CASE op.resp # 0
    BY <2>1 DEF Source
  <2>2. CASE op.resp = 0 /\ op.leaf = "tool_delivery_pending"
    BY <2>2 DEF Source
  <2>3. CASE op.resp = 0 /\ op.leaf # "tool_delivery_pending"
    BY <2>3 DEF Source
  <2> QED
    BY <2>1, <2>2, <2>3
<1> HIDE DEF a
<1> QED
  BY <1>1, <1>3, <1>4, <1>5, Lengths

(* The decision the reducer takes says what it saw.                         *)
LEMMA ReducerSaw ==
  ASSUME KInv
  PROVE  /\ NextAction \in Actions
         /\ NextAction = "settle_unknown" => op.turn \in Unsettled
         /\ NextAction \in {"post_tools", "approval_boundary"} => Unsettled # {}
         /\ NextAction = "replay" /\ op.leaf = "tool_effect_pending" => PendingTools # {}
         /\ NextAction \in {"interpret", "execute"} => op.resp # 0
         /\ NextAction = "before_request" => op.leaf = "provider_request_ready"
         /\ NextAction = "control" => op.work # ""
<1>1. PreparedRequestAction \in {"before_request", "submit", "fail"}
  BY DEF PreparedRequestAction
<1>2. /\ ProviderPendingAction \in {"settle_unknown", "fail"}
      /\ ProviderPendingAction = "settle_unknown" => op.turn \in Unsettled
  BY DEF ProviderPendingAction
<1>3. /\ ResponseReadyAction \in {"interpret", "fail"}
      /\ ResponseReadyAction = "interpret" => op.resp # 0
  BY DEF ResponseReadyAction
<1>4. /\ ApprovalAction \in {"fail_unknown", "reconcile", "approval_boundary", "wait_approval"}
      /\ ApprovalAction = "approval_boundary" => Unsettled # {}
  BY DEF ApprovalAction
<1>5. /\ ToolPendingAction \in {"fail", "replay", "synthesize"}
      /\ ToolPendingAction = "replay" => PendingTools # {}
  BY DEF ToolPendingAction
<1>6. /\ ToolDeliveryAction \in {"observe", "post_tools", "fail", "redeliver", "replay"}
      /\ ToolDeliveryAction = "post_tools" => Unsettled # {}
  BY DEF ToolDeliveryAction
<1>7. /\ ExecutionAction \in {"execute", "evaluate", "fail", "control", "close", "resume", "return"}
      /\ ExecutionAction = "execute" => op.leaf = "plan_ready"
      /\ ExecutionAction = "control" => op.work # ""
  BY DEF ExecutionAction
<1>8. RunningAction \in {"fail", "prepare"}
  BY DEF RunningAction
<1>9. op.leaf = "plan_ready" => op.resp # 0
  BY DEF KInv, Position
<1> QED
  <2>1. CASE ~ProgressValid \/ OutcomeUnknown
    <3>1. NextAction \in {"fail", "fail_unknown"}
      BY <2>1 DEF NextAction
    <3> QED
      BY <3>1 DEF Actions
  <2>2. CASE ~(~ProgressValid \/ OutcomeUnknown)
    <3>1. \/ NextAction = "begin_closing"
          \/ op.leaf = "provider_request_ready" /\ NextAction = PreparedRequestAction
          \/ op.leaf # "tool_effect_pending" /\ NextAction = ProviderPendingAction
          \/ op.leaf # "tool_effect_pending" /\ NextAction = ResponseReadyAction
          \/ NextAction = ApprovalAction
          \/ NextAction = ToolPendingAction
          \/ op.leaf = "tool_delivery_pending" /\ NextAction = ToolDeliveryAction
          \/ NextAction = RunningAction
          \/ NextAction = ExecutionAction
      BY <2>2 DEF NextAction
    <3>2. CASE NextAction = ApprovalAction
      BY <3>2, <1>4 DEF Actions
    <3>3. CASE NextAction = ToolPendingAction
      BY <3>3, <1>5 DEF Actions
    <3>4. CASE op.leaf = "tool_delivery_pending" /\ NextAction = ToolDeliveryAction
      BY <3>4, <1>6 DEF Actions
    <3>5. CASE NextAction = ExecutionAction
      BY <3>5, <1>7, <1>9 DEF Actions
    <3>6. CASE \/ NextAction = "begin_closing"
               \/ op.leaf = "provider_request_ready" /\ NextAction = PreparedRequestAction
               \/ op.leaf # "tool_effect_pending" /\ NextAction = ProviderPendingAction
               \/ op.leaf # "tool_effect_pending" /\ NextAction = ResponseReadyAction
               \/ NextAction = RunningAction
      BY <3>6, <1>1, <1>2, <1>3, <1>8 DEF Actions
    <3> QED
      BY <3>1, <3>2, <3>3, <3>4, <3>5, <3>6
  <2> QED
    BY <2>1, <2>2

-----------------------------------------------------------------------------
(* Steps.                                                                  *)

(* A step that ends outside the three places that carry a promise.          *)
LEMMA Moved ==
  ASSUME KInv, mode' = mode, io' \in Outside, Ledger(sends', batches'),
         Position(op', Len(sends'), Len(batches')),
         mem' \in Driver, mem'.batch \in 0..Len(batches'),
         mem'.pc \notin {"act", "send", "sent"}
  PROVE  KInv'
BY DEF KInv, InFlight, Decision

LEMMA Kept ==
  ASSUME KInv, UNCHANGED <<mode, op, sends, batches>>, io' \in Outside,
         mem' \in Driver, mem'.batch \in 0..Len(batches),
         mem'.pc \notin {"act", "send", "sent"}
  PROVE  KInv'
<1>1. Ledger(sends', batches') /\ Position(op', Len(sends'), Len(batches'))
  BY DEF KInv
<1> QED
  BY <1>1, Moved

(* The driver stands still, and nothing it relies on changes.               *)
LEMMA Elsewhere ==
  ASSUME KInv, UNCHANGED <<mode, op, sends, batches, mem>>, io' \in Outside
  PROVE  KInv'
BY DEF KInv, InFlight, Decision, Unsettled, PendingTools, BusyBatches, FullySettled,
       PendingItems

LEMMA HaltStep ==
  ASSUME KInv, UNCHANGED <<mode, op, sends, batches>>, io' \in Outside,
         mem' \in {Halt(mem, "illegal"), Halt(mem, "stopped"), Halt(mem, "failed"),
                   Halt(mem, "unknown"), Halt(mem, "invariant"), Halt(mem, "stranded"),
                   Halt(mem, "approval"), Halt(mem, "unready"), Halt(mem, op.work)}
  PROVE  KInv'
<1>1. mem \in Driver /\ mem.batch \in 0..Len(batches) /\ op.work \in Works
  BY DEF KInv, Position, Operation
<1>2. mem' \in Driver /\ mem'.batch = mem.batch /\ mem'.pc = "end"
  BY <1>1, DriverHalt
<1> QED
  BY <1>1, <1>2, Kept

(* A commit that only moves the position.                                   *)
LEMMA Advanced ==
  ASSUME KInv, UNCHANGED <<mode, sends, batches>>, io' \in Outside,
         Position(op', Len(sends), Len(batches)), mem' = Loop(mem)
  PROVE  KInv'
<1>1. mem \in Driver /\ mem.batch \in 0..Len(batches)
  BY DEF KInv
<1>2. mem' \in Driver /\ mem'.batch = mem.batch /\ mem'.pc = "loop"
  BY <1>1, DriverLoop
<1>3. Ledger(sends', batches') /\ Position(op', Len(sends'), Len(batches'))
  BY DEF KInv
<1> QED
  BY <1>1, <1>2, <1>3, Moved

-----------------------------------------------------------------------------
(* The outer lifecycle and the outside.                                    *)

LEMMA InitInv == Init => KInv
<1> SUFFICES ASSUME Init PROVE KInv
  OBVIOUS
<1>1. sends = <<>> /\ batches = <<>> /\ mem = Off
  BY DEF Init
<1>2. Ledger(sends, batches)
  BY <1>1 DEF Ledger
<1>3. op \in Operation
  BY LeavesAre, NoRequestType DEF Init, Operation, Works
<1>4. Position(op, Len(sends), Len(batches))
  <2>1. op.resp = 0 /\ op.last = 0 /\ op.req = NoRequest /\ op.leaf = "accepted"
    BY DEF Init
  <2> QED
    BY <1>1, <1>3, <2>1, NoRequestType DEF Position
<1>5. io \in Outside /\ mode \in Modes
  BY DEF Init, Outside
<1>6. mem \in Driver /\ mem.batch = 0 /\ mem.pc = "off"
  BY <1>1, DriverOff
<1> QED
  BY <1>1, <1>2, <1>4, <1>5, <1>6 DEF KInv, InFlight, Decision

LEMMA AbandonedRows ==
  ASSUME KInv
  PROVE  Ledger(sends, Abandoned) /\ Len(Abandoned) = Len(batches)
<1>1. Abandoned \in [1..Len(batches) -> Batch]
  BY Lengths DEF Abandoned, Batch
<1>2. Abandoned \in Seq(Batch) /\ Len(Abandoned) = Len(batches)
  BY <1>1, Lengths
<1>3. \A b \in 1..Len(batches) :
        Abandoned[b].tried = batches[b].tried /\ Abandoned[b].void = batches[b].void
  BY Lengths DEF Abandoned, Batch
<1>4. Ledger(sends, batches)
  BY DEF KInv
<1> HIDE DEF Abandoned
<1> QED
  BY <1>2, <1>3, <1>4, Lengths, LedgerBatches

LEMMA OuterInv ==
  ASSUME KInv, OuterStep
  PROVE  KInv'
<1> USE Lengths
<1>0. /\ mem \in Driver /\ mem.batch \in 0..Len(batches) /\ io \in Outside
      /\ Ledger(sends, batches) /\ Position(op, Len(sends), Len(batches))
  BY DEF KInv
<1>1. CASE StartWriter
  <2>1. Position(op', Len(sends), Len(batches))
    BY <1>0, <1>1, PositionTransition, LeavesAre DEF StartWriter
  <2> QED
    BY <1>0, <1>1, <2>1, Moved DEF StartWriter, Idle
<1>2. CASE StartDrive
  <2>1. mem' \in Driver /\ mem'.batch = 0 /\ mem'.pc = "loop"
    BY <1>2, DriverOff, DriverLoop DEF StartDrive
  <2> QED
    BY <1>0, <1>2, <2>1, Kept DEF StartDrive
<1>3. CASE SettlePhase
  <2> DEFINE t == Transition(op, SettleTarget)
  <2>1. SettleTarget \in Leaves \ {"plan_ready"}
    BY RunningLeaf, LeavesAre DEF SettleTarget
  <2>2. Position(t, Len(sends), Len(batches))
    BY <1>0, <2>1, PositionTransition
  <2> HIDE DEF t
  <2>3. op' = [t EXCEPT !.stop = IF mem.res = "done" THEN "done" ELSE "other"]
    BY <1>3 DEF SettlePhase, t
  <2>4. Position(op', Len(sends), Len(batches))
    BY <2>2, <2>3 DEF Position, Operation
  <2>5. mem' = Off /\ batches' = Abandoned /\ UNCHANGED <<mode, sends, io>>
    BY <1>3 DEF SettlePhase
  <2>6. Ledger(sends', batches') /\ Len(batches') = Len(batches)
    BY <2>5, AbandonedRows
  <2> QED
    BY <1>0, <2>4, <2>5, <2>6, DriverOff, Moved
<1>4. CASE CloseTask \/ Failover \/ Park \/ CancelIdle
  <2>1. UNCHANGED <<mode, op, sends, batches>>
    BY <1>4 DEF CloseTask, Failover, Park, CancelIdle
  <2>2. mem' \in {Off, Loop(Off), mem}
    BY <1>4 DEF CloseTask, Failover, Park, CancelIdle
  <2>3. mem' = mem => mem.pc \in {"off", "end"}
    BY <1>4 DEF CloseTask, Failover, Park, CancelIdle, Idle
  <2>4. mem' \in Driver /\ mem'.batch \in 0..Len(batches) /\ mem'.pc \notin {"act", "send", "sent"}
    BY <1>0, <2>2, <2>3, DriverOff, DriverLoop
  <2>5. io' \in Outside
    BY <1>0, <1>4 DEF CloseTask, Failover, Park, CancelIdle, Outside
  <2> QED
    BY <2>1, <2>4, <2>5, Kept
<1>5. CASE RecordProof \/ AdmitRepair \/ Finish
  <2>1. PICK leaf \in Leaves \ {"plan_ready"} :
          op' = Transition(op, leaf) /\ UNCHANGED <<mode, sends, batches, mem, io>> /\ Idle
    BY <1>5, LeavesAre DEF RecordProof, AdmitRepair, Finish, Outer
  <2>2. Position(op', Len(sends), Len(batches))
    BY <1>0, <2>1, PositionTransition
  <2> QED
    BY <1>0, <2>1, <2>2, Moved DEF Idle
<1>6. CASE StartRepair
  <2> DEFINE t == Transition(op, "repair_running")
  <2>1. Position(t, Len(sends), Len(batches))
    BY <1>0, PositionTransition, LeavesAre
  <2> HIDE DEF t
  <2>0. t.phase + 1 \in Nat
    <3>1. t \in Operation
      BY <2>1 DEF Position
    <3>2. t.phase \in Nat
      BY <3>1 DEF Operation
    <3> QED
      BY <3>2
  <2>2. PICK n \in Nat :
          op' = [t EXCEPT !.phase = n, !.lt = 0, !.invalid = 0, !.cut = FALSE,
                          !.round = 0, !.last = 0, !.idle = 0]
    BY <1>6, <2>0 DEF StartRepair, Outer, t
  <2>3. op' \in Operation
    BY <2>1, <2>2 DEF Position, Operation
  <2>4. op'.resp = t.resp /\ op'.req = t.req /\ op'.last = 0 /\ op'.leaf = t.leaf
    BY <2>1, <2>2 DEF Position, Operation
  <2>5. Position(op', Len(sends), Len(batches))
    BY <2>1, <2>3, <2>4 DEF Position
  <2> QED
    BY <1>0, <1>6, <2>5, Moved DEF StartRepair, Outer, Idle
<1> QED
  BY <1>1, <1>2, <1>3, <1>4, <1>5, <1>6 DEF OuterStep

(* The steps of an approval that only move its record, or wake the task.    *)
ApprovalStep ==
  \/ \E verdict \in {"approved", "denied"} : Resolve(verdict)
  \/ ClaimApproval \/ CommandHalted \/ SaveReceipt \/ DropReceipt
  \/ SaveDenial \/ WakeDenied \/ ExecutorFails

LEMMA ApprovalRests ==
  ASSUME ApprovalStep
  PROVE  UNCHANGED <<mode, op, sends, batches, mem>>
BY DEF ApprovalStep, Resolve, ClaimApproval, CommandHalted, SaveReceipt, DropReceipt,
       SaveDenial, WakeDenied, ExecutorFails

LEMMA OrphanedAre == \A a : Orphaned(a) \in {a, "lost", "stuck"}
BY DEF Orphaned

(* What such a step may do to the row.                                      *)
LEMMA ApprovalMoves ==
  ASSUME io \in Outside, ApprovalStep
  PROVE  /\ UNCHANGED <<mode, op, sends, batches, mem>>
         /\ io' \in Outside
         /\ io'.cancel = io.cancel /\ io'.input = io.input
         /\ io'.question = io.question /\ io'.drift = io.drift
<1>1. CASE \E verdict \in {"approved", "denied"} : Resolve(verdict)
  BY <1>1 DEF Resolve, Outside
<1>2. CASE ClaimApproval \/ CommandHalted
  BY <1>2 DEF ClaimApproval, CommandHalted, Outside
<1>3. CASE SaveReceipt
  BY <1>3 DEF SaveReceipt, Outside
<1>4. CASE DropReceipt
  BY <1>4 DEF DropReceipt, Outside
<1>5. CASE SaveDenial
  BY <1>5 DEF SaveDenial, Outside
<1>6. CASE WakeDenied
  BY <1>6 DEF WakeDenied, Outside
<1>7. CASE ExecutorFails
  <2>1. io.faults + 1 \in Nat
    BY DEF Outside
  <2>2. PICK a \in {io.approval, "lost", "stuck"}, f \in Nat :
          io' = [io EXCEPT !.approval = a, !.faults = f]
    BY <1>7, <2>1, OrphanedAre DEF ExecutorFails
  <2> QED
    BY <1>7, <2>2 DEF ExecutorFails, Outside
<1> QED
  BY <1>1, <1>2, <1>3, <1>4, <1>5, <1>6, <1>7 DEF ApprovalStep

(* People, the approval executor and crashes.                               *)
LEMMA OutsideInv ==
  ASSUME KInv,
         RequestCancel \/ QueueInput \/ AnswerQuestion \/ ApprovalStep \/ Drift
  PROVE  KInv'
<1>2. io \in Outside
  BY DEF KInv
<1>1. UNCHANGED <<mode, op, sends, batches, mem>>
  BY <1>2, ApprovalMoves DEF RequestCancel, QueueInput, AnswerQuestion, Drift
<1>3. CASE RequestCancel
  <2>1. PICK t \in {"running", "closed"} : io' = [io EXCEPT !.cancel = TRUE, !.task = t]
    BY <1>3 DEF RequestCancel
  <2>2. io' \in Outside
    BY <1>2, <2>1 DEF Outside
  <2> QED
    BY <1>1, <2>2, Elsewhere
<1>4. CASE QueueInput \/ AnswerQuestion
  <2>1. io' \in Outside
    BY <1>2, <1>4 DEF QueueInput, AnswerQuestion, Outside
  <2> QED
    BY <1>1, <2>1, Elsewhere
<1>5. CASE ApprovalStep
  BY <1>1, <1>2, <1>5, ApprovalMoves, Elsewhere
<1>6. CASE Drift
  <2>1. io.faults + 1 \in Nat
    BY <1>2 DEF Outside
  <2>2. PICK f \in Nat : io' = [io EXCEPT !.drift = TRUE, !.faults = f]
    BY <1>6, <2>1 DEF Drift
  <2>3. io' \in Outside
    BY <1>2, <2>2 DEF Outside
  <2> QED
    BY <1>1, <2>3, Elsewhere
<1> QED
  BY <1>3, <1>4, <1>5, <1>6

LEMMA CrashInv ==
  ASSUME KInv, Crash
  PROVE  KInv'
<1>1. io' \in Outside
  <2>1. io \in Outside
    BY DEF KInv
  <2>0. io.faults + 1 \in Nat
    BY <2>1 DEF Outside
  <2>3. Orphaned(io.approval) \in {io.approval, "lost", "stuck"}
    BY OrphanedAre
  <2>2. PICK t \in {"closed", io.task}, a \in {io.approval, "lost", "stuck"}, f \in Nat :
          io' = [io EXCEPT !.faults = f, !.approval = a, !.task = t]
    BY <2>0, <2>3 DEF Crash
  <2> QED
    BY <2>1, <2>2 DEF Outside
<1>2. mem' = Off /\ UNCHANGED <<mode, op, sends, batches>>
  BY DEF Crash
<1> QED
  BY <1>1, <1>2, DriverOff, Lengths, Kept

LEMMA RunCommandInv ==
  ASSUME KInv, RunCommand
  PROVE  KInv'
<1>0. batches \in Seq(Batch) /\ DOMAIN batches = 1..Len(batches) /\ Len(batches) \in Nat
  BY Lengths
<1>1. PICK b \in PendingTools : batches' = [batches EXCEPT ![b].items[1].runs = @ + 1]
  BY DEF RunCommand
<1>2. UNCHANGED <<mode, op, sends, mem>>
  BY DEF RunCommand
<1>3. SameAttempts(batches, batches') /\ SameOutcomes(batches, batches')
  <2>1. batches' = WithRun(batches, b, 1)
    BY <1>1 DEF WithRun
  <2> QED
    BY <1>0, <2>1, BatchRuns
<1>4. Ledger(sends', batches') /\ Len(batches') = Len(batches)
  <2>1. Ledger(sends, batches)
    BY DEF KInv
  <2> QED
    BY <1>2, <1>3, <2>1, LedgerSame
<1>5. PendingTools # {} => PendingTools' # {}
  <2>1. b \in DOMAIN batches /\ batches[b].turn = op.turn
    BY <1>1 DEF PendingTools, BusyBatches
  <2>2. PICK j \in DOMAIN batches[b].items : batches[b].items[j].st = "pending"
    BY <1>1 DEF PendingTools, BusyBatches, FullySettled, PendingItems
  <2>3. b \in DOMAIN batches' /\ batches'[b].turn = op'.turn
    BY <1>0, <1>2, <1>3, <2>1 DEF SameAttempts, SameOutcomes
  <2>4. j \in DOMAIN batches'[b].items /\ batches'[b].items[j].st = "pending"
    BY <1>0, <1>3, <2>1, <2>2 DEF SameOutcomes
  <2> QED
    BY <2>3, <2>4 DEF PendingTools, BusyBatches, FullySettled, PendingItems
<1>6. io' \in Outside
  BY DEF KInv, RunCommand, Outside
<1>7. InFlight'
  BY <1>2 DEF KInv, InFlight
<1>8. Decision'
  BY <1>2, <1>5 DEF KInv, Decision, Unsettled
<1>9. Position(op', Len(sends'), Len(batches')) /\ mem' \in Driver /\ mem'.batch \in 0..Len(batches')
  BY <1>2, <1>4 DEF KInv
<1> QED
  BY <1>2, <1>4, <1>6, <1>7, <1>8, <1>9 DEF KInv

-----------------------------------------------------------------------------
(* The kernel loop: deciding, and the steps that only move the position.   *)

LEMMA DecideInv ==
  ASSUME KInv, Decide
  PROVE  KInv'
<1>1. mem' = [mem EXCEPT !.pc = "act", !.act = NextAction] /\ UNCHANGED <<mode, op, sends, batches, io>>
  BY DEF Decide
<1>2. mem \in Driver /\ mem.batch \in 0..Len(batches)
  BY DEF KInv
<1>3. mem' \in Driver /\ mem'.batch = mem.batch /\ mem'.pc = "act" /\ mem'.act = NextAction
  BY <1>1, <1>2, ReducerSaw DEF Driver
<1>4. Unsettled' = Unsettled /\ PendingTools' = PendingTools
  BY <1>1 DEF Unsettled, PendingTools, BusyBatches, FullySettled, PendingItems
<1>5. Decision'
  BY <1>1, <1>3, <1>4, ReducerSaw DEF Decision
<1>6. InFlight'
  BY <1>3 DEF InFlight
<1>7. Ledger(sends', batches') /\ Position(op', Len(sends'), Len(batches'))
  BY <1>1 DEF KInv
<1> QED
  BY <1>1, <1>2, <1>3, <1>5, <1>6, <1>7 DEF KInv

(* A commit was refused, or an executor raised.                             *)
Refused == UNCHANGED <<op, sends, batches>> /\ mem' \in {Halt(mem, "illegal"), Halt(mem, "stopped")}

LEMMA RefusedInv ==
  ASSUME KInv, Refused, UNCHANGED <<mode, io>>
  PROVE  KInv'
<1>1. io' \in Outside
  BY DEF KInv
<1> QED
  BY <1>1, HaltStep DEF Refused

LEMMA AdvancedInv ==
  ASSUME KInv, UNCHANGED <<mode, sends, batches, io>>, mem' = Loop(mem),
         Position(op', Len(sends), Len(batches))
  PROVE  KInv'
<1>1. io' \in Outside
  BY DEF KInv
<1> QED
  BY <1>1, Advanced

LEMMA ClosingInv ==
  ASSUME KInv, BeginClosing \/ WriteBusy
  PROVE  KInv'
<1>1. \/ op' = Close(op) /\ mem' = Loop(mem) /\ UNCHANGED <<mode, sends, batches, io>>
      \/ Refused /\ UNCHANGED <<mode, io>>
  BY DEF BeginClosing, WriteBusy, Save, Commit, Refused
<1>2. Position(Close(op), Len(sends), Len(batches))
  BY Lengths, PositionClose DEF KInv
<1> QED
  BY <1>1, <1>2, RefusedInv, AdvancedInv

LEMMA InterpretInv ==
  ASSUME KInv, NEW repeated \in BOOLEAN, Interpret(repeated)
  PROVE  KInv'
<1> DEFINE counted == [op EXCEPT !.invalid = op.invalid + 1]
           ready(leaf) == [Transition(op, leaf) EXCEPT !.invalid = 0]
<1>0. Position(op, Len(sends), Len(batches)) /\ op.resp # 0
  BY DEF KInv, Interpret, Do, Decision
<1>1. Position(counted, Len(sends), Len(batches))
  <2>1. op.invalid + 1 \in Nat
    BY <1>0, Lengths, PositionNat
  <2> QED
    BY <1>0, <2>1, Lengths, PositionCounts
<1>2. ASSUME NEW leaf \in {"completion_pending", "plan_ready"}
      PROVE  Position(ready(leaf), Len(sends), Len(batches))
  <2> DEFINE t == Transition(op, leaf)
  <2>1. Position(t, Len(sends), Len(batches))
    BY <1>0, Lengths, LeavesAre, PositionTransition
  <2> HIDE DEF t
  <2>2. Position([t EXCEPT !.invalid = 0], Len(sends), Len(batches))
    BY <2>1 DEF Position, Operation
  <2> QED
    BY <2>2 DEF t
<1>3. ASSUME NEW o, Position(o, Len(sends), Len(batches)), NEW work \in Works
      PROVE  /\ Position(Decided(o, "control_ready", work), Len(sends), Len(batches))
             /\ Position(Close(o), Len(sends), Len(batches))
  BY <1>3, Lengths, LeavesAre, PositionDecided, PositionClose
<1>4. Position([Decided(op, "control_ready", "retry") EXCEPT !.cut = TRUE],
               Len(sends), Len(batches))
  <2> DEFINE t == Decided(op, "control_ready", "retry")
  <2>1. Position(t, Len(sends), Len(batches))
    BY <1>0, <1>3 DEF Works
  <2> HIDE DEF t
  <2>2. Position([t EXCEPT !.cut = TRUE], Len(sends), Len(batches))
    BY <2>1 DEF Position, Operation
  <2> QED
    BY <2>2 DEF t
<1>5. Position(Transition(op, "closing"), Len(sends), Len(batches))
  BY <1>0, Lengths, LeavesAre, PositionTransition
<1>6. PICK o \in {Transition(op, "closing"), Close(op), Close(counted),
                  [Decided(op, "control_ready", "retry") EXCEPT !.cut = TRUE],
                  Decided(counted, "control_ready", "retry"),
                  Decided(op, "control_ready", "question"),
                  ready("completion_pending"), ready("plan_ready")} :
        Save(o, Loop(mem))
  BY DEF Interpret
<1>7. Position(o, Len(sends), Len(batches))
  BY <1>0, <1>1, <1>2, <1>3, <1>4, <1>5 DEF Works
<1> HIDE DEF counted, ready
<1>8. \/ op' = o /\ mem' = Loop(mem) /\ UNCHANGED <<mode, sends, batches, io>>
      \/ Refused /\ UNCHANGED <<mode, io>>
  BY <1>6 DEF Interpret, Save, Commit, Refused
<1> QED
  BY <1>7, <1>8, RefusedInv, AdvancedInv

LEMMA EvaluateInv ==
  ASSUME KInv, NEW complete \in BOOLEAN, NEW novel \in BOOLEAN, Evaluate(complete, novel)
  PROVE  KInv'
<1> DEFINE t == Decided(op, "control_ready", "retry")
           u == [t EXCEPT !.idle = IF novel THEN 0 ELSE t.idle + 1]
<1>1. /\ Position(t, Len(sends), Len(batches))
      /\ Position(Decided(op, "control_ready", "done"), Len(sends), Len(batches))
  BY Lengths, LeavesAre, PositionDecided DEF KInv, Works
<1> HIDE DEF t
<1>2. Position(u, Len(sends), Len(batches))
  <2>1. (IF novel THEN 0 ELSE t.idle + 1) \in Nat
    BY <1>1, Lengths, PositionNat
  <2> QED
    BY <1>1, <2>1, Lengths, PositionCounts
<1>3. PICK o \in {u, Decided(op, "control_ready", "done")} : Save(o, Loop(mem))
  BY DEF Evaluate, t
<1> HIDE DEF u
<1>4. \/ op' = o /\ mem' = Loop(mem) /\ UNCHANGED <<mode, sends, batches, io>>
      \/ Refused /\ UNCHANGED <<mode, io>>
  BY <1>3 DEF Evaluate, Save, Commit, Refused
<1> QED
  BY <1>1, <1>2, <1>3, <1>4, RefusedInv, AdvancedInv

LEMMA ResumeQuestionInv ==
  ASSUME KInv, ResumeQuestion
  PROVE  KInv'
<1>1. Position(Transition(op, Running(op.phase)), Len(sends), Len(batches))
  BY Lengths, RunningLeaf, PositionTransition DEF KInv
<1>2. \/ /\ op' = Transition(op, Running(op.phase))
         /\ mem' = Loop(mem)
         /\ UNCHANGED <<mode, sends, batches, io>>
      \/ Refused /\ UNCHANGED <<mode, io>>
  BY DEF ResumeQuestion, Save, Commit, Refused
<1> QED
  BY <1>1, <1>2, RefusedInv, AdvancedInv

(* The executors that only read, and then end the drive or go on to tools.  *)
LEMMA ReadOnlyInv ==
  ASSUME KInv, Return \/ WaitApproval \/ FailInvariant \/ RequestApproval \/ ReplayBatch
  PROVE  KInv'
<1>0. mem \in Driver /\ mem.batch \in 0..Len(batches) /\ io \in Outside /\ Len(batches) \in Nat
  BY Lengths DEF KInv
<1>1. CASE Return \/ WaitApproval \/ FailInvariant
  <2>1. /\ UNCHANGED <<mode, op, sends, batches, io>>
        /\ mem' \in {Halt(mem, op.work), Halt(mem, "approval"), Halt(mem, "invariant"),
                     Halt(mem, "unknown")}
    BY <1>1 DEF Return, WaitApproval, FailInvariant
  <2>2. io' \in Outside
    BY <1>0, <2>1
  <2> QED
    BY <2>1, <2>2, HaltStep
<1>2. CASE RequestApproval
  <2>1. UNCHANGED <<mode, op, sends, batches>> /\ mem' \in {Halt(mem, "stopped"), Loop(mem)}
    BY <1>2 DEF RequestApproval
  <2>2. io' \in Outside
    BY <1>0, <1>2 DEF RequestApproval, Outside
  <2>3. mem' \in Driver /\ mem'.batch = mem.batch /\ mem'.pc \in {"end", "loop"}
    BY <1>0, <2>1, DriverHalt, DriverLoop
  <2> QED
    BY <1>0, <2>1, <2>2, <2>3, Kept
<1>3. CASE ReplayBatch
  <2> DEFINE b == IF op.leaf = "tool_effect_pending" THEN CHOOSE x \in PendingTools : TRUE
                  ELSE DeliveryBatch
  <2>1. b \in 0..Len(batches)
    <3>1. CASE op.leaf = "tool_effect_pending"
      <4>1. PendingTools # {}
        BY <1>3, <3>1 DEF KInv, Decision, ReplayBatch, Do
      <4>2. b = CHOOSE x \in PendingTools : TRUE
        BY <3>1
      <4>3. b \in 1..Len(batches)
        BY <4>1, <4>2, PendingRange
      <4> HIDE DEF b
      <4> QED
        BY <4>3, <1>0
    <3>2. CASE op.leaf # "tool_effect_pending"
      BY <3>2, DeliveryRange
    <3> QED
      BY <3>1, <3>2
  <2>2. /\ UNCHANGED <<mode, op, sends, batches, io>>
        /\ mem' = [mem EXCEPT !.pc = "tools", !.act = "", !.batch = b]
    BY <1>3 DEF ReplayBatch
  <2> HIDE DEF b
  <2>3. b \in Nat
    BY <1>0, <2>1
  <2>4. mem' \in Driver /\ mem'.batch = b /\ mem'.pc = "tools"
    BY <1>0, <2>2, <2>3 DEF Driver, Actions
  <2> QED
    BY <1>0, <2>1, <2>2, <2>4, Kept
<1> QED
  BY <1>1, <1>2, <1>3

-----------------------------------------------------------------------------
(* The kernel loop: preparing a request.                                   *)

(* The position that freeze saves.                                          *)
Frozen(m, lt, close, round) ==
  [Transition(op, "provider_request_ready") EXCEPT
     !.turn = Len(sends) + 1,
     !.resp = IF Unsettled # {} THEN op.resp ELSE 0,
     !.lt   = lt,
     !.req  = [batch |-> m.batch, close |-> close, work |-> op.work,
               src |-> Source, lt |-> lt, round |-> round]]

LEMMA FrozenPosition ==
  ASSUME KInv, NEW m \in Driver, m.batch \in 0..Len(batches),
         NEW lt \in Nat, NEW close \in BOOLEAN, NEW round \in Nat
  PROVE  Position(Frozen(m, lt, close, round), Len(sends), Len(batches))
<1> DEFINE t == Transition(op, "provider_request_ready")
           r == [batch |-> m.batch, close |-> close, work |-> op.work,
                 src |-> Source, lt |-> lt, round |-> round]
<1>1. Position(op, Len(sends), Len(batches))
  BY DEF KInv
<1>2. Position(t, Len(sends), Len(batches)) /\ t.leaf = "provider_request_ready"
  <2>1. Position(t, Len(sends), Len(batches))
    BY <1>1, Lengths, LeavesAre, PositionTransition
  <2>2. op \in Operation
    BY <1>1 DEF Position
  <2> QED
    BY <2>1, <2>2 DEF Transition, Operation
<1>3. r \in Request /\ r.src \in 0..Len(sends) /\ r.batch \in 0..Len(batches)
  <2>1. op.work \in Works /\ m.batch \in Nat /\ Source \in Nat
    <3>1. op \in Operation
      BY <1>1 DEF Position
    <3>2. op.work \in Works
      BY <3>1 DEF Operation
    <3>3. m.batch \in Nat /\ Source \in Nat
      BY SourceRange, Lengths
    <3> QED
      BY <3>2, <3>3
  <2> QED
    BY <2>1, SourceRange DEF Request
<1>4. PICK n \in Nat : n = Len(sends) + 1
  BY Lengths
<1>5. PICK k \in 0..Len(sends) : k = IF Unsettled # {} THEN op.resp ELSE 0
  BY <1>1, Lengths DEF Position
<1>6. Frozen(m, lt, close, round) = [t EXCEPT !.turn = n, !.resp = k, !.lt = lt, !.req = r]
  BY <1>4, <1>5 DEF Frozen
<1> HIDE DEF t, r
<1>7. k \in Nat
  BY Lengths
<1>8. Position([t EXCEPT !.turn = n, !.resp = k, !.lt = lt, !.req = r],
               Len(sends), Len(batches))
  BY <1>2, <1>3, <1>7 DEF Position, Operation
<1> QED
  BY <1>6, <1>8

(* A step that touches neither the sends nor the batches, whatever the      *)
(* driver knows of the batch it works on.                                   *)
LEMMA Repositioned ==
  ASSUME KInv, UNCHANGED <<mode, sends, batches>>, io' \in Outside,
         Position(op', Len(sends), Len(batches)),
         mem' \in Driver, mem'.batch \in 0..Len(batches),
         mem'.pc \notin {"act", "send", "sent"}
  PROVE  KInv'
<1>1. Ledger(sends', batches') /\ Position(op', Len(sends'), Len(batches'))
  BY DEF KInv
<1> QED
  BY <1>1, Moved

LEMMA PrepareTurnInv ==
  ASSUME KInv, PrepareTurn
  PROVE  KInv'
<1>0. /\ Position(op, Len(sends), Len(batches))
      /\ mem \in Driver /\ mem.batch \in 0..Len(batches)
  BY DEF KInv
<1>1. op.lt + 1 \in Nat /\ op.round \in Nat
  BY <1>0, Lengths, PositionNat
<1>2. /\ Position(Close(op), Len(sends), Len(batches))
      /\ Position(Frozen(mem, op.lt + 1, FALSE, op.round), Len(sends), Len(batches))
  BY <1>0, <1>1, Lengths, PositionClose, FrozenPosition
<1>3. \/ /\ op' \in {Close(op), Frozen(mem, op.lt + 1, FALSE, op.round)}
         /\ mem' = Loop(mem)
         /\ UNCHANGED <<mode, sends, batches, io>>
      \/ Refused /\ UNCHANGED <<mode, io>>
  BY DEF PrepareTurn, Freeze, Save, Commit, Refused, Frozen
<1> QED
  BY <1>2, <1>3, RefusedInv, AdvancedInv

LEMMA RedeliverInv ==
  ASSUME KInv, Redeliver
  PROVE  KInv'
<1> DEFINE m == [mem EXCEPT !.batch = DeliveryBatch]
<1>0. /\ Position(op, Len(sends), Len(batches)) /\ io \in Outside
      /\ mem \in Driver /\ mem.batch \in 0..Len(batches)
  BY DEF KInv
<1>1. op.turn + 1 \in Nat /\ op.round \in Nat
  BY <1>0, Lengths, PositionNat
<1>2. m \in Driver /\ m.batch \in 0..Len(batches)
  <2>1. DeliveryBatch \in Nat
    BY DeliveryRange, Lengths
  <2> QED
    BY <1>0, <2>1, DriverBatch, DeliveryRange
<1>3. \/ /\ op' \in {Transition(op, "completion_pending"), Close(op),
                     Frozen(m, op.turn + 1, FALSE, op.round)}
         /\ mem' = Loop(m)
         /\ UNCHANGED <<mode, sends, batches, io>>
      \/ mem' = Halt(m, "illegal") /\ UNCHANGED <<mode, op, sends, batches, io>>
      \/ Refused /\ UNCHANGED <<mode, io>>
  BY DEF Redeliver, Freeze, Save, Commit, Refused, Frozen
<1> HIDE DEF m
<1>4. /\ Position(Transition(op, "completion_pending"), Len(sends), Len(batches))
      /\ Position(Close(op), Len(sends), Len(batches))
      /\ Position(Frozen(m, op.turn + 1, FALSE, op.round), Len(sends), Len(batches))
  BY <1>0, <1>1, <1>2, Lengths, LeavesAre, PositionTransition, PositionClose, FrozenPosition
<1>5. /\ Loop(m) \in Driver /\ Loop(m).batch = m.batch /\ Loop(m).pc = "loop"
      /\ Halt(m, "illegal") \in Driver /\ Halt(m, "illegal").batch = m.batch
      /\ Halt(m, "illegal").pc = "end"
  BY <1>2, DriverLoop, DriverHalt
<1>6. CASE Refused /\ UNCHANGED <<mode, io>>
  BY <1>6, RefusedInv
<1>7. CASE ~(Refused /\ UNCHANGED <<mode, io>>)
  <2>1. Position(op', Len(sends), Len(batches)) /\ UNCHANGED <<mode, sends, batches, io>>
    BY <1>0, <1>3, <1>4, <1>7
  <2>2. mem' \in Driver /\ mem'.batch \in 0..Len(batches) /\ mem'.pc \in {"loop", "end"}
    BY <1>2, <1>3, <1>5, <1>7
  <2> QED
    BY <1>0, <2>1, <2>2, Repositioned
<1> QED
  BY <1>6, <1>7

(* prepare_control_delivery: whatever it decides, the position it saves     *)
(* refers to what exists.                                                   *)
LEMMA PrepareControlInv ==
  ASSUME KInv, PrepareControl
  PROVE  KInv'
<1>0. /\ Position(op, Len(sends), Len(batches)) /\ io \in Outside
      /\ mem \in Driver /\ mem.batch \in 0..Len(batches)
  BY DEF KInv
<1>1. CASE Source = 0 \/ Stranded
  <2>1. /\ mem' \in {Halt(mem, "illegal"), Halt(mem, "stranded")}
        /\ UNCHANGED <<mode, op, sends, batches, io>>
    BY <1>1 DEF PrepareControl
  <2>2. io' \in Outside
    BY <1>0, <2>1
  <2> QED
    BY <2>1, <2>2, HaltStep
<1>2. CASE ~(Source = 0 \/ Stranded)
  <2> DEFINE lt == sends[Source].lt
  <2>1. lt \in Nat /\ lt + 1 \in Nat /\ op.round \in Nat
    <3>1. Source \in 1..Len(sends)
      BY <1>2, SourceRange, Lengths
    <3>2. sends[Source] \in SendRecord
      BY <3>1, Lengths
    <3>3. lt \in Nat
      BY <3>2 DEF SendRecord
    <3> HIDE DEF lt
    <3> QED
      BY <3>3, <1>0, Lengths, PositionNat
  <2>0. op.work \in {"retry", "question", "done"}
    <3>1. op.work # ""
      BY DEF KInv, Decision, PrepareControl, Do
    <3>2. op \in Operation
      BY <1>0 DEF Position
    <3>3. op.work \in Works
      BY <3>2 DEF Operation
    <3> QED
      BY <1>2, <3>1, <3>3 DEF Works, Stranded
  <2>2. \/ /\ op' \in {Transition(op, "closing"), Transition(op, "completion_pending"), Close(op),
                       Frozen(mem, lt, TRUE, op.round), Frozen(mem, lt + 1, FALSE, op.round)}
           /\ mem' = Loop(mem)
           /\ UNCHANGED <<mode, sends, batches>>
        \/ Refused /\ UNCHANGED mode
    <3>1. CASE op.work = "retry"
      BY <1>2, <3>1 DEF PrepareControl, Freeze, Save, Commit, Refused, Frozen
    <3>2. CASE op.work = "question"
      BY <1>2, <3>2 DEF PrepareControl, Freeze, Save, Commit, Refused, Frozen
    <3>3. CASE op.work = "done" /\ sends[Source].reply = "answer"
      BY <1>2, <3>3 DEF PrepareControl, Freeze, Save, Commit, Refused, Frozen
    <3>4. CASE op.work = "done" /\ sends[Source].reply # "answer"
      BY <1>2, <3>4 DEF PrepareControl, Freeze, Save, Commit, Refused, Frozen
    <3> QED
      BY <2>0, <3>1, <3>2, <3>3, <3>4
  <2>3. io' \in Outside
    <3>1. PICK q \in {io.question, "asked"}, d \in {io.drift, FALSE} :
            io' = [io EXCEPT !.question = q, !.drift = d]
      <4>1. \/ io' = io
            \/ io' = [io EXCEPT !.question = "asked"]
            \/ io' = [io EXCEPT !.question = io.question]
            \/ io' = [io EXCEPT !.drift = FALSE]
        BY <1>2, <2>0 DEF PrepareControl
      <4> QED
        BY <1>0, <4>1 DEF Outside
    <3> QED
      BY <1>0, <3>1 DEF Outside
  <2> HIDE DEF lt
  <2>4. /\ Position(Transition(op, "closing"), Len(sends), Len(batches))
        /\ Position(Transition(op, "completion_pending"), Len(sends), Len(batches))
        /\ Position(Close(op), Len(sends), Len(batches))
        /\ Position(Frozen(mem, lt, TRUE, op.round), Len(sends), Len(batches))
        /\ Position(Frozen(mem, lt + 1, FALSE, op.round), Len(sends), Len(batches))
    BY <1>0, <2>1, Lengths, LeavesAre, PositionTransition, PositionClose, FrozenPosition
  <2>5. CASE Refused /\ UNCHANGED mode
    BY <2>3, <2>5, HaltStep DEF Refused
  <2>6. CASE ~(Refused /\ UNCHANGED mode)
    BY <2>2, <2>3, <2>4, <2>6, Advanced
  <2> QED
    BY <2>5, <2>6
<1> QED
  BY <1>1, <1>2

-----------------------------------------------------------------------------
(* The kernel loop: sends and their outcomes.                              *)

LEMMA PositionGrows ==
  ASSUME NEW o, NEW ls \in Nat, NEW lb \in Nat, NEW ms \in Nat, NEW mb \in Nat,
         Position(o, ls, lb), ls <= ms, lb <= mb
  PROVE  Position(o, ms, mb)
BY DEF Position

LEMMA SettledSend ==
  ASSUME KInv, NEW n \in Unsettled, NEW st \in {"ok", "not_sent", "maybe_sent"},
         st = "not_sent" => ~sends[n].ran
  PROVE  Ledger(SettleSend(n, st), batches) /\ Len(SettleSend(n, st)) = Len(sends)
<1>1. n \in 1..Len(sends) /\ sends[n].st = "pending"
  BY Lengths DEF Unsettled
<1>2. sends[n] \in SendRecord
  BY <1>1, Lengths
<1> DEFINE r == [sends[n] EXCEPT !.st = st]
<1>3. /\ r \in SendRecord /\ r.batch = sends[n].batch /\ r.src = sends[n].src
      /\ r.st = st /\ r.ran = sends[n].ran
  BY <1>2 DEF SendRecord
<1>4. SettleSend(n, st) = [sends EXCEPT ![n] = r]
  BY DEF SettleSend
<1>5. Ledger(sends, batches)
  BY DEF KInv
<1> HIDE DEF r
<1>6. Ledger([sends EXCEPT ![n] = r], batches) /\ Len([sends EXCEPT ![n] = r]) = Len(sends)
  BY <1>1, <1>3, <1>5, LedgerSend
<1> QED
  BY <1>4, <1>6

LEMMA DeliveredRows ==
  ASSUME KInv, NEW ss, Ledger(ss, batches), NEW n
  PROVE  Ledger(ss, Delivered(n)) /\ Len(Delivered(n)) = Len(batches)
<1>1. Delivered(n) \in {batches, WithEnd(batches, sends[n].batch, "delivered")}
  BY DEF Delivered, WithEnd
<1>2. SameAttempts(batches, WithEnd(batches, sends[n].batch, "delivered"))
  BY Lengths, BatchEnd
<1>3. /\ Ledger(ss, WithEnd(batches, sends[n].batch, "delivered"))
      /\ Len(WithEnd(batches, sends[n].batch, "delivered")) = Len(batches)
  BY <1>2, LedgerSame
<1> QED
  BY <1>1, <1>3

(* The generation boundary: the send is settled and its batch delivered.    *)
LEMMA BoundaryRows ==
  ASSUME KInv, NEW n \in Unsettled
  PROVE  /\ Ledger(SettleSend(n, "ok"), Delivered(n))
         /\ Len(SettleSend(n, "ok")) = Len(sends) /\ Len(Delivered(n)) = Len(batches)
<1>1. Ledger(SettleSend(n, "ok"), batches) /\ Len(SettleSend(n, "ok")) = Len(sends)
  BY SettledSend
<1> QED
  BY <1>1, DeliveredRows

LEMMA BeforeRequestInv ==
  ASSUME KInv, BeforeRequest
  PROVE  KInv'
<1> DEFINE n == Only(Unsettled)
           o == [op EXCEPT !.resp = 0]
<1>0. /\ Position(op, Len(sends), Len(batches)) /\ io \in Outside
      /\ mem \in Driver /\ mem.batch \in 0..Len(batches)
      /\ mode \in Modes /\ Ledger(sends, batches)
  BY DEF KInv
<1>1. op.leaf = "provider_request_ready" /\ mem.pc = "act"
  BY DEF KInv, BeforeRequest, Decision, Do
<1>2. Position(o, Len(sends), Len(batches))
  <2>1. op \in Operation
    BY <1>0 DEF Position
  <2>2. /\ o \in Operation
        /\ o.resp = 0 /\ o.req = op.req /\ o.last = op.last /\ o.leaf = op.leaf
    BY <2>1 DEF Operation
  <2> HIDE DEF o
  <2> QED
    BY <1>0, <1>1, <2>2, Lengths DEF Position
<1>3. /\ Ledger(SettleSend(n, "ok"), Delivered(n))
      /\ Len(SettleSend(n, "ok")) = Len(sends) /\ Len(Delivered(n)) = Len(batches)
  <2>1. CASE n \in Unsettled
    BY <2>1, BoundaryRows
  <2>2. CASE n = 0
    <3>1. SettleSend(n, "ok") = sends
      BY <2>2, Lengths DEF SettleSend
    <3> QED
      BY <3>1, <1>0, DeliveredRows
  <2> QED
    BY <2>1, <2>2, OnlyMember
<1>4. \/ /\ op' = o /\ sends' = SettleSend(n, "ok") /\ batches' = Delivered(n)
         /\ mem' = [mem EXCEPT !.act = "submit"] /\ UNCHANGED <<mode, io>>
      \/ Refused /\ UNCHANGED <<mode, io>>
  BY DEF BeforeRequest, Commit, Refused
<1> HIDE DEF n, o
<1>5. CASE Refused /\ UNCHANGED <<mode, io>>
  BY <1>5, RefusedInv
<1>6. CASE ~(Refused /\ UNCHANGED <<mode, io>>)
  <2>1. mem' = [mem EXCEPT !.act = "submit"]
    BY <1>4, <1>6
  <2>2. mem' \in Driver /\ mem'.batch = mem.batch /\ mem'.pc = "act" /\ mem'.act = "submit"
    BY <1>0, <1>1, <2>1 DEF Driver, Actions
  <2>3. Decision' /\ InFlight'
    BY <2>2 DEF Decision, InFlight
  <2>4. Ledger(sends', batches') /\ Position(op', Len(sends'), Len(batches'))
    BY <1>2, <1>3, <1>4, <1>6
  <2>5. mem'.batch \in 0..Len(batches') /\ UNCHANGED <<mode, io>>
    BY <1>0, <1>3, <1>4, <1>6, <2>2
  <2> QED
    BY <1>0, <2>2, <2>3, <2>4, <2>5 DEF KInv
<1> QED
  BY <1>5, <1>6

(* The one place where a batch is offered again: only to replace attempts   *)
(* that are proven unsent.                                                  *)
LEMMA SubmitInv ==
  ASSUME KInv, Submit
  PROVE  KInv'
<1> DEFINE n == Len(sends) + 1
           b == op.req.batch
           s == [batch |-> b, close |-> op.req.close, work |-> op.req.work,
                 src |-> op.req.src, lt |-> op.req.lt, st |-> "pending",
                 reply |-> "", ran |-> FALSE]
           row == [batches[b] EXCEPT !.tried = @ \union {n},
                                     !.void  = @ \union ActiveAttempts(b)]
           cs == IF b = 0 THEN batches ELSE [batches EXCEPT ![b] = row]
           t == Transition(op, "provider_effect_pending")
           o == [t EXCEPT !.turn = n, !.round = op.req.round]
           m == [mem EXCEPT !.pc = "send", !.act = ""]
<1>0. /\ Position(op, Len(sends), Len(batches)) /\ io \in Outside
      /\ mem \in Driver /\ mem.batch \in 0..Len(batches)
      /\ mode \in Modes /\ Ledger(sends, batches)
  BY DEF KInv
<1>1. \/ /\ op' = o /\ sends' = Append(sends, s) /\ batches' = cs /\ mem' = m
         /\ b # 0 => Resendable(b)
         /\ UNCHANGED <<mode, io>>
      \/ Refused /\ UNCHANGED <<mode, io>>
  BY DEF Submit, Commit, Refused
<1>2. n \in Nat /\ Len(sends) \in Nat /\ Len(batches) \in Nat
  BY Lengths
<1>3. op.req \in Request /\ b \in 0..Len(batches) /\ op.req.src \in 0..Len(sends)
  <2>1. op \in Operation
    BY <1>0 DEF Position
  <2>2. op.req \in Request
    BY <2>1 DEF Operation
  <2> QED
    BY <1>0, <2>2 DEF Position
<1>4. s \in SendRecord
  BY <1>3 DEF Request, SendRecord
<1>5. Position(o, n, Len(batches)) /\ o.turn = n
  <2>1. Position(t, Len(sends), Len(batches))
    BY <1>0, <1>2, LeavesAre, PositionTransition
  <2>2. Position(t, n, Len(batches))
    BY <1>2, <2>1, PositionGrows
  <2>3. op.req.round \in Nat
    BY <1>3 DEF Request
  <2> HIDE DEF t, n
  <2>4. t \in Operation
    BY <2>2 DEF Position
  <2>5. /\ o \in Operation /\ o.turn = n
        /\ o.resp = t.resp /\ o.req = t.req /\ o.last = t.last /\ o.leaf = t.leaf
    BY <1>2, <2>3, <2>4 DEF Operation
  <2> HIDE DEF o
  <2> QED
    BY <2>2, <2>5 DEF Position
<1>6. b # 0 => b \in 1..Len(batches) /\ batches[b] \in Batch
  BY <1>2, <1>3, Lengths
<1>7. b # 0 => /\ row \in Batch
               /\ row.tried = batches[b].tried \union {n}
               /\ row.void = batches[b].void \union (batches[b].tried \ batches[b].void)
  <2> HIDE DEF b, n
  <2> QED
    BY <1>2, <1>6 DEF Batch, ActiveAttempts
<1>8. /\ cs \in Seq(Batch) /\ Len(cs) = Len(batches)
      /\ \A c \in 1..Len(batches) : cs[c] = IF c = b THEN row ELSE batches[c]
  <2> HIDE DEF b, row
  <2>1. CASE b = 0
    BY <2>1, Lengths
  <2>2. CASE b # 0
    BY <2>2, <1>6, <1>7, Lengths, ExceptSeq
  <2> QED
    BY <2>1, <2>2
<1>9. Joined(batches, cs, b, n)
  <2> HIDE DEF b, row, cs, n
  <2>1. ASSUME NEW c \in 1..Len(batches)
        PROVE  /\ cs[c].tried = IF c = b THEN batches[c].tried \union {n} ELSE batches[c].tried
               /\ cs[c].void = IF c = b
                              THEN batches[c].void \union (batches[c].tried \ batches[c].void)
                              ELSE batches[c].void
    <3>1. c # 0 /\ cs[c] = IF c = b THEN row ELSE batches[c]
      BY <1>2, <1>8
    <3> QED
      BY <1>7, <3>1, Zenon
  <2> QED
    BY <2>1 DEF Joined
<1>10. s.src = op.req.src /\ s.batch = b /\ s.st = "pending" /\ ~s.ran
  OBVIOUS
<1>11. m \in Driver /\ m.batch = mem.batch /\ m.pc = "send"
  BY <1>0 DEF Driver, Actions
<1>12. CASE Refused /\ UNCHANGED <<mode, io>>
  BY <1>12, RefusedInv
<1>13. CASE ~(Refused /\ UNCHANGED <<mode, io>>)
  <2>1. /\ op' = o /\ sends' = Append(sends, s) /\ batches' = cs /\ mem' = m
        /\ b # 0 => Resendable(b)
        /\ UNCHANGED <<mode, io>>
    BY <1>1, <1>13
  <2> HIDE DEF n, b, s, row, cs, t, o, m
  <2>2. s.batch # 0 =>
          \A k \in batches[s.batch].tried \ batches[s.batch].void : sends[k].st = "not_sent"
    BY <1>10, <2>1 DEF Resendable, ActiveAttempts
  <2>3. Ledger(Append(sends, s), cs)
    <3>1. Joined(batches, cs, s.batch, Len(sends) + 1)
      BY <1>9, <1>10 DEF n
    <3>2. s.src \in 0..Len(sends) /\ s.batch \in 0..Len(batches)
      BY <1>3, <1>10
    <3> QED
      BY <1>0, <1>4, <1>8, <1>10, <2>2, <3>1, <3>2, LedgerSubmit
  <2>4. Len(sends') = n /\ sends'[n] = s
    BY <1>2, <2>1, Lengths DEF n
  <2>5. n > 0
    BY <1>2 DEF n
  <2>6. InFlight' /\ Decision'
    BY <1>5, <1>10, <1>11, <2>1, <2>4, <2>5 DEF InFlight, Decision
  <2> QED
    BY <1>0, <1>5, <1>8, <1>11, <2>1, <2>3, <2>4, <2>6 DEF KInv
<1> QED
  BY <1>12, <1>13

LEMMA SendInv ==
  ASSUME KInv, Send
  PROVE  KInv'
<1> DEFINE n == op.turn
           r == [sends[n] EXCEPT !.ran = TRUE]
<1>0. /\ Position(op, Len(sends), Len(batches)) /\ io \in Outside
      /\ mem \in Driver /\ mem.batch \in 0..Len(batches)
      /\ mode \in Modes /\ Ledger(sends, batches)
  BY DEF KInv
<1>1. n = Len(sends) /\ n \in 1..Len(sends) /\ sends[n].st = "pending"
  BY Lengths DEF KInv, InFlight, Send
<1>2. sends[n] \in SendRecord
  BY <1>1, Lengths
<1>3. /\ r \in SendRecord /\ r.batch = sends[n].batch /\ r.src = sends[n].src
      /\ r.st = "pending"
  BY <1>1, <1>2 DEF SendRecord
<1>4. /\ sends' = [sends EXCEPT ![n] = r]
      /\ mem' = [mem EXCEPT !.pc = "sent"]
      /\ UNCHANGED <<mode, op, batches, io>>
      /\ mem.pc = "send"
  BY DEF Send
<1> HIDE DEF n, r
<1>5. Ledger([sends EXCEPT ![n] = r], batches) /\ Len([sends EXCEPT ![n] = r]) = Len(sends)
  BY <1>0, <1>1, <1>3, LedgerSend
<1>6. sends'[n] = r
  BY <1>1, <1>4, Lengths
<1>7. mem' \in Driver /\ mem'.batch = mem.batch /\ mem'.pc = "sent"
  BY <1>0, <1>4 DEF Driver
<1>8. InFlight' /\ Decision'
  <2>1. op'.turn = n /\ Len(sends') = Len(sends) /\ Len(sends) > 0
    BY <1>1, <1>4, <1>5, Lengths DEF n
  <2> QED
    BY <1>1, <1>3, <1>6, <1>7, <2>1 DEF InFlight, Decision
<1> QED
  BY <1>0, <1>4, <1>5, <1>7, <1>8 DEF KInv

LEMMA ReceiveInv ==
  ASSUME KInv, NEW reply \in Replies, Receive(reply)
  PROVE  KInv'
<1> DEFINE n == op.turn
           r == [sends[n] EXCEPT !.reply = reply]
           t == Transition(op, "provider_response_ready")
           o == [t EXCEPT !.resp = n]
           m == [mem EXCEPT !.batch = 0]
<1>0. /\ Position(op, Len(sends), Len(batches)) /\ io \in Outside
      /\ mem \in Driver /\ mem.batch \in 0..Len(batches)
      /\ mode \in Modes /\ Ledger(sends, batches)
  BY DEF KInv
<1>1. n = Len(sends) /\ n \in 1..Len(sends) /\ sends[n].st = "pending"
  BY Lengths DEF KInv, InFlight, Receive
<1>2. sends[n] \in SendRecord
  BY <1>1, Lengths
<1>3. /\ r \in SendRecord /\ r.batch = sends[n].batch /\ r.src = sends[n].src
      /\ r.st = "pending" /\ r.ran = sends[n].ran
  <2>1. reply \in AllReplies
    BY RepliesAssumption
  <2> QED
    BY <1>1, <1>2, <2>1 DEF SendRecord
<1>4. \/ /\ op' = o /\ sends' = [sends EXCEPT ![n] = r] /\ mem' = Loop(m)
         /\ UNCHANGED <<mode, batches, io>>
      \/ Refused /\ UNCHANGED <<mode, io>>
  BY DEF Receive, Commit, Refused
<1>5. Position(o, Len(sends), Len(batches))
  <2>1. Position(t, Len(sends), Len(batches))
    BY <1>0, Lengths, LeavesAre, PositionTransition
  <2>2. n \in Nat /\ n \in 0..Len(sends)
    BY <1>1, Lengths
  <2>3. t \in Operation
    BY <2>1 DEF Position
  <2>4. t.leaf = "provider_response_ready"
    <3>1. op \in Operation
      BY <1>0 DEF Position
    <3> QED
      BY <3>1 DEF Operation, Transition
  <2> HIDE DEF n, t
  <2>5. /\ o \in Operation
        /\ o.resp = n /\ o.req = t.req /\ o.last = t.last /\ o.leaf = t.leaf
    BY <2>2, <2>3 DEF Operation
  <2> HIDE DEF o
  <2> QED
    BY <2>1, <2>2, <2>4, <2>5 DEF Position
<1>6. m \in Driver /\ m.batch = 0
  BY <1>0, DriverBatch
<1> HIDE DEF n, r, t, o, m
<1>7. Ledger([sends EXCEPT ![n] = r], batches) /\ Len([sends EXCEPT ![n] = r]) = Len(sends)
  BY <1>0, <1>1, <1>3, LedgerSend
<1>8. Loop(m) \in Driver /\ Loop(m).batch = 0 /\ Loop(m).pc = "loop"
  BY <1>6, DriverLoop
<1>9. CASE Refused /\ UNCHANGED <<mode, io>>
  BY <1>9, RefusedInv
<1>10. CASE ~(Refused /\ UNCHANGED <<mode, io>>)
  <2>1. /\ op' = o /\ sends' = [sends EXCEPT ![n] = r] /\ mem' = Loop(m)
        /\ UNCHANGED <<mode, batches, io>>
    BY <1>4, <1>10
  <2>2. /\ Ledger(sends', batches') /\ Position(op', Len(sends'), Len(batches'))
        /\ mem'.batch \in 0..Len(batches')
    BY <1>5, <1>7, <1>8, <2>1, Lengths
  <2> QED
    BY <1>0, <1>8, <2>1, <2>2, Moved
<1> QED
  BY <1>9, <1>10

(* The position after a failed send.                                        *)
LEMMA FailedSendPosition ==
  ASSUME KInv, NEW n \in 1..Len(sends), NEW st
  PROVE  Position(FailedSend(n, st), Len(sends), Len(batches))
<1> DEFINE b == sends[n].batch
           t == Transition(op, "tool_delivery_pending")
           d == [t EXCEPT !.turn = batches[b].turn, !.lt = batches[b].turn]
<1>0. Position(op, Len(sends), Len(batches)) /\ b \in 0..Len(batches)
  BY DEF KInv, Ledger
<1>1. /\ Position(t, Len(sends), Len(batches))
      /\ Position(Transition(op, "control_ready"), Len(sends), Len(batches))
      /\ Position(Transition(op, Running(op.phase)), Len(sends), Len(batches))
  BY <1>0, Lengths, LeavesAre, RunningLeaf, PositionTransition
<1>2. b # 0 => Position(d, Len(sends), Len(batches))
  <2> SUFFICES ASSUME b # 0 PROVE Position(d, Len(sends), Len(batches))
    OBVIOUS
  <2>1. batches[b] \in Batch
    BY <1>0, Lengths
  <2>2. batches[b].turn \in Nat
    BY <2>1 DEF Batch
  <2>3. t \in Operation
    BY <1>1 DEF Position
  <2> HIDE DEF t, b
  <2>4. /\ d \in Operation
        /\ d.resp = t.resp /\ d.req = t.req /\ d.last = t.last /\ d.leaf = t.leaf
    BY <2>2, <2>3 DEF Operation
  <2> HIDE DEF d
  <2> QED
    BY <1>1, <2>4 DEF Position
<1>3. \/ FailedSend(n, st) = Transition(op, "control_ready")
      \/ FailedSend(n, st) = Transition(op, Running(op.phase))
      \/ b # 0 /\ FailedSend(n, st) = d
  <2>1. CASE op.work # ""
    BY <2>1 DEF FailedSend
  <2>2. CASE op.work = ""
    BY <2>2 DEF FailedSend
  <2> QED
    BY <2>1, <2>2
<1> HIDE DEF t, d, b
<1> QED
  BY <1>1, <1>2, <1>3

(* The provider failed, or nobody knows whether it was reached.             *)
LEMMA SendFailsInv ==
  ASSUME KInv, SettleUnknown \/ \E st \in {"not_sent", "maybe_sent"} : SendFails(st)
  PROVE  KInv'
<1> DEFINE n == op.turn
<1>0. /\ Position(op, Len(sends), Len(batches)) /\ io \in Outside
      /\ mem \in Driver /\ mem.batch \in 0..Len(batches)
      /\ mode \in Modes /\ Ledger(sends, batches)
  BY DEF KInv
<1>1. PICK st \in {"not_sent", "maybe_sent"} :
        SendFails(st) \/ (st = "maybe_sent" /\ SettleUnknown)
  <2>1. CASE SettleUnknown
    BY <2>1
  <2>2. CASE \E st \in {"not_sent", "maybe_sent"} : SendFails(st)
    BY <2>2
  <2> QED
    BY <2>1, <2>2
<1>2. n \in Unsettled /\ (st = "not_sent" => ~sends[n].ran)
  <2>1. CASE SendFails(st)
    <3>1. mem.pc = IF st = "not_sent" THEN "send" ELSE "sent"
      BY <2>1 DEF SendFails
    <3>2. Len(sends) > 0 /\ n = Len(sends) /\ sends[n].st = "pending"
      BY <3>1 DEF KInv, InFlight
    <3>3. n \in Unsettled
      BY <3>2, Lengths DEF Unsettled
    <3> QED
      BY <3>1, <3>3 DEF KInv, InFlight
  <2>2. CASE st = "maybe_sent" /\ SettleUnknown
    BY <2>2 DEF KInv, Decision, SettleUnknown, Do
  <2> QED
    BY <1>1, <2>1, <2>2
<1>3. n \in 1..Len(sends)
  BY <1>2, Lengths DEF Unsettled
<1>4. io' \in Outside
  <2>1. io.faults + 1 \in Nat
    BY <1>0 DEF Outside
  <2>2. PICK f \in Nat : io' = io \/ io' = [io EXCEPT !.faults = f]
    BY <1>1, <2>1 DEF SendFails, SettleUnknown
  <2> QED
    BY <1>0, <2>2 DEF Outside
<1>5. \/ /\ op' = FailedSend(n, st) /\ sends' = SettleSend(n, st)
         /\ mem' \in {Halt(mem, "failed"), Halt(mem, "unknown")}
         /\ UNCHANGED <<mode, batches>>
      \/ Refused /\ UNCHANGED mode
  BY <1>1 DEF SendFails, SettleUnknown, Commit, Refused
<1> HIDE DEF n
<1>6. CASE Refused /\ UNCHANGED mode
  BY <1>4, <1>6, HaltStep DEF Refused
<1>7. CASE ~(Refused /\ UNCHANGED mode)
  <2>1. mem' \in Driver /\ mem'.batch = mem.batch /\ mem'.pc = "end"
    BY <1>0, <1>5, <1>7, DriverHalt
  <2>2. Ledger(SettleSend(n, st), batches) /\ Len(SettleSend(n, st)) = Len(sends)
    BY <1>2, SettledSend
  <2>3. Position(FailedSend(n, st), Len(sends), Len(batches))
    BY <1>3, FailedSendPosition
  <2>4. /\ Ledger(sends', batches') /\ Position(op', Len(sends'), Len(batches'))
        /\ UNCHANGED mode /\ mem'.batch \in 0..Len(batches')
    BY <1>0, <1>5, <1>7, <2>1, <2>2, <2>3
  <2> QED
    BY <1>4, <2>1, <2>4, Moved
<1> QED
  BY <1>6, <1>7

-----------------------------------------------------------------------------
(* The kernel loop: tools.                                                 *)

LEMMA BeginBatchInv ==
  ASSUME KInv, BeginBatch
  PROVE  KInv'
<1> DEFINE s == sends[op.resp]
           kinds == ItemsOf(s.reply)
           b == Len(batches) + 1
           items == [i \in DOMAIN kinds |-> [kind |-> kinds[i], st |-> "pending", runs |-> 0]]
           row == [turn |-> s.lt, tried |-> {}, void |-> {}, end |-> "open", items |-> items]
           t == Transition(op, "tool_effect_pending")
           o == [t EXCEPT !.turn = s.lt]
           m(pc) == [mem EXCEPT !.batch = b, !.act = "", !.pc = pc]
<1>0. /\ Position(op, Len(sends), Len(batches)) /\ io \in Outside
      /\ mem \in Driver /\ mem.batch \in 0..Len(batches)
      /\ mode \in Modes /\ Ledger(sends, batches)
  BY DEF KInv
<1>1. s \in SendRecord
  <2>1. op.resp # 0
    BY DEF KInv, Decision, BeginBatch, Do
  <2>2. op.resp \in 1..Len(sends)
    BY <1>0, <2>1, Lengths DEF Position
  <2> QED
    BY <2>2, Lengths
<1>2. s.lt \in Nat
  BY <1>1 DEF SendRecord
<1>3. row \in Batch /\ row.tried = {} /\ row.void = {}
  <2>1. kinds \in Seq({"read", "edit", "shell", "answer"})
    <3>1. kinds \in {<<"edit", "read">>, <<"shell">>, <<"answer">>, <<"read">>}
      BY DEF ItemsOf
    <3> HIDE DEF kinds
    <3>2. \A x, y \in {"read", "edit", "shell", "answer"} :
            <<x, y>> \in Seq({"read", "edit", "shell", "answer"})
            /\ <<x>> \in Seq({"read", "edit", "shell", "answer"})
      OBVIOUS
    <3> QED
      BY <3>1, <3>2
  <2> HIDE DEF kinds
  <2>2. items \in [1..Len(kinds) -> Item]
    BY <2>1 DEF Item
  <2>3. items \in Seq(Item)
    <3>1. Len(kinds) \in Nat
      BY <2>1
    <3> HIDE DEF items
    <3> QED
      BY <2>2, <3>1
  <2> HIDE DEF items, s
  <2> QED
    BY <1>2, <2>3 DEF Batch
<1>4. b \in Nat /\ Len(batches) \in Nat /\ batches \in Seq(Batch)
  BY Lengths
<1>5. PICK pc \in {"ask", "tools"} :
        \/ /\ op' = o /\ batches' = Append(batches, row) /\ mem' = m(pc)
           /\ UNCHANGED <<mode, sends>>
        \/ Refused /\ UNCHANGED mode
  BY DEF BeginBatch, Commit, Refused
<1>6. io' \in Outside
  <2>1. PICK a \in {"none", io.approval} : io' = io \/ io' = [io EXCEPT !.approval = a]
    BY DEF BeginBatch
  <2> QED
    BY <1>0, <2>1 DEF Outside
<1>7. Position(o, Len(sends), b)
  <2>1. Position(t, Len(sends), Len(batches))
    BY <1>0, Lengths, LeavesAre, PositionTransition
  <2>2. Position(t, Len(sends), b)
    BY <1>4, <2>1, Lengths, PositionGrows
  <2> HIDE DEF t, s, b
  <2>3. t \in Operation
    BY <2>2 DEF Position
  <2>4. /\ o \in Operation
        /\ o.resp = t.resp /\ o.req = t.req /\ o.last = t.last /\ o.leaf = t.leaf
    BY <1>2, <2>3 DEF Operation
  <2> HIDE DEF o
  <2> QED
    BY <2>2, <2>4 DEF Position
<1>8. m(pc) \in Driver /\ m(pc).batch = b /\ m(pc).pc = pc
  <2> HIDE DEF b
  <2> QED
    BY <1>0, <1>4 DEF Driver, Actions
<1>9. CASE Refused /\ UNCHANGED mode
  BY <1>6, <1>9, HaltStep DEF Refused
<1>10. CASE ~(Refused /\ UNCHANGED mode)
  <2>1. /\ op' = o /\ batches' = Append(batches, row) /\ mem' = m(pc)
        /\ UNCHANGED <<mode, sends>>
    BY <1>5, <1>10
  <2> HIDE DEF s, kinds, items, row, t, o, m
  <2>2. /\ batches' \in Seq(Batch) /\ Len(batches') = b
        /\ \A c \in 1..Len(batches) : batches'[c] = batches[c]
        /\ batches'[b] = row
    BY <1>3, <1>4, <2>1, AppendProperties
  <2>3. Ledger(sends', batches')
    <3>1. \A c \in 1..Len(batches) :
            batches'[c].tried = batches[c].tried /\ batches'[c].void = batches[c].void
      BY <2>2
    <3>2. \A c \in 1..Len(batches') :
            c > Len(batches) => batches'[c].tried = {} /\ batches'[c].void = {}
      <4>1. \A c \in 1..Len(batches') : c > Len(batches) => c = b
        BY <1>4, <2>2
      <4> QED
        BY <1>3, <2>2, <4>1
    <3>3. Len(batches') >= Len(batches)
      BY <1>4, <2>2
    <3> QED
      BY <1>0, <2>1, <2>2, <3>1, <3>2, <3>3, LedgerBatches
  <2>4. Position(op', Len(sends'), Len(batches')) /\ mem'.batch \in 0..Len(batches')
    BY <1>4, <1>7, <1>8, <2>1, <2>2
  <2> QED
    BY <1>6, <1>8, <2>1, <2>3, <2>4, Moved
<1> QED
  BY <1>9, <1>10

LEMMA RunSlotInv ==
  ASSUME KInv, RunSlot
  PROVE  KInv'
<1>0. /\ Position(op, Len(sends), Len(batches)) /\ io \in Outside
      /\ mem \in Driver /\ mem.batch \in 0..Len(batches) /\ Ledger(sends, batches)
  BY DEF KInv
<1>1. /\ batches' = WithRun(batches, mem.batch, Slot)
      /\ mem' = [mem EXCEPT !.pc = "ran"]
      /\ UNCHANGED <<mode, op, sends, io>>
  BY DEF RunSlot, WithRun
<1>2. SameAttempts(batches, WithRun(batches, mem.batch, Slot))
  BY Lengths, BatchRuns
<1>3. Ledger(sends', batches') /\ Len(batches') = Len(batches)
  BY <1>0, <1>1, <1>2, LedgerSame
<1>4. mem' \in Driver /\ mem'.batch = mem.batch /\ mem'.pc = "ran"
  BY <1>0, <1>1 DEF Driver
<1> QED
  BY <1>0, <1>1, <1>3, <1>4, Moved

(* A call takes its outcome.                                                *)
ItemSettled ==
  /\ op' \in {op, Transition(op, "tool_delivery_pending")}
  /\ SameAttempts(batches, batches')
  /\ UNCHANGED <<mode, sends, io>>

LEMMA ItemSettledRows ==
  ASSUME KInv, ItemSettled
  PROVE  /\ Ledger(sends', batches') /\ Len(batches') = Len(batches)
         /\ Position(op', Len(sends'), Len(batches'))
<1>0. Position(op, Len(sends), Len(batches)) /\ Ledger(sends, batches)
  BY DEF KInv
<1>1. Position(Transition(op, "tool_delivery_pending"), Len(sends), Len(batches))
  BY <1>0, Lengths, LeavesAre, PositionTransition
<1>2. Ledger(sends', batches') /\ Len(batches') = Len(batches)
  BY <1>0, LedgerSame DEF ItemSettled
<1> QED
  BY <1>0, <1>1, <1>2 DEF ItemSettled

LEMMA ItemSettledInv ==
  ASSUME KInv, ItemSettled,
         mem' \in {Loop(mem), [mem EXCEPT !.pc = "tools"], Halt(mem, "unknown")}
  PROVE  KInv'
<1>0. mem \in Driver /\ mem.batch \in 0..Len(batches) /\ io \in Outside
  BY DEF KInv
<1>1. [mem EXCEPT !.pc = "tools"] \in Driver
      /\ [mem EXCEPT !.pc = "tools"].batch = mem.batch
      /\ [mem EXCEPT !.pc = "tools"].pc = "tools"
  BY <1>0 DEF Driver
<1>2. mem' \in Driver /\ mem'.batch = mem.batch /\ mem'.pc \in {"loop", "tools", "end"}
  <2>1. CASE mem' = Loop(mem)
    BY <1>0, <2>1, DriverLoop
  <2>2. CASE mem' = [mem EXCEPT !.pc = "tools"]
    BY <1>1, <2>2
  <2>3. CASE mem' = Halt(mem, "unknown")
    BY <1>0, <2>3, DriverHalt
  <2> QED
    BY <2>1, <2>2, <2>3
<1>3. UNCHANGED <<mode, io>>
  BY DEF ItemSettled
<1> QED
  BY <1>0, <1>2, <1>3, ItemSettledRows, Moved

LEMMA SettleSlotInv ==
  ASSUME KInv, SkipSlot \/ \E st \in {"ok", "error"} : SettleSlot(st)
  PROVE  KInv'
<1>1. PICK st \in {"ok", "error"} :
        SettleItem(mem.batch, Slot, st, AfterSlot) /\ UNCHANGED <<mode, io>>
  BY DEF SkipSlot, SettleSlot
<1>2. AfterSlot \in {Loop(mem), [mem EXCEPT !.pc = "tools"]}
  BY DEF AfterSlot
<1>3. SameAttempts(batches, WithOutcome(batches, mem.batch, Slot, st))
  BY Lengths, BatchItem
<1>4. \/ /\ op' \in {op, Transition(op, "tool_delivery_pending")}
         /\ batches' = WithOutcome(batches, mem.batch, Slot, st)
         /\ mem' = AfterSlot
         /\ UNCHANGED sends
      \/ Refused
  BY <1>1 DEF SettleItem, Commit, WithOutcome, Refused
<1>5. CASE Refused
  BY <1>1, <1>5, RefusedInv
<1>6. CASE ~Refused
  BY <1>1, <1>2, <1>3, <1>4, <1>6, ItemSettledInv DEF ItemSettled
<1> QED
  BY <1>5, <1>6

LEMMA ReconcileInv ==
  ASSUME KInv, Reconcile
  PROVE  KInv'
<1> DEFINE b == CHOOSE x \in PendingTools : TRUE
           st == IF io.approval = "settled" THEN "ok" ELSE "error"
<1>1. CASE ReceiptMissing \/ io.approval = "denied"
  <2>1. PICK res \in {"unknown", "unready"} :
          mem' = Halt(mem, res) /\ UNCHANGED <<mode, op, sends, batches, io>>
    BY <1>1 DEF Reconcile
  <2>2. io' \in Outside
    BY <2>1 DEF KInv
  <2>3. CASE res = "unknown"
    BY <2>1, <2>2, <2>3, HaltStep
  <2>4. CASE res = "unready"
    BY <2>1, <2>2, <2>4, HaltStep
  <2> QED
    BY <2>3, <2>4
<1>2. CASE ~(ReceiptMissing \/ io.approval = "denied")
  <2>1. SettleItem(b, 1, st, Loop(mem)) /\ UNCHANGED <<mode, io>>
    BY <1>2 DEF Reconcile
  <2>2. st \in {"pending", "ok", "error", "interrupted"}
    OBVIOUS
  <2> HIDE DEF b, st
  <2>3. SameAttempts(batches, WithOutcome(batches, b, 1, st))
    BY <2>2, Lengths, BatchItem
  <2>4. \/ /\ op' \in {op, Transition(op, "tool_delivery_pending")}
           /\ batches' = WithOutcome(batches, b, 1, st)
           /\ mem' = Loop(mem)
           /\ UNCHANGED sends
        \/ Refused
    BY <2>1 DEF SettleItem, Commit, WithOutcome, Refused
  <2>5. CASE Refused
    BY <2>1, <2>5, RefusedInv
  <2>6. CASE ~Refused
    BY <2>1, <2>3, <2>4, <2>6, ItemSettledInv DEF ItemSettled
  <2> QED
    BY <2>5, <2>6
<1> QED
  BY <1>1, <1>2

(* Synthesize goes on to the next call of the batch until it is settled.    *)
LEMMA SynthesizeInv ==
  ASSUME KInv, Synthesize
  PROVE  KInv'
<1> DEFINE b == CHOOSE x \in PendingTools : TRUE
           i == CHOOSE x \in PendingItems(b) : \A y \in PendingItems(b) : x <= y
           m == IF PendingItems(b) = {i} THEN Halt(mem, "unknown") ELSE mem
<1>1. SettleItem(b, i, "interrupted", m) /\ UNCHANGED <<mode, io>>
      /\ mem.pc = "act" /\ mem.act = "synthesize"
  BY DEF Synthesize, Do
<1>2. m \in {Halt(mem, "unknown"), mem}
  OBVIOUS
<1> HIDE DEF b, i, m
<1>3. SameAttempts(batches, WithOutcome(batches, b, i, "interrupted"))
  BY Lengths, BatchItem
<1>4. \/ /\ op' \in {op, Transition(op, "tool_delivery_pending")}
         /\ batches' = WithOutcome(batches, b, i, "interrupted")
         /\ mem' = m
         /\ UNCHANGED sends
      \/ Refused
  BY <1>1 DEF SettleItem, Commit, WithOutcome, Refused
<1>5. CASE Refused
  BY <1>1, <1>5, RefusedInv
<1>6. CASE ~Refused
  <2>1. ItemSettled
    BY <1>1, <1>3, <1>4, <1>6 DEF ItemSettled
  <2>2. CASE mem' = Halt(mem, "unknown")
    BY <2>1, <2>2, ItemSettledInv
  <2>3. CASE mem' = mem
    <3>1. InFlight' /\ Decision'
      BY <1>1, <2>3 DEF InFlight, Decision
    <3>2. mode \in Modes /\ io \in Outside /\ mem \in Driver /\ mem.batch \in 0..Len(batches)
      BY DEF KInv
    <3> QED
      BY <1>1, <2>1, <2>3, <3>1, <3>2, ItemSettledRows DEF KInv
  <2> QED
    BY <1>2, <1>4, <1>6, <2>2, <2>3
<1> QED
  BY <1>5, <1>6

-----------------------------------------------------------------------------
(* The kernel loop: boundaries and the closing protocol.                   *)

LEMMA BoundaryInv ==
  ASSUME KInv, Boundary
  PROVE  KInv'
<1> DEFINE n == CHOOSE x \in Unsettled : TRUE
<1>0. /\ Position(op, Len(sends), Len(batches)) /\ io \in Outside
      /\ mem \in Driver /\ mem.batch \in 0..Len(batches)
  BY DEF KInv
<1>1. n \in Unsettled
  <2>1. Unsettled # {}
    BY DEF KInv, Decision, Boundary, Do
  <2> QED
    BY <2>1, ChosenMember
<1>2. io' \in Outside
  <2>1. PICK i \in {"placed", io.input} : io' = [io EXCEPT !.input = i]
    BY DEF Boundary
  <2> QED
    BY <1>0, <2>1 DEF Outside
<1>3. \/ /\ sends' = SettleSend(n, "ok") /\ batches' = Delivered(n) /\ mem' = Loop(mem)
         /\ UNCHANGED <<mode, op>>
      \/ Refused /\ UNCHANGED mode
  BY DEF Boundary, Commit, Refused
<1> HIDE DEF n
<1>4. CASE Refused /\ UNCHANGED mode
  BY <1>2, <1>4, HaltStep DEF Refused
<1>5. CASE ~(Refused /\ UNCHANGED mode)
  <2>1. mem' \in Driver /\ mem'.batch = mem.batch /\ mem'.pc = "loop"
    BY <1>0, <1>3, <1>5, DriverLoop
  <2>2. /\ Ledger(SettleSend(n, "ok"), Delivered(n))
        /\ Len(SettleSend(n, "ok")) = Len(sends) /\ Len(Delivered(n)) = Len(batches)
    BY <1>1, BoundaryRows
  <2>3. /\ Ledger(sends', batches') /\ Position(op', Len(sends'), Len(batches'))
        /\ mem'.batch \in 0..Len(batches') /\ UNCHANGED mode
    BY <1>0, <1>3, <1>5, <2>1, <2>2
  <2> QED
    BY <1>2, <2>1, <2>3, Moved
<1> QED
  BY <1>4, <1>5

(* record_progress.                                                         *)
LEMMA ObserveInv ==
  ASSUME KInv, NEW repeats \in BOOLEAN, Observe(repeats)
  PROVE  KInv'
<1> DEFINE b == DeliveryBatch
           k == IF repeats THEN op.idle + 1 ELSE 0
           o == [op EXCEPT !.last = b, !.idle = k]
           m == [mem EXCEPT !.batch = b]
<1>0. /\ Position(op, Len(sends), Len(batches)) /\ io \in Outside
      /\ mem \in Driver /\ mem.batch \in 0..Len(batches)
  BY DEF KInv
<1>1. b \in 0..Len(batches) /\ b \in Nat
  BY DeliveryRange, Lengths
<1>2. k \in Nat
  BY <1>0, Lengths, PositionNat
<1>3. \/ op' = o /\ mem' = Loop(m) /\ UNCHANGED <<mode, sends, batches, io>>
      \/ Refused /\ UNCHANGED <<mode, io>>
  BY DEF Observe, Save, Commit, Refused
<1> HIDE DEF b, k
<1>4. Position(o, Len(sends), Len(batches))
  <2>1. op \in Operation
    BY <1>0 DEF Position
  <2>2. /\ o \in Operation
        /\ o.resp = op.resp /\ o.req = op.req /\ o.last = b /\ o.leaf = op.leaf
    BY <1>1, <1>2, <2>1 DEF Operation
  <2> HIDE DEF o
  <2> QED
    BY <1>0, <1>1, <2>2 DEF Position
<1>5. m \in Driver /\ m.batch = b
  BY <1>0, <1>1, DriverBatch
<1> HIDE DEF o, m
<1>6. Loop(m) \in Driver /\ Loop(m).batch = b /\ Loop(m).pc = "loop"
  BY <1>5, DriverLoop
<1>7. CASE Refused /\ UNCHANGED <<mode, io>>
  BY <1>7, RefusedInv
<1>8. CASE ~(Refused /\ UNCHANGED <<mode, io>>)
  BY <1>0, <1>1, <1>3, <1>4, <1>6, <1>8, Repositioned
<1> QED
  BY <1>7, <1>8

(* settle_kernel_boundary.                                                  *)
LEMMA KernelBoundaryInv ==
  ASSUME KInv, KernelBoundary, UNCHANGED mode
  PROVE  KInv'
<1> DEFINE final == op.work = "done" /\ op.lt < MaxTurns
           reopen == final /\ io.input = "queued"
           settled == Transition(op, "kernel_settled")
           waiting == {n \in Unsettled : sends[n].reply # ""}
           n == CHOOSE x \in waiting : TRUE
           next == IF reopen THEN Transition(settled, Running(op.phase)) ELSE settled
<1>0. /\ Position(op, Len(sends), Len(batches)) /\ io \in Outside
      /\ mem \in Driver /\ mem.batch \in 0..Len(batches) /\ Ledger(sends, batches)
  BY DEF KInv
<1>1. CASE Barred(next)
  <2>1. mem' = Halt(mem, "stopped") /\ UNCHANGED <<op, sends, batches, io>>
    BY <1>1 DEF KernelBoundary
  <2>2. io' \in Outside
    BY <1>0, <2>1
  <2> QED
    BY <2>1, <2>2, HaltStep
<1>2. CASE ~Barred(next)
  <2>1. Position(next, Len(sends), Len(batches))
    <3>1. Position(settled, Len(sends), Len(batches))
      BY <1>0, Lengths, LeavesAre, PositionTransition
    <3> HIDE DEF settled
    <3>2. Position(Transition(settled, Running(op.phase)), Len(sends), Len(batches))
      BY <3>1, Lengths, RunningLeaf, PositionTransition
    <3> QED
      BY <3>1, <3>2
  <2>2. io' \in Outside
    <3>1. PICK i \in {"placed", io.input} : io' = [io EXCEPT !.input = i]
      BY <1>2 DEF KernelBoundary
    <3> QED
      BY <1>0, <3>1 DEF Outside
  <2>3. /\ op' = next /\ mem' = Loop(mem)
        /\ sends' = IF waiting = {} THEN sends ELSE SettleSend(n, "ok")
        /\ batches' = IF waiting = {} THEN batches ELSE Delivered(n)
    BY <1>2 DEF KernelBoundary
  <2>4. waiting # {} => n \in Unsettled
    <3>1. waiting # {} => n \in waiting
      BY ChosenMember
    <3> HIDE DEF n
    <3> QED
      BY <3>1
  <2> HIDE DEF final, reopen, settled, waiting, n, next
  <2>5. /\ Ledger(sends', batches')
        /\ Len(sends') = Len(sends) /\ Len(batches') = Len(batches)
    <3>1. CASE waiting = {}
      BY <1>0, <2>3, <3>1
    <3>2. CASE waiting # {}
      BY <2>3, <2>4, <3>2, BoundaryRows
    <3> QED
      BY <3>1, <3>2
  <2>6. mem' \in Driver /\ mem'.batch = mem.batch /\ mem'.pc = "loop"
    BY <1>0, <2>3, DriverLoop
  <2>7. Position(op', Len(sends'), Len(batches')) /\ mem'.batch \in 0..Len(batches')
    BY <1>0, <2>1, <2>3, <2>5, <2>6
  <2> QED
    BY <2>2, <2>5, <2>6, <2>7, Moved
<1> QED
  BY <1>1, <1>2

(* close_protocol: it asks for another acknowledgement, gives up after the  *)
(* last round, or settles at the boundary.                                  *)
LEMMA CloseProtocolInv ==
  ASSUME KInv, CloseProtocol
  PROVE  KInv'
<1> DEFINE fresh == {b \in OpenBatches : batches[b].turn = op.turn /\ batches[b].tried = {}}
           m == IF op.resp # 0 /\ fresh # {}
                THEN [mem EXCEPT !.batch = CHOOSE b \in fresh : TRUE] ELSE mem
           messages == op.resp # 0 /\ mode.native /\ (fresh # {} \/ HasIds(op.resp))
           lt == sends[op.resp].lt
<1>0. /\ Position(op, Len(sends), Len(batches)) /\ io \in Outside /\ mode \in Modes
      /\ mem \in Driver /\ mem.batch \in 0..Len(batches) /\ Ledger(sends, batches)
  BY DEF KInv
<1>1. m \in Driver /\ m.batch \in 0..Len(batches) /\ m.pc = mem.pc
  <2>1. CASE op.resp # 0 /\ fresh # {}
    <3>1. (CHOOSE b \in fresh : TRUE) \in fresh
      BY <2>1, ChosenMember
    <3>2. fresh \subseteq 1..Len(batches)
      BY Lengths DEF OpenBatches
    <3>3. PICK c \in 1..Len(batches) : m = [mem EXCEPT !.batch = c]
      BY <2>1, <3>1, <3>2
    <3> HIDE DEF m
    <3>4. c \in Nat /\ c \in 0..Len(batches)
      BY Lengths
    <3> QED
      BY <1>0, <3>3, <3>4, DriverBatch
  <2>2. CASE ~(op.resp # 0 /\ fresh # {})
    BY <1>0, <2>2
  <2> QED
    BY <2>1, <2>2
<1>2. mem.pc = "act" /\ UNCHANGED mode
  BY DEF CloseProtocol, Do
<1>7. (CASE op.work = "retry" ->
             mem' = Halt(mem, "illegal") /\ UNCHANGED <<op, sends, batches, io>>
        [] op.work # "retry" /\ messages /\ op.round < ClosingLimit ->
             Freeze(m, lt, TRUE, op.round + 1) /\ UNCHANGED io
        [] op.work # "retry" /\ messages /\ op.round >= ClosingLimit ->
             Save(Close(op), [m EXCEPT !.act = "final_boundary"]) /\ UNCHANGED io
        [] OTHER -> KernelBoundary)
  BY Zenon DEF CloseProtocol
<1>3. CASE op.work = "retry"
  <2>1. mem' = Halt(mem, "illegal") /\ UNCHANGED <<op, sends, batches, io>>
    BY <1>3 DEF CloseProtocol
  <2>2. io' \in Outside
    BY <1>0, <2>1
  <2> QED
    BY <1>2, <2>1, <2>2, HaltStep
<1>4. CASE op.work # "retry" /\ messages /\ op.round < ClosingLimit
  <2>0. ~(op.round >= ClosingLimit)
    <3>1. op.round \in Nat
      BY <1>0, Lengths, PositionNat
    <3> QED
      BY <1>4, <3>1, BudgetAssumption
  <2>1. Freeze(m, lt, TRUE, op.round + 1) /\ UNCHANGED <<mode, io>>
    <3> HIDE DEF fresh, m, messages, lt
    <3> QED
      BY <1>2, <1>4, <1>7, <2>0, Zenon
  <2>2. lt \in Nat /\ op.round + 1 \in Nat
    <3>1. op.resp \in 1..Len(sends)
      BY <1>0, <1>4, Lengths DEF Position
    <3>2. sends[op.resp] \in SendRecord
      BY <3>1, Lengths
    <3>3. lt \in Nat
      BY <3>2 DEF SendRecord
    <3> QED
      BY <1>0, <3>3, Lengths, PositionNat
  <2> HIDE DEF fresh, m, messages, lt
  <2>3. \/ op' = Frozen(m, lt, TRUE, op.round + 1) /\ mem' = Loop(m) /\ UNCHANGED <<sends, batches>>
        \/ mem' = Halt(m, "illegal") /\ UNCHANGED <<op, sends, batches>>
        \/ Refused
    BY <2>1 DEF Freeze, Save, Commit, Refused, Frozen
  <2>4. Position(Frozen(m, lt, TRUE, op.round + 1), Len(sends), Len(batches))
    BY <1>1, <2>2, FrozenPosition
  <2>5. /\ Loop(m) \in Driver /\ Loop(m).batch = m.batch /\ Loop(m).pc = "loop"
        /\ Halt(m, "illegal") \in Driver /\ Halt(m, "illegal").batch = m.batch
        /\ Halt(m, "illegal").pc = "end"
    BY <1>1, DriverLoop, DriverHalt
  <2>6. CASE Refused
    BY <2>1, <2>6, RefusedInv
  <2>7. CASE ~Refused
    <3>1. Position(op', Len(sends), Len(batches)) /\ UNCHANGED <<mode, sends, batches, io>>
      BY <1>0, <2>1, <2>3, <2>4, <2>7
    <3>2. mem' \in Driver /\ mem'.batch \in 0..Len(batches) /\ mem'.pc \in {"loop", "end"}
      BY <1>1, <2>3, <2>5, <2>7
    <3> QED
      BY <1>0, <3>1, <3>2, Repositioned
  <2> QED
    BY <2>6, <2>7
<1>5. CASE op.work # "retry" /\ messages /\ op.round >= ClosingLimit
  <2>0. ~(op.round < ClosingLimit)
    <3>1. op.round \in Nat
      BY <1>0, Lengths, PositionNat
    <3> QED
      BY <1>5, <3>1, BudgetAssumption
  <2>1. Save(Close(op), [m EXCEPT !.act = "final_boundary"]) /\ UNCHANGED <<mode, io>>
    <3> HIDE DEF fresh, m, messages, lt
    <3> QED
      BY <1>2, <1>5, <1>7, <2>0, Zenon
  <2> HIDE DEF fresh, m, messages, lt
  <2>2. \/ /\ op' = Close(op) /\ mem' = [m EXCEPT !.act = "final_boundary"]
           /\ UNCHANGED <<sends, batches>>
        \/ Refused
    BY <2>1 DEF Save, Commit, Refused
  <2>3. Position(Close(op), Len(sends), Len(batches))
    BY <1>0, Lengths, PositionClose
  <2>4. CASE Refused
    BY <2>1, <2>4, RefusedInv
  <2>5. CASE ~Refused
    <3>1. mem' = [m EXCEPT !.act = "final_boundary"]
      BY <2>2, <2>5
    <3>2. mem' \in Driver /\ mem'.batch = m.batch /\ mem'.pc = "act" /\ mem'.act = "final_boundary"
      BY <1>1, <1>2, <3>1 DEF Driver, Actions
    <3>3. InFlight' /\ Decision'
      BY <3>2 DEF InFlight, Decision
    <3>4. UNCHANGED <<mode, sends, batches, io>> /\ Position(op', Len(sends), Len(batches))
      BY <2>1, <2>2, <2>3, <2>5
    <3> QED
      BY <1>0, <1>1, <3>2, <3>3, <3>4 DEF KInv
  <2> QED
    BY <2>4, <2>5
<1>6. CASE op.work # "retry" /\ ~messages
  <2>1. KernelBoundary
    BY <1>6 DEF CloseProtocol
  <2> QED
    BY <1>2, <2>1, KernelBoundaryInv
<1> QED
  <2>1. op.round < ClosingLimit \/ op.round >= ClosingLimit
    BY <1>0, Lengths, PositionNat, BudgetAssumption
  <2> QED
    BY <1>3, <1>4, <1>5, <1>6, <2>1

LEMMA FinalBoundaryInv ==
  ASSUME KInv, FinalBoundary
  PROVE  KInv'
BY KernelBoundaryInv DEF FinalBoundary

-----------------------------------------------------------------------------
(* The theorems.                                                           *)

LEMMA KernelInv ==
  ASSUME KInv, KernelStep
  PROVE  KInv'
<1>1. CASE \E reply \in Replies : Receive(reply)
  BY <1>1, ReceiveInv
<1>2. CASE \E repeated \in BOOLEAN : Interpret(repeated)
  BY <1>2, InterpretInv
<1>3. CASE \E repeats \in BOOLEAN : Observe(repeats)
  BY <1>3, ObserveInv
<1>4. CASE \E complete, novel \in BOOLEAN : Evaluate(complete, novel)
  BY <1>4, EvaluateInv
<1>5. CASE \E st \in {"ok", "error"} : SettleSlot(st)
  BY <1>5, SettleSlotInv
<1>6. CASE Decide \/ BeginClosing \/ PrepareTurn \/ BeforeRequest \/ Submit \/ Send
  BY <1>6, DecideInv, ClosingInv, PrepareTurnInv, BeforeRequestInv, SubmitInv, SendInv
<1>7. CASE BeginBatch \/ RequestApproval \/ ReplayBatch \/ RunSlot \/ SkipSlot
  BY <1>7, BeginBatchInv, ReadOnlyInv, RunSlotInv, SettleSlotInv
<1>8. CASE Reconcile \/ WaitApproval \/ Boundary \/ Redeliver \/ PrepareControl
  BY <1>8, ReconcileInv, ReadOnlyInv, BoundaryInv, RedeliverInv, PrepareControlInv
<1>9. CASE CloseProtocol \/ FinalBoundary \/ Return \/ ResumeQuestion
  BY <1>9, CloseProtocolInv, FinalBoundaryInv, ReadOnlyInv, ResumeQuestionInv
<1>10. CASE SettleUnknown \/ Synthesize \/ FailInvariant
  BY <1>10, SendFailsInv, SynthesizeInv, ReadOnlyInv
<1> QED
  BY <1>1, <1>2, <1>3, <1>4, <1>5, <1>6, <1>7, <1>8, <1>9, <1>10 DEF KernelStep

LEMMA WorldInv ==
  ASSUME KInv, WorldStep
  PROVE  KInv'
<1>1. CASE WriteBusy
  BY <1>1, ClosingInv
<1>2. CASE \E st \in {"not_sent", "maybe_sent"} : SendFails(st)
  BY <1>2, SendFailsInv
<1>3. CASE ApprovalStep
  BY <1>3, OutsideInv
<1>4. CASE RequestCancel \/ QueueInput \/ AnswerQuestion \/ Drift
  BY <1>4, OutsideInv
<1>5. CASE RunCommand \/ Crash
  BY <1>5, RunCommandInv, CrashInv
<1> QED
  BY <1>1, <1>2, <1>3, <1>4, <1>5 DEF WorldStep, ExecutorStep, ApprovalStep

LEMMA NextInv == KInv /\ [Next]_vars => KInv'
<1> SUFFICES ASSUME KInv, [Next]_vars PROVE KInv'
  OBVIOUS
<1>1. CASE KernelStep
  BY <1>1, KernelInv
<1>2. CASE OuterStep
  BY <1>2, OuterInv
<1>3. CASE WorldStep
  BY <1>3, WorldInv
<1>4. CASE Done \/ UNCHANGED vars
  <2>1. UNCHANGED <<mode, op, sends, batches, mem, io>>
    BY <1>4 DEF Done, vars
  <2>2. io' \in Outside
    BY <2>1 DEF KInv
  <2> QED
    BY <2>1, <2>2, Elsewhere
<1> QED
  BY <1>1, <1>2, <1>3, <1>4 DEF Next

LEMMA InvHolds == Spec => []KInv
BY InitInv, NextInv, PTL DEF Spec

LEMMA InvTypeOK == KInv => TypeOK
<1> SUFFICES ASSUME KInv PROVE TypeOK
  OBVIOUS
<1>1. /\ mode \in Modes /\ io \in Outside /\ mem \in Driver /\ mem.batch \in 0..Len(batches)
      /\ Ledger(sends, batches) /\ Position(op, Len(sends), Len(batches))
  BY DEF KInv
<1>2. /\ op \in Operation /\ op.resp \in 0..Len(sends) /\ op.req.src \in 0..Len(sends)
      /\ op.last \in 0..Len(batches) /\ op.req.batch \in 0..Len(batches)
  BY <1>1 DEF Position
<1>3. \A n \in DOMAIN sends :
        sends[n].src \in 0..Len(sends) /\ sends[n].batch \in 0..Len(batches)
  BY <1>1, Lengths DEF Ledger
<1> QED
  BY <1>1, <1>2, <1>3, Lengths DEF TypeOK

LEMMA InvDeliveredOnce == KInv => DeliveredOnce
<1> SUFFICES ASSUME KInv PROVE DeliveredOnce
  OBVIOUS
<1>1. \A m, n \in 1..Len(sends) :
        m < n /\ sends[m].batch # 0 /\ sends[m].batch = sends[n].batch => ~sends[m].ran
  BY DEF KInv, Ledger
<1> QED
  BY <1>1, Lengths DEF DeliveredOnce

(* The operation, the ledger and the driver's memory keep their shapes, and *)
(* no reference dangles, through every step of drive_kernel, every Stop and *)
(* every crash.                                                             *)
THEOREM KernelTypeCorrect == Spec => []TypeOK
BY InvHolds, InvTypeOK, PTL

(* Whatever fails, crashes or fails over, a batch of tool results reaches   *)
(* the provider at most once: admit_provider_request offers it again only   *)
(* when every earlier attempt is proven unsent, and an attempt that ran is   *)
(* never settled as not_sent.                                               *)
THEOREM ResultsDeliveredOnce == Spec => []DeliveredOnce
BY InvHolds, InvDeliveredOnce, PTL
=============================================================================
