--------------------------- MODULE TaskLifecycle ---------------------------
(***************************************************************************)
(* What the durable kernel promises its callers, with no attempts, tokens, *)
(* commits, scheduler or process in sight.  A submission is accepted once, *)
(* stays open until exactly one outcome is recorded, is answered at most   *)
(* once, is never answered after a Stop was recorded, and is answered only *)
(* when no work it owns is still open.  DurableTasks implements this.      *)
(***************************************************************************)
EXTENDS Naturals

CONSTANT Tasks

VARIABLES
  state,    \* what a caller can learn of each submission
  reply,    \* how many answers the conversation holds for it
  owners    \* the tasks that own it, directly or not

lifecycleVars == <<state, reply, owners>>

States == {"absent", "open", "stopping", "answered", "unanswered", "cancelled"}

Open == {"open", "stopping"}

LifecycleInit ==
  /\ state = [t \in Tasks |-> "absent"]
  /\ reply = [t \in Tasks |-> 0]
  /\ owners = [t \in Tasks |-> {}]

Submit(t) ==
  /\ state[t] = "absent"
  /\ \E S \in SUBSET Tasks :
       /\ t \notin S
       /\ \A o \in S : state[o] # "absent"
       /\ owners' = [owners EXCEPT ![t] = S]
  /\ state' = [state EXCEPT ![t] = "open"]
  /\ UNCHANGED reply

Stop(t) ==
  /\ state[t] = "open"
  /\ state' = [state EXCEPT ![t] = "stopping"]
  /\ UNCHANGED <<reply, owners>>

Answer(t) ==
  /\ state[t] = "open"
  /\ \A d \in Tasks : t \in owners[d] => state[d] \notin Open
  /\ state' = [state EXCEPT ![t] = "answered"]
  /\ reply' = [reply EXCEPT ![t] = @ + 1]
  /\ UNCHANGED owners

GiveUp(t) ==
  /\ state[t] \in Open
  /\ \E outcome \in {"unanswered", "cancelled"} :
       state' = [state EXCEPT ![t] = outcome]
  /\ UNCHANGED <<reply, owners>>

LifecycleNext ==
  \E t \in Tasks : Submit(t) \/ Stop(t) \/ Answer(t) \/ GiveUp(t)

LifecycleSpec == LifecycleInit /\ [][LifecycleNext]_lifecycleVars
=============================================================================
