---------------------------- MODULE MCScheduler ----------------------------
(* Instances of Scheduler for TLC: p joins or owns q. *)
EXTENDS Scheduler, TLC
CONSTANTS p, q

PairNeeds == (p :> {q}) @@ (q :> {})
NoNeeds == (p :> {}) @@ (q :> {})
=============================================================================
