--------------------------- MODULE MCDurableTasks ---------------------------
(* Instances of DurableTasks for TLC. *)
EXTENDS DurableTasks, TLC
CONSTANTS a, b, c

SoloOwners == a :> {NoTask}
PairOwners == (a :> {NoTask}) @@ (b :> {a})
ChainOwners == (a :> {NoTask}) @@ (b :> {a}) @@ (c :> {b})
PeerOwners == [t \in Tasks |-> {NoTask}]
NoWaits == {}
PairWaits == {<<b>>}
PeerWaits == {<<t>> : t \in Tasks}
=============================================================================
