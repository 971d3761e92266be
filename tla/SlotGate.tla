------------------------------ MODULE SlotGate ------------------------------
(***************************************************************************)
(* What the admission funnel promises its callers, without queues, locks,  *)
(* reservations or wakes: a set of slot holders.  An on-demand read enters *)
(* at any moment; a scavenger enters only when no on-demand read holds a   *)
(* slot and there are fewer holders than the current window; whoever       *)
(* entered leaves.  The window moves between its bounds at any time.       *)
(***************************************************************************)
EXTENDS Integers, FiniteSets

CONSTANTS Clients, Low, High

VARIABLES holders, urgent, limit

vars == <<holders, urgent, limit>>

Init == holders = {} /\ urgent = {} /\ limit \in Low .. High

EnterOnDemand(p) ==
    /\ p \notin holders
    /\ holders' = holders \cup {p}
    /\ urgent' = urgent \cup {p}
    /\ UNCHANGED limit

EnterScavenger(p) ==
    /\ p \notin holders
    /\ urgent = {}
    /\ Cardinality(holders) < limit
    /\ holders' = holders \cup {p}
    /\ UNCHANGED <<urgent, limit>>

Leave(p) ==
    /\ p \in holders
    /\ holders' = holders \ {p}
    /\ urgent' = urgent \ {p}
    /\ limit' \in Low .. High

Adjust == limit' \in Low .. High /\ UNCHANGED <<holders, urgent>>

Next ==
    \/ \E p \in Clients : EnterOnDemand(p) \/ EnterScavenger(p) \/ Leave(p)
    \/ Adjust

Spec == Init /\ [][Next]_vars
=============================================================================
