---------------------------- MODULE MCAdmission ----------------------------
(* One guest reader and two scavengers: two prefetches queue in order, and a   *)
(* prefetch overtakes a fill.                                                *)
EXTENDS Admission, TLC

CONSTANTS d1, p1, f1

MCClients == {d1, p1, f1}

MCServes == (d1 :> {"OnDemand"}) @@ (p1 :> {"Prefetch"}) @@
            (f1 :> {"Prefetch", "Fill"})

MCSamples == {0, 2}
=============================================================================
