----------------------------- MODULE MCPipeline -----------------------------
(* Instances of Pipeline for TLC.                                          *)
EXTENDS Pipeline, TLC

CONSTANTS d1, d2, w1, w2, c1, c2, c3

TwoDocs == {d1, d2}
TwoSlots == {w1, w2}
ThreeCopies == {c1, c2, c3}

PoisonFlake ==
    d1 :> [kind |-> "POISON", times |-> 0] @@ d2 :> [kind |-> "TIMES", times |-> 1]

AnyPoint == Busy
(* Running, of NotifyLock. *)
NotifyAnyPoint == {"claim", "get", "send", "mark", "retry", "store", "ack"}

Symmetry == Permutations(TwoSlots) \cup Permutations(ThreeCopies)

=============================================================================
