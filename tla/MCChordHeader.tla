--------------------------- MODULE MCChordHeader ---------------------------
(* Instances of ChordHeader for TLC: documents and slots as model values,  *)
(* and schedules cut from the FLAKE_SCHEDULEs of the repository.           *)
EXTENDS ChordHeader, TLC

CONSTANTS d1, d2, w1, w2

TwoDocs == {d1, d2}
TwoSlots == {w1, w2}

Healthy == d1 :> NoFlake @@ d2 :> NoFlake
PoisonFlake ==
    d1 :> [kind |-> "POISON", times |-> 0] @@ d2 :> [kind |-> "TIMES", times |-> 1]

AckPoint == {"ack"}
AnyPoint == Busy

SlotSymmetry == Permutations(TwoSlots)

=============================================================================
