------------------------------ MODULE MCReport ------------------------------
(* Instances of Report for TLC, with the documents and schedules of the    *)
(* header's.                                                               *)
EXTENDS Report, TLC

CONSTANTS d1, d2, d3, d4, d5, w1, w2

TwoDocs == {d1, d2}
FiveDocs == {d1, d2, d3, d4, d5}
TwoSlots == {w1, w2}

Kind(k) == [kind |-> k, times |-> 0]

OneFails == d1 :> Kind("FAIL") @@ d2 :> NoFlake
EveryKind ==
    d1 :> Kind("POISON") @@ d2 :> Kind("CRASH_ONCE")
      @@ d3 :> [kind |-> "TIMES", times |-> 1]
      @@ d4 :> Kind("SOFT_HANG") @@ d5 :> Kind("FLAKE_FOREVER")

AnyPoint == Busy
NoPoint == {}

SlotSymmetry == Permutations(TwoSlots)

=============================================================================
