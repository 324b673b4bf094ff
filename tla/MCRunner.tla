------------------------------ MODULE MCRunner ------------------------------
(* Instances of Runner for TLC; a tick is half a second scaled down.       *)
EXTENDS Runner

CONSTANTS c1, c2, c3, c4

TwoTasks == {ChordNotify, Duplicate}
FourCopies == {c1, c2, c3, c4}

AnyPoint == Running
MarkPoint == {"mark"}

=============================================================================
