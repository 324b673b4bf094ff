---------------------------- MODULE MCNotifyLock ----------------------------
(* Instances of NotifyLock for TLC.                                        *)
EXTENDS NotifyLock, TLC

CONSTANTS body, dup, c1, c2, c3, c4

TwoTasks == {body, dup}
OneTask == {body}
ThreeCopies == {c1, c2, c3}
FourCopies == {c1, c2, c3, c4}

AnyPoint == Running
NoPoint == {}
MarkPoint == {"mark"}

CopySymmetry == Permutations(Copies)

=============================================================================
