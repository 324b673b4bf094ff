----------------------------- MODULE MCHarness -----------------------------
(* Instances of Harness for TLC: fm0 and one more that share the queue     *)
(* "celery", and one with queues of its own.                               *)
EXTENDS Harness

ThreeFMs == <<"fm0", "fm1", "fm3">>
Sharing == {"fm0", "fm1"}

=============================================================================
