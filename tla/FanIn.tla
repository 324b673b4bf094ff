------------------------------- MODULE FanIn -------------------------------
(***************************************************************************)
(* What the pipeline promises its user, whatever happens to the documents: *)
(* every document ends once, as a success or a failure, and then one       *)
(* notify message reports all of them.  It is what the README asks of the  *)
(* finished pipeline; fm2 .. fm6 are the code that is to deliver it.       *)
(*                                                                         *)
(* The promise may be waived, when something has happened for which the    *)
(* code has no answer; before that it is kept in full, and from then on    *)
(* nothing is promised.                                                    *)
(***************************************************************************)
EXTENDS Naturals

CONSTANT Docs

VARIABLES
    outcome,   \* how each document ended, or "pending"
    notified,  \* notify messages published
    waived     \* nothing is promised any more

vars == <<outcome, notified, waived>>

Status == {"SUCCESS", "FAILURE"}

Init ==
    /\ outcome = [d \in Docs |-> "pending"]
    /\ notified = 0
    /\ waived = FALSE

Finish(d, status) ==
    /\ ~waived
    /\ outcome[d] = "pending"
    /\ outcome' = [outcome EXCEPT ![d] = status]
    /\ UNCHANGED <<notified, waived>>

Notify ==
    /\ ~waived
    /\ \A d \in Docs : outcome[d] # "pending"
    /\ notified = 0
    /\ notified' = 1
    /\ UNCHANGED <<outcome, waived>>

Waive ==
    /\ ~waived
    /\ waived' = TRUE
    /\ UNCHANGED <<outcome, notified>>

Unpromised ==
    /\ waived /\ waived'
    /\ outcome' \in [Docs -> Status \cup {"pending"}]
    /\ notified' \in Nat

Promised == (\E d \in Docs, status \in Status : Finish(d, status)) \/ Notify

Next == Promised \/ Waive \/ Unpromised

Spec == Init /\ [][Next]_vars

FairSpec == Spec /\ WF_vars(Promised)

=============================================================================
