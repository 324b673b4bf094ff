------------------------------- MODULE Report -------------------------------
(***************************************************************************)
(* What the user of the pipeline hears of it: the header of ChordHeader,   *)
(* the notify task that counts the results, and run_pipeline, which waits  *)
(* for notify's result and asserts what it should say.                     *)
(*                                                                         *)
(* This is all there is of fm0 .. fm3.  From fm4 on notify also takes a    *)
(* lock before it counts (NotifyLock) and run_pipeline fires a duplicate   *)
(* (Runner); both are left out here, and the assertions of fm5 and fm6     *)
(* about documents are kept.  Time is left out as well: a deadline may     *)
(* pass whenever run_pipeline waits.                                       *)
(***************************************************************************)
EXTENDS ChordHeader

VARIABLES
    notices,   \* the notify message of each published body
    answer,    \* what the result backend has for the body's task id
    runner     \* where run_pipeline is

reportVars == <<notices, answer, runner>>

allVars == <<vars, reportVars>>

NoAnswer == [state |-> "none", ok |-> 0, failed |-> 0]

(* ChordError or WorkerLostError in place of a result.                     *)
Failure(error) == [state |-> error, ok |-> 0, failed |-> 0]

Answer ==
    [state : {"none", "SUCCESS", "ChordError", "WorkerLostError"},
     ok : Nat, failed : Nat]

ReportInit ==
    /\ Init
    /\ notices = <<>>
    /\ answer = NoAnswer
    /\ runner = "wait"

(* The result backend does not replace a SUCCESS.                          *)
Record(a) == answer' = IF answer.state = "SUCCESS" THEN answer ELSE a

(* With a step of the header: a published body is a notify message, and a  *)
(* failed one has ChordError for its result.                               *)
Announce ==
    /\ notices' = IF bodies' = bodies THEN notices
                  ELSE Append(notices, [pc |-> "queued"])
    /\ IF ~chordFailed /\ chordFailed'
       THEN Record(Failure("ChordError")) ELSE UNCHANGED answer
    /\ UNCHANGED runner

Works(w) == (Progress(w) \/ Dispatch(w)) /\ Announce

Disturbed(w) ==
    /\ \/ SoftLimit(w) \/ LimitEscapes(w)
       \/ Lose(w) \/ Disconnect(w) \/ Cancelled(w)
    /\ Announce

-----------------------------------------------------------------------------
(* notify.                                                                 *)

Notice(i, from, to) ==
    /\ notices[i].pc = from
    /\ notices' = [notices EXCEPT ![i].pc = to]

StartNotify(i) ==
    /\ Notice(i, "queued", "run")
    /\ UNCHANGED <<vars, answer, runner>>

With(i, status) == {p \in bodies[i] : p.status = status}

(* Mutant: every result counted as ok.                                     *)
StoreNotifyAllOk(i) ==
    /\ Notice(i, "run", "stored")
    /\ Record([state |-> "SUCCESS", ok |-> Cardinality(bodies[i]),
               failed |-> 0])
    /\ UNCHANGED <<vars, runner>>

(* notify counts the successes and the failures among its results, and its *)
(* counts are stored.                                                      *)
StoreNotify(i) ==
    /\ Notice(i, "run", "stored")
    /\ Record([state |-> "SUCCESS", ok |-> Cardinality(With(i, "SUCCESS")),
               failed |-> Cardinality(With(i, "FAILURE"))])
    /\ UNCHANGED <<vars, runner>>

AckNotify(i) ==
    /\ Notice(i, "stored", "done")
    /\ UNCHANGED <<vars, answer, runner>>

(* The worker is lost in notify.  Acknowledged early (fm0, fm1), the       *)
(* message is lost with it, or the surviving parent stores                 *)
(* WorkerLostError.  What happens to a notify acknowledged late is in      *)
(* NotifyLock.                                                             *)
LoseNotify(i) ==
    /\ ~AcksLate
    /\ Notice(i, "run", "done") \/ Notice(i, "stored", "done")
    /\ losses < MaxLosses
    /\ losses' = losses + 1
    /\ Record(Failure("WorkerLostError")) \/ UNCHANGED answer
    /\ UNCHANGED <<ready, dlq, slot, join, sized, bodies, chordFailed,
                   attempts, dropped, timeouts, hits, runner>>

NotifyStep(i) == StartNotify(i) \/ StoreNotify(i) \/ AckNotify(i)

-----------------------------------------------------------------------------
(* run_pipeline.                                                           *)

(* result.ready() was seen in time.                                        *)
SeeAnswer ==
    /\ runner = "wait"
    /\ answer # NoAnswer
    /\ runner' = "judge"
    /\ UNCHANGED <<vars, notices, answer>>

(* The deadline passes.  wait_until raises without looking again; fm0      *)
(* looks once more, and reports the stall and returns.                     *)
GiveUp ==
    /\ runner = "wait"
    /\ Enveloped \/ answer = NoAnswer
    /\ runner' = IF Enveloped THEN "timed_out" ELSE "stalled"
    /\ UNCHANGED <<vars, notices, answer>>

(* assert_fm1_chord_body_fired; result.get() raises what is no SUCCESS.    *)
BodyFired == answer.state = "SUCCESS"

(* assert_fm2_redelivery_happened, assert_fm3_poison_bounded_at_dlq and    *)
(* assert_fm5_doc_attempts of a document, in the versions that have them.  *)
EntriesAsExpected(d) ==
    LET kind == Schedule[d].kind
        n == attempts[d]
    IN  /\ AcksLate /\ kind = "CRASH_ONCE" => n = 2
        /\ AcksLate /\ kind = "NONE" => n = 1
        /\ kind = "POISON" => n \in {DeliveryLimit, DeliveryLimit + 1}
        /\ Retryable /\ kind # "POISON" => n = ExpectedAttempts(d)

(* assert_fm5_retryable_result and assert_fm6_hang_envelopes.              *)
CountsAsExpected ==
    Retryable =>
        /\ answer.failed = Cardinality(ExpectedFailed)
        /\ answer.ok = Cardinality(Docs) - Cardinality(ExpectedFailed)

(* The assertions at the end; fm0 only asserts that it got no ChordError.  *)
Passes ==
    IF Enveloped
    THEN /\ BodyFired /\ CountsAsExpected
         /\ \A d \in Docs : EntriesAsExpected(d)
    ELSE answer.state # "ChordError"

(* Mutant: result.get(propagate=False) in fm1 as in fm0.                   *)
JudgeUnpropagated ==
    /\ runner = "judge"
    /\ runner' = IF answer.state # "ChordError" THEN "passed" ELSE "failed"
    /\ UNCHANGED <<vars, notices, answer>>

Judge ==
    /\ runner = "judge"
    /\ runner' = IF Passes THEN "passed" ELSE "failed"
    /\ UNCHANGED <<vars, notices, answer>>

RunnerStep == SeeAnswer \/ GiveUp \/ Judge

-----------------------------------------------------------------------------
NotifyDone == \A i \in DOMAIN notices : notices[i].pc = "done"

AllRest ==
    /\ AtRest /\ NotifyDone /\ runner \notin {"wait", "judge"}
    /\ UNCHANGED allVars

ReportNext ==
    \/ \E w \in Slots : Works(w) \/ Disturbed(w)
    \/ \E i \in DOMAIN notices : NotifyStep(i) \/ LoseNotify(i)
    \/ RunnerStep
    \/ AllRest

ReportSpec == ReportInit /\ [][ReportNext]_allVars

(* The workers and the runner go on, as in ChordHeader.                    *)
ReportFairSpec ==
    /\ ReportSpec
    /\ \A w \in Slots : WF_allVars(Works(w))
    /\ WF_allVars(\E i \in DOMAIN notices : NotifyStep(i))
    /\ WF_allVars(RunnerStep)

-----------------------------------------------------------------------------
(* Properties.                                                             *)

(* A run that passes has reported each document, and each as the schedule  *)
(* made it end, whatever was lost on the way: where a message is lost, or  *)
(* WorkerLostError recorded, the run does not pass.                        *)
PassedIsReported ==
    Enveloped /\ runner = "passed" =>
        /\ answer.failed = Cardinality(ExpectedFailed)
        /\ answer.ok = Cardinality(Docs) - Cardinality(ExpectedFailed)

(* With nothing going wrong but the schedule, every assertion at the end   *)
(* of run_pipeline holds, in every order of the tasks, the drain and the   *)
(* runner.                                                                 *)
UndisturbedPasses == Enveloped /\ Undisturbed => runner # "failed"

(* With @enveloped and no loss notify's result comes in the end, also if   *)
(* run_pipeline has given up waiting for it.                               *)
Reports == <>(answer.state = "SUCCESS" \/ ~Undisturbed \/ ~Enveloped)

=============================================================================
