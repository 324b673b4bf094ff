------------------------------ MODULE TaskExit ------------------------------
(***************************************************************************)
(* What one execution of a header task amounts to: the outcome of the      *)
(* body under FLAKE_SCHEDULE, and what the decorator stack                 *)
(*                                                                         *)
(*    @app.task -> @enveloped -> @transient_retryable -> @hard_timeout     *)
(*                                                                         *)
(* turns that outcome into before Celery sees it.                          *)
(*                                                                         *)
(* The repository is one pipeline in seven cumulative versions, fm0 ..     *)
(* fm6; each file adds one pattern to the file before it.  Version says    *)
(* which of them is modelled and the operators below say which patterns    *)
(* that file has.                                                          *)
(***************************************************************************)
EXTENDS Naturals

CONSTANTS
    Version,      \* which fmN_*.py is modelled, 0 .. 6
    MaxRetries    \* budget of @transient_retryable

ASSUME TaskExitAssumption ==
    /\ Version \in 0..6
    /\ MaxRetries \in Nat

-----------------------------------------------------------------------------
(* The pattern each file adds.                                             *)

Enveloped   == Version >= 1    \* FM-1: @enveloped on every task
AcksLate    == Version >= 2    \* FM-2: acks_late + reject_on_worker_lost
DeadLetters == Version >= 3    \* FM-3: x-delivery-limit, DLX, drain_dlq
Retryable   == Version >= 5    \* FM-5: @transient_retryable
TimeLimits  == Version >= 6    \* FM-6: soft_time_limit and @hard_timeout

-----------------------------------------------------------------------------
(* FLAKE_SCHEDULE entries.  An int N of the schedule is kind "TIMES" with  *)
(* times = N; a doc without an entry behaves as NoFlake.                   *)

FlakeKind == {"NONE", "FAIL", "CRASH_ONCE", "POISON", "TIMES",
              "FLAKE_FOREVER", "SOFT_HANG", "HARD_HANG_MANUAL"}

FlakeEntry == [kind : FlakeKind, times : Nat]

NoFlake == [kind |-> "NONE", times |-> 0]

(* The sentinels a version's schedule may contain.                         *)
KnownKinds ==
    {"NONE", "FAIL"}
      \cup (IF AcksLate    THEN {"CRASH_ONCE"} ELSE {})
      \cup (IF DeadLetters THEN {"POISON"} ELSE {})
      \cup (IF Retryable   THEN {"TIMES", "FLAKE_FOREVER"} ELSE {})
      \cup (IF TimeLimits  THEN {"SOFT_HANG", "HARD_HANG_MANUAL"} ELSE {})

-----------------------------------------------------------------------------
(* How a body ends.                                                        *)
(*   return     ParsePayload for the doc                                   *)
(*   unknown    ParsePayload for doc_id "unknown": the fetch envelope had  *)
(*              no payload                                                 *)
(*   raise      an exception no decorator retries (RuntimeError)           *)
(*   transient  TransientServiceError                                      *)
(*   soft       SoftTimeLimitExceeded (SIGUSR1)                            *)
(*   hard       HardTimeoutExceeded (@hard_timeout's SIGALRM)              *)
(*   kill       SIGKILL: the body does not end at all                      *)
(* Three more are written into the result backend without the body:        *)
(*   dlq        the envelope drain_dlq writes for a dead-lettered member   *)
(*   lost       Celery's own mark_as_failure(WorkerLostError)              *)
(*   limit      its mark_as_failure of a limit no decorator has caught     *)
BodyOutcome ==
    {"return", "unknown", "raise", "transient", "soft", "hard", "kill"}

Reason == (BodyOutcome \ {"kill"}) \cup {"dlq", "lost", "limit"}

(* Mutant of IsTransient below: one transient error too few.               *)
IsTransientOneLess(entry, n) ==
    \/ entry.kind = "FLAKE_FOREVER"
    \/ entry.kind = "TIMES" /\ n < entry.times

(* The dispatch of parse_document on its schedule entry, in the order of   *)
(* the source; n is the value incr_attempts returned.                      *)
IsKilled(entry, n) ==
    \/ entry.kind = "CRASH_ONCE" /\ n = 1
    \/ entry.kind = "POISON"

IsTransient(entry, n) ==
    \/ entry.kind = "FLAKE_FOREVER"
    \/ entry.kind = "TIMES" /\ n <= entry.times

ParseOutcome(entry, n) ==
    CASE entry.kind = "FAIL"             -> "raise"
      [] IsKilled(entry, n)              -> "kill"
      [] IsTransient(entry, n)           -> "transient"
      [] entry.kind = "SOFT_HANG"        -> "soft"
      [] entry.kind = "HARD_HANG_MANUAL" -> "hard"
      [] OTHER                           -> "return"

-----------------------------------------------------------------------------
(* The decorators.                                                         *)

(* Mutant: a budget counted one too low.                                   *)
RetriesOneLess(outcome, retries) ==
    Retryable /\ outcome = "transient" /\ retries + 1 < MaxRetries

(* transient_retryable: a listed exception is turned into self.retry()     *)
(* until the budget is spent; then it is raised again.                     *)
Retries(outcome, retries) ==
    Retryable /\ outcome = "transient" /\ retries < MaxRetries

(* enveloped: the status in the envelope, and the state Celery records.    *)
(* WorkerLostError and an uncaught limit never pass through the decorators.*)
Status(reason) ==
    IF reason \in {"return", "unknown"} THEN "SUCCESS" ELSE "FAILURE"

(* Mutants: @enveloped forgotten; drain_dlq calling mark_as_failure.       *)
CeleryStateRaw(reason) == Status(reason)

CeleryStateDrainFails(reason) ==
    IF reason \in {"lost", "limit", "dlq"} THEN "FAILURE" ELSE "SUCCESS"

CeleryState(reason) ==
    IF reason \in {"lost", "limit"} \/ (~Enveloped /\ Status(reason) = "FAILURE")
    THEN "FAILURE" ELSE "SUCCESS"

=============================================================================
