------------------------------ MODULE Pipeline ------------------------------
(***************************************************************************)
(* The pipeline from end to end: the header of ChordHeader and, for each   *)
(* notify message its coordinator publishes, a copy in NotifyLock.  A      *)
(* worker lost between the publication of the body and the deletion of the *)
(* chord's keys can make the coordinator publish the body again, with the  *)
(* same task id: the duplicate FM-4's lock is there for.                   *)
(***************************************************************************)
EXTENDS ChordHeader

CONSTANTS
    NotifyId,          \* the task id of the chord's body
    Copies,            \* bound: notify messages that exist at a time
    TTL,               \* NOTIFY_LOCK_TTL_SECONDS
    RetryDelay,        \* NOTIFY_RETRY_DELAY_SECONDS
    NotifyRetries,     \* max_retries of notify
    SoftTime,          \* NOTIFY_SOFT_TIMEOUT_SECONDS
    RunTime,           \* NOTIFY_HARD_TIMEOUT_SECONDS
    NotifyLossPoints   \* where a worker may be lost in notify

VARIABLES key, ttl, copy, result, sends, contended, notifyLosses, limits

notifyVars ==
    <<key, ttl, copy, result, sends, contended, notifyLosses, limits>>

pipelineVars == <<vars, notifyVars>>

Lock == INSTANCE NotifyLock WITH
    Tasks <- {NotifyId}, MaxRetries <- NotifyRetries,
    TimeLimited <- TimeLimits, LossPoints <- NotifyLossPoints,
    losses <- notifyLosses

ASSUME PipelineAssumption == Lock!NotifyLockConstants

-----------------------------------------------------------------------------
(* run_pipeline has published the header; there is no notify yet.          *)
PipelineInit ==
    /\ Init
    /\ key = "absent" /\ ttl = 0
    /\ copy = [c \in Copies |-> Lock!Free]
    /\ result = [t \in {NotifyId} |-> "none"]
    /\ sends = 0 /\ contended = FALSE
    /\ notifyLosses = 0 /\ limits = 0

(* A published body is a notify message in the queue.                      *)
Publish ==
    \E new \in Copies :
        /\ Lock!At(new, "free")
        /\ copy' = [copy EXCEPT ![new] = Lock!NewCopy(NotifyId, 0, 0)]
        /\ UNCHANGED <<key, ttl, result, sends, contended, notifyLosses,
                       limits>>

(* Mutant: every body a pipeline of its own.                               *)
HeaderStepUnkeyed(w) ==
    /\ Progress(w) \/ Dispatch(w) \/ SoftLimit(w) \/ LimitEscapes(w)
         \/ Lose(w) \/ Disconnect(w) \/ Cancelled(w)
    /\ \/ bodies' = bodies /\ UNCHANGED notifyVars
       \/ /\ bodies' # bodies
          /\ \E new \in Copies :
               /\ Lock!At(new, "free")
               /\ copy' = [copy EXCEPT ![new] = Lock!NewCopy(NotifyId, 0, 0)]
          /\ key' = "absent" /\ ttl' = 0
          /\ UNCHANGED <<result, sends, contended, notifyLosses, limits>>

HeaderStep(w) ==
    /\ Progress(w) \/ Dispatch(w) \/ SoftLimit(w) \/ LimitEscapes(w)
         \/ Lose(w) \/ Disconnect(w) \/ Cancelled(w)
    /\ \/ bodies' = bodies /\ UNCHANGED notifyVars
       \/ bodies' # bodies /\ Publish

NotifyStep ==
    /\ \/ \E c \in Copies :
            \/ Lock!Progress(c) \/ Lock!Lose(c)
            \/ Lock!SoftLimit(c) \/ Lock!HardLimit(c)
       \/ Lock!Tick /\ ~Lock!AtRest
    /\ UNCHANGED vars

(* Header and notify have both come to rest.                               *)
AllAtRest == AtRest /\ Lock!AtRest

(* MaxLosses bounds the losses of both parts together.                     *)
PipelineNext ==
    /\ \/ \E w \in Slots : HeaderStep(w)
       \/ NotifyStep
       \/ AllAtRest /\ UNCHANGED pipelineVars
    /\ losses' + notifyLosses' <= MaxLosses

PipelineSpec == PipelineInit /\ [][PipelineNext]_pipelineVars

-----------------------------------------------------------------------------
(* Wherever header workers are lost, and however often that makes the      *)
(* coordinator publish the body, the user gets no second e-mail: only an   *)
(* execution of notify that is itself cut short can repeat it.             *)
EmailsBounded == RunTime < TTL => sends <= 1 + notifyLosses + limits

(* When all is over, a pipeline that has published notify, however often,  *)
(* and lost no execution of it has sent exactly one e-mail, and notify's   *)
(* result does not say that it failed: the copies that a header worker's   *)
(* loss adds have stepped aside.                                           *)
DeliveredOnce ==
    /\ RunTime < TTL /\ RunTime < NotifyRetries * RetryDelay
    /\ AllAtRest /\ bodies # <<>> /\ notifyLosses = 0 /\ limits = 0
    => sends = 1 /\ result[NotifyId] \in {"sent", "skipped"}

=============================================================================
