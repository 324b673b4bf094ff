----------------------------- MODULE NotifyLock -----------------------------
(***************************************************************************)
(* The body of the chord, notify of fm4 .. fm6: several notify tasks of    *)
(* one pipeline run at once (the chord's own, duplicates of it, and what   *)
(* crashes and retries make of them), and NotifyCoordinator's state key in *)
(* Redis decides who sends the e-mail.                                     *)
(*                                                                         *)
(* A copy is one message of a notify task, from the queue through a worker *)
(* to its acknowledgement.  Time is counted in ticks: the key's TTL, retry *)
(* countdowns and the age of a running body.  A body may take any time up  *)
(* to RunTime.                                                             *)
(***************************************************************************)
EXTENDS Naturals, FiniteSets

CONSTANTS
    Tasks,          \* task ids of the notifies of one pipeline
    Copies,         \* bound: messages of them that exist at a time
    TTL,            \* NOTIFY_LOCK_TTL_SECONDS
    RetryDelay,     \* NOTIFY_RETRY_DELAY_SECONDS
    MaxRetries,     \* max_retries of notify
    DeliveryLimit,  \* x-delivery-limit of the pipeline queue
    TimeLimited,    \* notify has soft_time_limit and time_limit (fm6)
    SoftTime,       \* NOTIFY_SOFT_TIMEOUT_SECONDS
    RunTime,        \* the longest an execution lasts: time_limit in fm6
    MaxLosses,      \* bound: how often a worker is lost
    LossPoints      \* where a worker may be lost

Body == {"claim", "get", "send", "mark"}
Running == Body \cup {"retry", "store", "ack"}

NotifyLockConstants ==
    /\ IsFiniteSet(Tasks) /\ IsFiniteSet(Copies)
    /\ Cardinality(Tasks) <= Cardinality(Copies)
    /\ TTL \in Nat \ {0}
    /\ RetryDelay \in Nat /\ MaxRetries \in Nat
    /\ DeliveryLimit \in Nat \ {0}
    /\ TimeLimited \in BOOLEAN
    /\ SoftTime \in Nat /\ RunTime \in Nat
    /\ MaxLosses \in Nat
    /\ LossPoints \subseteq Running

ASSUME NotifyLockAssumption == NotifyLockConstants

VARIABLES
    key,         \* notify:state:<pipeline_id>
    ttl,         \* ticks until the key expires, 0 if it does not
    copy,        \* the copies
    result,      \* what the result backend has for each task
    sends,       \* SEND_COUNT_KEY: e-mails sent
    contended,   \* LOCK_CONTENTION_KEY is not 0
    losses,      \* workers lost so far
    limits       \* executions ended by a time limit so far

vars == <<key, ttl, copy, result, sends, contended, losses, limits>>

KeyState == {"absent", "not_sent", "sent"}

(* How an execution ends: NotifyPayload with sent=True or sent=False, a    *)
(* failure envelope, or Celery's own FAILURE state after time_limit.       *)
Outcome == {"sent", "skipped", "failed", "timed_out"}

(* timer counts a queued copy's countdown down and a running copy's age    *)
(* up.                                                                     *)
Copy ==
    [pc : {"free", "queued", "dead"} \cup Running,
     task : Tasks \cup {"none"}, retries : 0..MaxRetries,
     deliveries : 0..DeliveryLimit, timer : Nat,
     out : Outcome \cup {"none"}]

Free ==
    [pc |-> "free", task |-> "none", retries |-> 0, deliveries |-> 0,
     timer |-> 0, out |-> "none"]

NewCopy(t, retries, countdown) ==
    [pc |-> "queued", task |-> t, retries |-> retries, deliveries |-> 0,
     timer |-> countdown, out |-> "none"]

At(c, pc) == copy[c].pc = pc

Go(c, pc) == copy' = [copy EXCEPT ![c].pc = pc]

End(c, out) == copy' = [copy EXCEPT ![c].pc = "store", ![c].out = out]

-----------------------------------------------------------------------------
(* Each notify begins as one message; which of the interchangeable copies  *)
(* it is does not matter.                                                  *)
FirstCopy ==
    CHOOSE f \in [Tasks -> Copies] :
        \A t, u \in Tasks : f[t] = f[u] => t = u

Init ==
    /\ key = "absent" /\ ttl = 0
    /\ copy = [c \in Copies |->
                  IF \E t \in Tasks : FirstCopy[t] = c
                  THEN NewCopy(CHOOSE t \in Tasks : FirstCopy[t] = c, 0, 0)
                  ELSE Free]
    /\ result = [t \in Tasks |-> "none"]
    /\ sends = 0 /\ contended = FALSE
    /\ losses = 0 /\ limits = 0

Start(c) ==
    /\ At(c, "queued") /\ copy[c].timer = 0
    /\ Go(c, "claim")
    /\ UNCHANGED <<key, ttl, result, sends, contended, losses, limits>>

(* Mutant: a claim by GET and SET, without NX.                             *)
ClaimNotNx(c) ==
    /\ At(c, "claim")
    /\ IF key # "sent"
       THEN key' = "not_sent" /\ ttl' = TTL /\ Go(c, "send")
       ELSE Go(c, "get") /\ UNCHANGED <<key, ttl>>
    /\ UNCHANGED <<result, sends, contended, losses, limits>>

(* try_claim's SET NX EX.                                                  *)
Claim(c) ==
    /\ At(c, "claim")
    /\ \/ /\ key = "absent"
          /\ key' = "not_sent"
          /\ ttl' = TTL
          /\ Go(c, "send")
       \/ /\ key # "absent"
          /\ Go(c, "get")
          /\ UNCHANGED <<key, ttl>>
    /\ UNCHANGED <<result, sends, contended, losses, limits>>

(* Mutants: a busy-retry without a budget; a held lock taken for sent.     *)
GetForever(c) ==
    /\ At(c, "get")
    /\ IF key = "sent" THEN End(c, "skipped") ELSE Go(c, "retry")
    /\ UNCHANGED <<key, ttl, result, sends, contended, losses, limits>>

GetSkips(c) ==
    /\ At(c, "get")
    /\ End(c, "skipped")
    /\ UNCHANGED <<key, ttl, result, sends, contended, losses, limits>>

(* try_claim's GET, a command of its own: the key may have changed or      *)
(* expired since.  CONTENDED is a retry while the budget lasts; after it   *)
(* MaxRetriesExceededError becomes a failure envelope.                     *)
Get(c) ==
    /\ At(c, "get")
    /\ \/ /\ key = "sent"
          /\ End(c, "skipped")
          /\ UNCHANGED contended
       \/ /\ key # "sent"
          /\ contended' = TRUE
          /\ IF copy[c].retries < MaxRetries THEN Go(c, "retry")
                                             ELSE End(c, "failed")
    /\ UNCHANGED <<key, ttl, result, sends, losses, limits>>

SendEmail(c) ==
    /\ At(c, "send")
    /\ sends' = sends + 1
    /\ Go(c, "mark")
    /\ UNCHANGED <<key, ttl, result, contended, losses, limits>>

(* Mutants: mark_sent with the TTL of the claim; mark_sent releasing the   *)
(* lock like an ordinary mutex.                                            *)
MarkSentExpiring(c) ==
    /\ At(c, "mark")
    /\ key' = "sent" /\ ttl' = TTL
    /\ End(c, "sent")
    /\ UNCHANGED <<result, sends, contended, losses, limits>>

MarkSentReleases(c) ==
    /\ At(c, "mark")
    /\ key' = "absent" /\ ttl' = 0
    /\ End(c, "sent")
    /\ UNCHANGED <<result, sends, contended, losses, limits>>

(* mark_sent: no TTL, and no look at what the key says.                    *)
MarkSent(c) ==
    /\ At(c, "mark")
    /\ key' = "sent"
    /\ ttl' = 0
    /\ End(c, "sent")
    /\ UNCHANGED <<result, sends, contended, losses, limits>>

(* Mutants: a retry without countdown; a retry that is not published.      *)
PublishRetryAtOnce(c, new) ==
    /\ At(c, "retry")
    /\ At(new, "free")
    /\ copy' = [copy EXCEPT
                  ![c].pc = "ack",
                  ![new] = NewCopy(copy[c].task, copy[c].retries + 1, 0)]
    /\ UNCHANGED <<key, ttl, result, sends, contended, losses, limits>>

PublishRetryDropped(c, new) ==
    /\ At(c, "retry")
    /\ Go(c, "ack")
    /\ UNCHANGED <<key, ttl, result, sends, contended, losses, limits>>

(* self.retry() publishes the retry as a message of its own, with a fresh  *)
(* delivery count; the old one is acknowledged after it.                   *)
PublishRetry(c, new) ==
    /\ At(c, "retry")
    /\ At(new, "free")
    /\ copy' = [copy EXCEPT
                  ![c].pc = "ack",
                  ![new] = NewCopy(copy[c].task, copy[c].retries + 1,
                                   RetryDelay)]
    /\ UNCHANGED <<key, ttl, result, sends, contended, losses, limits>>

(* A stored result of Celery state SUCCESS, which every envelope has, is   *)
(* never overwritten.                                                      *)
Record(t, out) ==
    result' = [result EXCEPT ![t] =
                  IF @ \in {"none", "timed_out"} THEN out ELSE @]

Store(c) ==
    /\ At(c, "store")
    /\ Record(copy[c].task, copy[c].out)
    /\ Go(c, "ack")
    /\ UNCHANGED <<key, ttl, sends, contended, losses, limits>>

Ack(c) ==
    /\ At(c, "ack")
    /\ copy' = [copy EXCEPT ![c] = Free]
    /\ UNCHANGED <<key, ttl, result, sends, contended, losses, limits>>

-----------------------------------------------------------------------------
(* acks_late and reject_on_worker_lost: the message is redelivered, or at  *)
(* the delivery limit dead-lettered.                                       *)
Redelivered(k) ==
    [k EXCEPT !.pc = "queued", !.deliveries = @ + 1, !.timer = 0,
              !.out = "none"]

DeadLettered(k) == [k EXCEPT !.pc = "dead", !.timer = 0, !.out = "none"]

Lose(c) ==
    /\ copy[c].pc \in LossPoints
    /\ losses < MaxLosses
    /\ losses' = losses + 1
    /\ \/ /\ copy[c].deliveries < DeliveryLimit
          /\ copy' = [copy EXCEPT ![c] = Redelivered(@)]
       \/ /\ copy[c].deliveries + 1 >= DeliveryLimit
          /\ copy' = [copy EXCEPT ![c] = DeadLettered(@)]
    /\ UNCHANGED <<key, ttl, result, sends, contended, limits>>

(* Mutant: a drained message that is never acknowledged.                   *)
DropUnacked(c) == At(c, "dead") /\ UNCHANGED vars

(* drain_dlq: notify's message has no chord in its embed, so it is         *)
(* acknowledged and skipped.                                               *)
Drop(c) ==
    /\ At(c, "dead")
    /\ copy' = [copy EXCEPT ![c] = Free]
    /\ UNCHANGED <<key, ttl, result, sends, contended, losses, limits>>

(* SoftTimeLimitExceeded in the body is caught by @enveloped.              *)
SoftLimit(c) ==
    /\ TimeLimited
    /\ copy[c].pc \in Body
    /\ copy[c].timer >= SoftTime
    /\ limits' = limits + 1
    /\ End(c, "failed")
    /\ UNCHANGED <<key, ttl, result, sends, contended, losses>>

(* time_limit: on_timeout records the failure, acknowledges the message    *)
(* and kills the process.                                                  *)
HardLimit(c) ==
    /\ TimeLimited
    /\ copy[c].pc \in Running \ {"ack"}
    /\ copy[c].timer = RunTime
    /\ limits' = limits + 1
    /\ Record(copy[c].task, "timed_out")
    /\ copy' = [copy EXCEPT ![c] = Free]
    /\ UNCHANGED <<key, ttl, sends, contended, losses>>

(* Time passes: countdowns run down, bodies age, the claim expires.        *)
Aged(k) ==
    CASE k.pc = "queued" -> [k EXCEPT !.timer = IF @ = 0 THEN 0 ELSE @ - 1]
      [] k.pc \in Running -> [k EXCEPT !.timer = @ + 1]
      [] OTHER -> k

Tick ==
    /\ \A c \in Copies : copy[c].pc \in Running => copy[c].timer < RunTime
    /\ copy' = [c \in Copies |-> Aged(copy[c])]
    /\ ttl' = IF ttl = 0 THEN 0 ELSE ttl - 1
    /\ key' = IF ttl = 1 THEN "absent" ELSE key
    /\ UNCHANGED <<result, sends, contended, losses, limits>>

AtRest == \A c \in Copies : At(c, "free")

Rest == AtRest /\ UNCHANGED vars

-----------------------------------------------------------------------------
Progress(c) ==
    \/ Start(c) \/ Claim(c) \/ Get(c) \/ SendEmail(c) \/ MarkSent(c)
    \/ (\E new \in Copies : PublishRetry(c, new))
    \/ Store(c) \/ Ack(c) \/ Drop(c)

Next ==
    \/ \E c \in Copies :
         Progress(c) \/ Lose(c) \/ SoftLimit(c) \/ HardLimit(c)
    \/ Tick
    \/ Rest

(* A copy that can go on does, and time passes.                            *)
Fairness ==
    /\ \A c \in Copies : WF_vars(Progress(c))
    /\ WF_vars(Tick)

Spec == Init /\ [][Next]_vars

FairSpec == Spec /\ Fairness

-----------------------------------------------------------------------------
(* Properties.                                                             *)

CopiesOK ==
    /\ copy \in [Copies -> Copy]
    /\ \A c \in Copies :
         /\ copy[c].pc # "free" => copy[c].task \in Tasks
         /\ copy[c].pc = "store" => copy[c].out \in Outcome
         /\ copy[c].pc = "retry" => copy[c].retries < MaxRetries

(* Every variable has its type, a message its task, and a result that is   *)
(* to be stored an outcome.                                                *)
TypeOK ==
    /\ key \in KeyState
    /\ ttl \in 0..TTL
    /\ CopiesOK
    /\ result \in [Tasks -> Outcome \cup {"none"}]
    /\ sends \in Nat /\ contended \in BOOLEAN
    /\ losses \in Nat /\ limits \in Nat

Holding(c) == copy[c].pc \in {"send", "mark"}

(* Between its SET NX and its mark_sent a notify is the only one there,    *)
(* and the key it set is still its own, provided no execution outlives the *)
(* key's TTL (time_limit 300s against 600s in fm6).                        *)
MutualExclusion ==
    RunTime < TTL =>
        /\ \A c \in Copies : Holding(c) => key = "not_sent"
        /\ \A c, e \in Copies : Holding(c) /\ Holding(e) => c = e

(* "sent is terminal": once the key says sent it stays so and no e-mail    *)
(* is sent any more, by whatever copy is still running.                    *)
SentIsTerminal ==
    [][RunTime < TTL /\ key = "sent" => key' = "sent" /\ sends' = sends]_vars

(* A notify that says another one sent the e-mail, or that it did, is      *)
(* right; and at most one says it did.  (assert_fm4_notify_idempotent's    *)
(* first.payload.sent and second.payload.sent.)                            *)
ResultsAreTrue ==
    /\ \A t \in Tasks : result[t] \in {"sent", "skipped"} => sends >= 1
    /\ RunTime < TTL =>
         \A t, u \in Tasks :
             result[t] = "sent" /\ result[u] = "sent" => t = u

(* The e-mail is sent once, and once more at most for each execution that  *)
(* a crash or a time limit cut short.                                      *)
SendsBounded == RunTime < TTL => sends <= 1 + losses + limits

(* Left alone, and with the sending done before the retry budget is        *)
(* spent, one notify sends and every other one finds it sent: no           *)
(* duplicate ends in a failure envelope.                                   *)
DuplicatesSkip ==
    RunTime < TTL /\ RunTime < MaxRetries * RetryDelay
      /\ losses = 0 /\ limits = 0
        => \A t \in Tasks : result[t] # "failed"

(* A crash of the notify that holds the claim leaves a redelivery to send  *)
(* the e-mail: when all is over the key says sent.                         *)
CrashResends == AtRest => key = "sent"

(* Left alone, every notify ends with a result and the e-mail is sent:     *)
(* nobody waits for ever on a lock somebody else holds.                    *)
AllFinish ==
    <>(\/ losses + limits > 0
       \/ sends >= 1 /\ \A t \in Tasks : result[t] # "none")

(* Crashes and time limits or not, the busy-retries come to an end: no     *)
(* notify circulates for ever.                                             *)
Settles == <>[]AtRest

=============================================================================
