---------------------------- MODULE ChordHeader ----------------------------
(***************************************************************************)
(* The header of the chord                                                 *)
(*                                                                         *)
(*    chord([fetch_document.s(d) | parse_document.s() for d in docs],      *)
(*          body = notify)                                                 *)
(*                                                                         *)
(* from the moment run_pipeline has published it to the moment Celery's    *)
(* Redis coordinator publishes notify: the broker's queues, the worker     *)
(* slots that run fetch_document, parse_document and drain_dlq, and the    *)
(* coordinator's keys.  The tasks, the decorators and drain_dlq are the    *)
(* repository's; the queue, the acknowledgements and the coordinator are   *)
(* Celery's and RabbitMQ's, modelled from how the code configures them.    *)
(*                                                                         *)
(* What a task does is split where a crash, a lost connection or another   *)
(* worker can come between: run the body, publish what follows, store the  *)
(* result and count the chord part, fire the body, delete the chord's      *)
(* keys, acknowledge.                                                      *)
(***************************************************************************)
EXTENDS TaskExit, Sequences, FiniteSets

CONSTANTS
    Docs,           \* the documents of the pipeline, one header chain each
    Unknown,        \* the doc_id "unknown"
    Schedule,       \* FLAKE_SCHEDULE
    DeliveryLimit,  \* x-delivery-limit of the pipeline queue
    Slots,          \* worker processes (--concurrency, over all workers)
    MaxLosses,      \* bound: how often a slot is lost besides the schedule
    MaxTimeouts,    \* bound: limits that expire besides the schedule
    LossPoints,     \* where a slot may be lost
    Disconnects     \* a loss may be of the broker connection alone

(* What a busy slot is about to do.                                        *)
Busy == {"body", "finalize", "chain", "retry", "published", "part", "fire",
         "cleanup", "ack"}

(* Points before the effect that a loss would repeat.                      *)
SafePoints == {"body", "finalize", "chain", "retry", "part"}

ASSUME ChordHeaderAssumption ==
    /\ IsFiniteSet(Docs) /\ Docs # {}
    /\ Unknown \notin Docs
    /\ Schedule \in [Docs -> {e \in FlakeEntry : e.kind \in KnownKinds}]
    /\ DeliveryLimit \in Nat \ {0}
    /\ MaxLosses \in Nat
    /\ MaxTimeouts \in Nat
    /\ LossPoints \subseteq Busy
    /\ Disconnects \in BOOLEAN

VARIABLES
    ready,       \* messages in <ns>.pipeline, by how many copies
    dlq,         \* messages in <ns>.dead_letters
    slot,        \* the worker slots
    join,        \* the coordinator's sorted set of chord parts
    sized,       \* the coordinator's chord-size key still exists
    bodies,      \* the results each published notify message carries
    chordFailed, \* the coordinator failed the body with ChordError
    attempts,    \* Redis attempts:<doc_id>, written by incr_attempts
    dropped,     \* docs whose message drain_dlq acknowledged unfinished
    losses,      \* slots lost so far
    timeouts,    \* limits expired so far
    hits         \* what a limit has met that it should not, see below

vars == <<ready, dlq, slot, join, sized, bodies, chordFailed, attempts,
          dropped, losses, timeouts, hits>>

-----------------------------------------------------------------------------
(* Data.                                                                   *)

(* A task message.  A parse message carries the envelope fetch returned,   *)
(* of which only the status matters: a FAILURE envelope has no payload.    *)
(* deliveries is RabbitMQ's x-delivery-count.                              *)
Message ==
    [task : {"fetch", "parse"}, doc : Docs, input : {"SUCCESS", "FAILURE"},
     retries : 0..MaxRetries, deliveries : 0..DeliveryLimit]

(* A result: Celery's state, the envelope's status, why it ended so, and   *)
(* the attempt numbers the envelope carries (0 when it carries none).      *)
Part ==
    [doc : Docs, state : {"SUCCESS", "FAILURE"},
     status : {"SUCCESS", "FAILURE"}, reason : Reason, attempts : Nat]

NoMessage ==
    [task |-> "none", doc |-> Unknown, input |-> "SUCCESS",
     retries |-> 0, deliveries |-> 0]

NoPart ==
    [doc |-> Unknown, state |-> "SUCCESS", status |-> "SUCCESS",
     reason |-> "none", attempts |-> 0]

Idle == [pc |-> "idle", msg |-> NoMessage, out |-> NoPart, mode |-> "task"]

FetchMessage(d) ==
    [task |-> "fetch", doc |-> d, input |-> "SUCCESS",
     retries |-> 0, deliveries |-> 0]

ParseMessage(d, status) ==
    [task |-> "parse", doc |-> d, input |-> status,
     retries |-> 0, deliveries |-> 0]

Put(queue, m) == [queue EXCEPT ![m] = @ + 1]
Take(queue, m) == [queue EXCEPT ![m] = @ - 1]

(* The result of message m when its execution ended for this reason.       *)
(* A success carries in ParsePayload the counter incr_attempts returned    *)
(* (fm2 on), a failure self.request.retries + 1; drain_dlq's carries None. *)
PartFor(m, reason, n) ==
    [doc |-> m.doc, state |-> CeleryState(reason),
     status |-> Status(reason), reason |-> reason,
     attempts |-> IF reason \in {"dlq", "lost", "limit"} THEN 0
                  ELSE IF Status(reason) = "SUCCESS" THEN n
                  ELSE m.retries + 1]

Holds(w, pc) == slot[w].pc = pc

Release(w) == slot' = [slot EXCEPT ![w] = Idle]

Step(w, pc, out) ==
    slot' = [slot EXCEPT ![w].pc = pc, ![w].out = out]

-----------------------------------------------------------------------------
(* run_pipeline has called chord.apply_async().                            *)
Init ==
    /\ ready = [m \in Message |->
                   IF \E d \in Docs : m = FetchMessage(d) THEN 1 ELSE 0]
    /\ dlq = [m \in Message |-> 0]
    /\ slot = [w \in Slots |-> Idle]
    /\ join = {}
    /\ sized = TRUE
    /\ bodies = <<>>
    /\ chordFailed = FALSE
    /\ attempts = [d \in Docs \cup {Unknown} |-> 0]
    /\ dropped = {}
    /\ losses = 0
    /\ timeouts = 0
    /\ hits = {}

(* A slot takes a message.  The queue is not kept in order: prefetch and   *)
(* retry countdowns reorder it.                                            *)
Deliver(w, m) ==
    /\ Holds(w, "idle")
    /\ ready[m] > 0
    /\ ready' = Take(ready, m)
    /\ slot' = [slot EXCEPT ![w] = [pc |-> "body", msg |-> m,
                                    out |-> NoPart, mode |-> "task"]]
    /\ UNCHANGED <<dlq, join, sized, bodies, chordFailed, attempts, dropped,
                   losses, timeouts, hits>>

(* fetch_document's body always returns a FetchPayload.                    *)
RunFetch(w) ==
    /\ Holds(w, "body")
    /\ slot[w].msg.task = "fetch"
    /\ Step(w, "chain", PartFor(slot[w].msg, "return", 1))
    /\ UNCHANGED <<ready, dlq, join, sized, bodies, chordFailed, attempts,
                   dropped, losses, timeouts, hits>>

(* parse_document takes the doc_id from the fetch envelope's payload and   *)
(* counts the attempt (fm2 on) before it looks at the schedule.            *)
DocId(m) == IF m.input = "SUCCESS" THEN m.doc ELSE Unknown

Attempt(m) == IF AcksLate THEN attempts[DocId(m)] + 1 ELSE 1

Outcome(m) ==
    IF DocId(m) = Unknown THEN "unknown"
    ELSE ParseOutcome(Schedule[m.doc], Attempt(m))

EnterParse(w) ==
    /\ Holds(w, "body")
    /\ slot[w].msg.task = "parse"
    /\ attempts' = IF AcksLate
                   THEN [attempts EXCEPT ![DocId(slot[w].msg)] = @ + 1]
                   ELSE attempts
    /\ UNCHANGED <<join, sized, bodies, chordFailed, dropped, losses,
                   timeouts, hits>>

(* The body returned or raised, and the decorators made a result of it.    *)
ParseEnds(w) ==
    LET m == slot[w].msg
    IN  /\ EnterParse(w)
        /\ Outcome(m) # "kill"
        /\ ~Retries(Outcome(m), m.retries)
        /\ Step(w, "part", PartFor(m, Outcome(m), Attempt(m)))
        /\ UNCHANGED <<ready, dlq>>

(* The body raised what @transient_retryable retries.                      *)
ParseRetries(w) ==
    LET m == slot[w].msg
    IN  /\ EnterParse(w)
        /\ Retries(Outcome(m), m.retries)
        /\ Step(w, "retry", NoPart)
        /\ UNCHANGED <<ready, dlq>>

(* Mutant: a queue without x-delivery-limit.                               *)
RequeueUncounted(m) == ready' = Put(ready, m) /\ UNCHANGED dlq

(* An unacknowledged message goes back to its queue and the quorum queue   *)
(* counts the delivery; at the limit it goes to the dead-letter exchange.  *)
(* Whether the limit itself still counts as within it differs between      *)
(* RabbitMQ versions (assert_fm3_poison_bounded_at_dlq allows for both).   *)
Requeue(m) ==
    \/ /\ ~DeadLetters
       /\ ready' = Put(ready, m)
       /\ UNCHANGED dlq
    \/ /\ DeadLetters
       /\ m.deliveries < DeliveryLimit
       /\ ready' = Put(ready, [m EXCEPT !.deliveries = @ + 1])
       /\ UNCHANGED dlq
    \/ /\ DeadLetters
       /\ m.deliveries + 1 >= DeliveryLimit
       /\ dlq' = Put(dlq, [m EXCEPT !.deliveries = 0])
       /\ UNCHANGED ready

(* Mutant: tasks without acks_late and reject_on_worker_lost.              *)
LoseTaskAcked(w) ==
    /\ IF slot[w].mode = "drain"
       THEN dlq' = Put(dlq, slot[w].msg) ELSE UNCHANGED dlq
    /\ Release(w)
    /\ UNCHANGED ready

(* The process in a slot is gone.  With acks_late and                      *)
(* reject_on_worker_lost its message is requeued (a drained message        *)
(* returns to the dead-letter queue, which has no limit).  Acknowledged    *)
(* early, the message is lost with the worker, or the surviving parent     *)
(* records WorkerLostError as the chord member's result.  A detached task  *)
(* has no message any more.                                                *)
LoseTask(w) ==
    LET s == slot[w]
    IN  \/ /\ s.mode = "drain"
           /\ dlq' = Put(dlq, s.msg)
           /\ Release(w)
           /\ UNCHANGED ready
        \/ /\ s.mode = "task" /\ AcksLate
           /\ Requeue(s.msg)
           /\ Release(w)
        \/ /\ s.mode = "detached" \/ (s.mode = "task" /\ ~AcksLate)
           /\ Release(w)
           /\ UNCHANGED <<ready, dlq>>
        \/ /\ s.mode = "task" /\ ~AcksLate
           /\ s.out.reason # "lost"
           /\ Step(w, "part", PartFor(s.msg, "lost", 0))
           /\ UNCHANGED <<ready, dlq>>

(* The body kills its own process (CRASH_ONCE, POISON).                    *)
ParseKilled(w) ==
    /\ EnterParse(w)
    /\ Outcome(slot[w].msg) = "kill"
    /\ LoseTask(w)

(* A crash or an OOM kill anywhere else.                                   *)
Lose(w) ==
    /\ slot[w].pc \in LossPoints
    /\ losses < MaxLosses
    /\ losses' = losses + 1
    /\ LoseTask(w)
    /\ UNCHANGED <<join, sized, bodies, chordFailed, attempts, dropped,
                   timeouts, hits>>

(* The worker's connection breaks while its task runs: the broker takes    *)
(* the unacknowledged message back, and the task goes on without it.       *)
Disconnect(w) ==
    /\ Disconnects /\ AcksLate
    /\ slot[w].mode = "task" /\ slot[w].pc \in LossPoints
    /\ losses < MaxLosses
    /\ losses' = losses + 1
    /\ Requeue(slot[w].msg)
    /\ slot' = [slot EXCEPT ![w].mode = "detached"]
    /\ UNCHANGED <<join, sized, bodies, chordFailed, attempts, dropped,
                   timeouts, hits>>

(* worker_cancel_long_running_tasks_on_connection_loss: the process of a   *)
(* detached task is killed, but not before it may have done more of it.    *)
Cancelled(w) ==
    /\ DeadLetters
    /\ slot[w].mode = "detached"
    /\ Release(w)
    /\ UNCHANGED <<ready, dlq, join, sized, bodies, chordFailed, attempts,
                   dropped, losses, timeouts, hits>>

(* Where a limit hits, parse_document may have counted the attempt or not. *)
MayHaveEntered(w) ==
    LET m == slot[w].msg
    IN  \/ UNCHANGED attempts
        \/ /\ Holds(w, "body") /\ m.task = "parse"
           /\ attempts' = [attempts EXCEPT ![DocId(m)] = @ + 1]

(* The soft limit expires in a task that should not have hung; @enveloped  *)
(* turns the exception into an envelope, in the body as well as around     *)
(* self.retry, also when the retry is already published.                   *)
SoftLimit(w) ==
    LET m == slot[w].msg
    IN  /\ TimeLimits
        /\ slot[w].pc \in {"body", "retry", "published"}
        /\ timeouts < MaxTimeouts
        /\ timeouts' = timeouts + 1
        /\ MayHaveEntered(w)
        /\ hits' = hits \cup ({slot[w].pc} \cap {"published"})
        /\ Step(w, IF m.task = "fetch" THEN "chain" ELSE "part",
                PartFor(m, "soft", 0))
        /\ UNCHANGED <<ready, dlq, join, sized, bodies, chordFailed, dropped,
                       losses>>

(* A limit of which no envelope is made: a signal that hits enveloped      *)
(* outside its try, or time_limit, at which the parent records the failure,*)
(* acknowledges and kills the process.  Celery stores a failed fetch as a  *)
(* failure of the chord member it would have led to.  (In Celery's own     *)
(* code, once it has published or stored the outcome, limits are left out.)*)
LimitEscapes(w) ==
    /\ TimeLimits
    /\ slot[w].pc \in SafePoints \cup {"published"}
    /\ slot[w].mode # "drain" /\ slot[w].out.reason # "limit"
    /\ timeouts < MaxTimeouts
    /\ timeouts' = timeouts + 1
    /\ MayHaveEntered(w)
    /\ hits' = hits \cup {"escape"} \cup ({slot[w].pc} \cap {"published"})
    /\ Step(w, "part", PartFor(slot[w].msg, "limit", 0))
    /\ UNCHANGED <<ready, dlq, join, sized, bodies, chordFailed, dropped,
                   losses>>

-----------------------------------------------------------------------------
(* After the body.                                                         *)

(* self.retry() publishes a new message ...                                *)
PublishRetry(w) ==
    /\ Holds(w, "retry")
    /\ ready' = Put(ready, [slot[w].msg EXCEPT !.retries = @ + 1,
                                               !.deliveries = 0])
    /\ Step(w, "published", NoPart)
    /\ UNCHANGED <<dlq, join, sized, bodies, chordFailed, attempts, dropped,
                   losses, timeouts, hits>>

(* Mutant: @enveloped without its `except Retry: raise`, which stores a    *)
(* failure although the retry is published.                                *)
RaiseRetrySwallowed(w) ==
    /\ Holds(w, "published")
    /\ Step(w, "part", PartFor(slot[w].msg, "raise", 0))
    /\ UNCHANGED <<ready, dlq, join, sized, bodies, chordFailed, attempts,
                   dropped, losses, timeouts, hits>>

(* ... and raises Retry, at which the old one is acknowledged.             *)
RaiseRetry(w) ==
    /\ Holds(w, "published")
    /\ Step(w, "ack", NoPart)
    /\ UNCHANGED <<ready, dlq, join, sized, bodies, chordFailed, attempts,
                   dropped, losses, timeouts, hits>>

(* Celery publishes the next task of the chain with the envelope as input. *)
PublishParse(w) ==
    /\ Holds(w, "chain")
    /\ ready' = Put(ready,
                    ParseMessage(slot[w].msg.doc, slot[w].out.status))
    /\ Step(w, "ack", NoPart)
    /\ UNCHANGED <<dlq, join, sized, bodies, chordFailed, attempts, dropped,
                   losses, timeouts, hits>>

(* Mutant: a chord size counted one too low.                               *)
PartReturnEarly(w) ==
    /\ Holds(w, "part")
    /\ join' = join \cup {slot[w].out}
    /\ Step(w, IF sized /\ Cardinality(join') >= Cardinality(Docs) - 1
               THEN "fire" ELSE "ack", NoPart)
    /\ UNCHANGED <<ready, dlq, sized, bodies, chordFailed, attempts, dropped,
                   losses, timeouts, hits>>

(* on_chord_part_return: one Redis transaction adds the result to the      *)
(* sorted set, counts it and reads the chord size.  The body is fired by   *)
(* whoever finds the count equal to the size.                              *)
PartReturn(w) ==
    /\ Holds(w, "part")
    /\ join' = join \cup {slot[w].out}
    /\ Step(w, IF sized /\ Cardinality(join') = Cardinality(Docs)
               THEN "fire" ELSE "ack", NoPart)
    /\ UNCHANGED <<ready, dlq, sized, bodies, chordFailed, attempts, dropped,
                   losses, timeouts, hits>>

(* Unpacking a FAILURE result raises ChordError, which fails the body and  *)
(* leaves the keys; otherwise notify is published with the results.        *)
FireBody(w) ==
    /\ Holds(w, "fire")
    /\ \/ /\ \E p \in join : p.state = "FAILURE"
          /\ chordFailed' = TRUE
          /\ Step(w, "ack", NoPart)
          /\ UNCHANGED bodies
       \/ /\ \A p \in join : p.state = "SUCCESS"
          /\ bodies' = Append(bodies, join)
          /\ Step(w, "cleanup", NoPart)
          /\ UNCHANGED chordFailed
    /\ UNCHANGED <<ready, dlq, join, sized, attempts, dropped, losses,
                   timeouts, hits>>

DeleteKeys(w) ==
    /\ Holds(w, "cleanup")
    /\ join' = {}
    /\ sized' = FALSE
    /\ Step(w, "ack", NoPart)
    /\ UNCHANGED <<ready, dlq, bodies, chordFailed, attempts, dropped, losses,
                   timeouts, hits>>

Ack(w) ==
    /\ Holds(w, "ack")
    /\ Release(w)
    /\ UNCHANGED <<ready, dlq, join, sized, bodies, chordFailed, attempts,
                   dropped, losses, timeouts, hits>>

-----------------------------------------------------------------------------
(* Mutant: the drain loop without `if msg is None: return`.                *)
DrainGetUnchecked(w, m) ==
    /\ DeadLetters
    /\ Holds(w, "idle")
    /\ dlq' = Take(dlq, m)
    /\ slot' = [slot EXCEPT ![w] = [pc |-> "finalize", msg |-> m,
                                    out |-> NoPart, mode |-> "drain"]]
    /\ UNCHANGED <<ready, join, sized, bodies, chordFailed, attempts, dropped,
                   losses, timeouts, hits>>

(* drain_dlq, published by beat every DRAIN_INTERVAL_SECONDS: its loop     *)
(* gets one dead letter after the other and finalizes each.                *)
DrainGet(w, m) ==
    /\ DeadLetters
    /\ Holds(w, "idle")
    /\ dlq[m] > 0
    /\ dlq' = Take(dlq, m)
    /\ slot' = [slot EXCEPT ![w] = [pc |-> "finalize", msg |-> m,
                                    out |-> NoPart, mode |-> "drain"]]
    /\ UNCHANGED <<ready, join, sized, bodies, chordFailed, attempts, dropped,
                   losses, timeouts, hits>>

(* Mutant: every dead letter acknowledged as a non-chord message.          *)
FinalizeDlqSkipsAll(w) ==
    /\ Holds(w, "finalize")
    /\ Release(w)
    /\ UNCHANGED <<ready, dlq, join, sized, bodies, chordFailed, attempts,
                   dropped, losses, timeouts, hits>>

(* _finalize_dlq_message: only the last task of a header chain carries the *)
(* chord in its embed, so a parse message gets an envelope and a fetch     *)
(* message is acknowledged and skipped.                                    *)
FinalizeDlq(w) ==
    /\ Holds(w, "finalize")
    /\ \/ /\ slot[w].msg.task = "parse"
          /\ Step(w, "part", PartFor(slot[w].msg, "dlq", 0))
          /\ UNCHANGED dropped
       \/ /\ slot[w].msg.task = "fetch"
          /\ dropped' = dropped \cup {slot[w].msg.doc}
          /\ Release(w)
    /\ UNCHANGED <<ready, dlq, join, sized, bodies, chordFailed, attempts,
                   losses, timeouts, hits>>

(* Nothing is queued and nothing runs: the program has come to rest.       *)
AtRest ==
    /\ \A m \in Message : ready[m] = 0 /\ dlq[m] = 0
    /\ \A w \in Slots : Holds(w, "idle")

Rest == AtRest /\ UNCHANGED vars

-----------------------------------------------------------------------------
Progress(w) ==
    \/ RunFetch(w) \/ ParseEnds(w) \/ ParseRetries(w) \/ ParseKilled(w)
    \/ PublishRetry(w) \/ RaiseRetry(w) \/ PublishParse(w)
    \/ PartReturn(w) \/ FireBody(w) \/ DeleteKeys(w) \/ Ack(w)
    \/ FinalizeDlq(w)

Dispatch(w) == \E m \in Message : Deliver(w, m) \/ DrainGet(w, m)

Next ==
    \/ \E w \in Slots :
         \/ Progress(w) \/ Dispatch(w) \/ SoftLimit(w) \/ LimitEscapes(w)
         \/ Lose(w) \/ Disconnect(w) \/ Cancelled(w)
    \/ Rest

(* A running task goes on, and a free slot takes some message or dead      *)
(* letter (prefetch, and beat every two seconds); nothing makes a slot be  *)
(* lost or a limit expire.                                                 *)
Fairness ==
    \A w \in Slots : WF_vars(Progress(w)) /\ WF_vars(Dispatch(w))

Spec == Init /\ [][Next]_vars

FairSpec == Spec /\ Fairness

-----------------------------------------------------------------------------
(* Properties.                                                             *)

Slot ==
    [pc : Busy \cup {"idle"}, msg : Message \cup {NoMessage},
     out : Part \cup {NoPart}, mode : {"task", "drain", "detached"}]

SlotsOK ==
    /\ slot \in [Slots -> Slot]
    /\ \A w \in Slots :
         /\ ~Holds(w, "idle") => slot[w].msg \in Message
         /\ Holds(w, "chain") \/ Holds(w, "part") => slot[w].out \in Part
         /\ Holds(w, "retry") => slot[w].msg.retries < MaxRetries
         /\ Holds(w, "retry") \/ Holds(w, "published")
              => slot[w].msg.task = "parse"

(* Every variable has its type, a busy slot its message, and one that is   *)
(* to publish or store a result that result.                               *)
TypeOK ==
    /\ ready \in [Message -> Nat]
    /\ dlq \in [Message -> Nat]
    /\ SlotsOK
    /\ join \subseteq Part
    /\ sized \in BOOLEAN
    /\ bodies \in Seq(SUBSET Part)
    /\ chordFailed \in BOOLEAN
    /\ attempts \in [Docs \cup {Unknown} -> Nat]
    /\ dropped \subseteq Docs
    /\ losses \in Nat /\ timeouts \in Nat
    /\ hits \subseteq {"published", "escape"} /\ (timeouts = 0 => hits = {})

Queued(d) == \E m \in Message : m.doc = d /\ (ready[m] > 0 \/ dlq[m] > 0)

(* A detached task may be cancelled: its document is in the queue again.   *)
Carries(w, d) ==
    /\ slot[w].pc \in SafePoints /\ slot[w].mode # "detached"
    /\ slot[w].msg.doc = d

InHand(d) == \E w \in Slots : Carries(w, d)

Joined(d) == \E p \in join : p.doc = d

Tracked(d) == Queued(d) \/ InHand(d) \/ Joined(d) \/ d \in dropped

(* With acks_late and reject_on_worker_lost no document is ever lost       *)
(* track of: until notify is published, each one is in a queue, in the     *)
(* hands of a worker, among the chord parts, or its fetch was dropped by   *)
(* drain_dlq.  (FM-2's promise, decorated tasks of fm2 .. fm6.)            *)
Accounted ==
    AcksLate =>
        \/ bodies # <<>>
        \/ \A d \in Docs : Tracked(d)

(* Once every task is enveloped and acknowledged late, ChordError takes    *)
(* the place of notify only after a limit of which no envelope was made.   *)
(* (FM-1's promise, why drain_dlq uses mark_as_done, and what is left of   *)
(* time_limit's danger beside @hard_timeout.)                              *)
NoChordError ==
    /\ Enveloped /\ (AcksLate \/ losses = 0)
    /\ "escape" \notin hits
    => ~chordFailed

(* One result for each document, and no other.                             *)
Complete(body) ==
    /\ \A d \in Docs : \E p \in body : p.doc = d
    /\ \A p, q \in body : p.doc = q.doc => p = q

(* Every notify message carries exactly one result for each document:      *)
(* retries, redeliveries, dead letters and limits neither lose nor repeat  *)
(* one, but for a limit that hits between a retry's publication and its    *)
(* raise, which leaves a part beside the retry.                            *)
FanInComplete ==
    "published" \notin hits => \A i \in DOMAIN bodies : Complete(bodies[i])

(* notify is published again only after a loss has repeated a chord part,  *)
(* or a limit between a retry's publication and its raise has.             *)
BodiesBounded == "published" \notin hits => Len(bodies) <= 1 + losses

(* A pipeline that has come to rest has published notify.                  *)
RestsDelivered == AtRest => bodies # <<>>

(* _expected_attempts of fm5 and fm6, and what the runners of the earlier  *)
(* versions print as expected.                                             *)
ExpectedAttempts(d) ==
    LET e == Schedule[d]
    IN  CASE e.kind = "POISON"        -> DeliveryLimit
          [] e.kind = "FLAKE_FOREVER" -> MaxRetries + 1
          [] e.kind = "CRASH_ONCE"    -> 2
          [] e.kind = "TIMES"         -> e.times + 1
          [] OTHER                    -> 1

(* The documents run_pipeline expects among the failed ones.               *)
ExpectedFailed ==
    {d \in Docs : Schedule[d].kind \notin {"NONE", "CRASH_ONCE", "TIMES"}}

Undisturbed == losses = 0 /\ timeouts = 0

(* assert_fm2, assert_fm3 and assert_fm5_doc_attempts: with nothing going  *)
(* wrong but the schedule, parse_document has been entered the predicted   *)
(* number of times by the time notify is published, with one more allowed  *)
(* for a poisoned document.                                                *)
AttemptsAsPredicted ==
    AcksLate /\ bodies # <<>> /\ Undisturbed =>
        \A d \in Docs :
            \/ attempts[d] = ExpectedAttempts(d)
            \/ /\ Schedule[d].kind = "POISON"
               /\ attempts[d] = ExpectedAttempts(d) + 1

(* assert_fm5_retryable_result and assert_fm6_hang_envelopes: notify       *)
(* counts as failed exactly the documents the schedule fails.              *)
OutcomesAsPredicted ==
    Undisturbed =>
        \A i \in DOMAIN bodies :
            {p.doc : p \in {q \in bodies[i] : q.status = "FAILURE"}}
                = ExpectedFailed

(* The most executions one parse message can cause without a loss.         *)
MostAttempts(d) ==
    CASE Schedule[d].kind = "POISON"     -> DeliveryLimit + 1
      [] Schedule[d].kind = "CRASH_ONCE" -> 2
      [] OTHER                           -> MaxRetries + 1

(* Neither the crash loop of a poisoned document nor the retries of a      *)
(* failing one go on: a loss repeats a document's work at most once.       *)
AttemptsBounded ==
    \A d \in Docs : attempts[d] <= (1 + losses) * MostAttempts(d)

(* The pipeline as its user sees it: a document has ended when the         *)
(* coordinator has its part, and notify reports what was read of them.     *)
Results == IF bodies = <<>> THEN join ELSE bodies[1]

Ended(d) == {p.status : p \in {q \in Results : q.doc = d}}

Abstract == INSTANCE FanIn WITH
    outcome <- [d \in Docs |-> IF Ended(d) = {} THEN "pending"
                               ELSE CHOOSE status \in Ended(d) : TRUE],
    notified <- Len(bodies),
    waived <- chordFailed \/ dropped # {} \/ "published" \in hits

(* Losses before a result is stored, retries, dead-lettered parses and     *)
(* limits do not show: each document ends once, one notify is published,   *)
(* and it is published in the end.  The promise is off when ChordError     *)
(* (see NoChordError) or a dead-lettered fetch has taken notify's place,   *)
(* or a limit has left a part beside a retry.                              *)
ImplementsFanIn == Abstract!FairSpec

=============================================================================
