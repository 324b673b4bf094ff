------------------------------- MODULE Runner -------------------------------
(***************************************************************************)
(* run_pipeline of fm4 .. fm6, together with the notifies of NotifyLock:   *)
(* it waits until the chord's notify has claimed the lock, fires a         *)
(* duplicate notify while that one is sending, waits for both results and  *)
(* asserts assert_fm4_notify_idempotent.                                   *)
(*                                                                         *)
(* NotifyLock lets a step take any time.  The runner depends on time, so   *)
(* here send_email lasts at least SendTime, and every other step of a      *)
(* notify, from the queue on, is taken within Lag ticks.                   *)
(***************************************************************************)
EXTENDS NotifyLock

CONSTANTS
    ChordNotify,     \* the task id of the chord's notify
    Duplicate,       \* the task id of notify.delay([], ...)
    HeaderTime,      \* bound: the longest the header takes
    SendTime,        \* SEND_EMAIL_DURATION_SECONDS
    Lag,             \* bound: the longest a step other than send_email waits
    Interval,        \* interval of wait_until
    ClaimTimeout,    \* how long the runner waits for the claim
    ResultTimeout    \* how long it waits for the two results

ASSUME RunnerAssumption ==
    /\ Tasks = {ChordNotify, Duplicate} /\ ChordNotify # Duplicate
    /\ {HeaderTime, SendTime, Lag, ClaimTimeout, ResultTimeout} \subseteq Nat
    /\ Interval \in Nat \ {0}

VARIABLES
    runner,    \* where run_pipeline is
    elapsed,   \* ticks since the present wait_until began
    nap,       \* ticks until it polls again
    held       \* ticks each copy has been in its present step

runnerVars == <<runner, elapsed, nap>>

allVars == <<vars, runnerVars, held>>

Waiting == {"wait_claim", "wait_results"}
Verdict == {"passed", "failed", "timed_out"}

-----------------------------------------------------------------------------
(* The chord is published; its notify follows when the header is done.     *)
RunnerInit ==
    /\ key = "absent" /\ ttl = 0
    /\ \E c \in Copies, h \in 0..HeaderTime :
         copy = [e \in Copies |->
                    IF e = c THEN NewCopy(ChordNotify, 0, h) ELSE Free]
    /\ result = [t \in Tasks |-> "none"]
    /\ sends = 0 /\ contended = FALSE
    /\ losses = 0 /\ limits = 0
    /\ runner = "wait_claim" /\ elapsed = 0 /\ nap = 0
    /\ held = [c \in Copies |-> 0]

(* Mutants: a deadline computed anew inside the loop; one poll too many.   *)
PollAnew(pc, predicate, timeout, next) ==
    /\ runner = pc /\ nap = 0
    /\ elapsed' = 0
    /\ IF predicate
       THEN runner' = next /\ nap' = 0
       ELSE nap' = Interval /\ UNCHANGED runner
    /\ UNCHANGED <<vars, held>>

PollOnceMore(pc, predicate, timeout, next) ==
    /\ runner = pc /\ nap = 0
    /\ IF elapsed <= timeout
       THEN IF predicate
            THEN runner' = next /\ elapsed' = 0 /\ nap' = 0
            ELSE nap' = Interval /\ UNCHANGED <<runner, elapsed>>
       ELSE runner' = "timed_out" /\ UNCHANGED <<elapsed, nap>>
    /\ UNCHANGED <<vars, held>>

(* wait_until: the deadline is looked at before each poll.                 *)
Poll(pc, predicate, timeout, next) ==
    /\ runner = pc /\ nap = 0
    /\ \/ /\ elapsed < timeout /\ predicate
          /\ runner' = next /\ elapsed' = 0 /\ nap' = 0
       \/ /\ elapsed < timeout /\ ~predicate
          /\ nap' = Interval
          /\ UNCHANGED <<runner, elapsed>>
       \/ /\ elapsed >= timeout
          /\ runner' = "timed_out"
          /\ UNCHANGED <<elapsed, nap>>
    /\ UNCHANGED <<vars, held>>

(* Mutant: the duplicate is fired without waiting for the claim.           *)
PollClaimSkipped ==
    /\ runner = "wait_claim"
    /\ runner' = "fire"
    /\ UNCHANGED <<vars, elapsed, nap, held>>

(* coordinator.is_claimed(): the key exists, whatever it says.             *)
PollClaim == Poll("wait_claim", key # "absent", ClaimTimeout, "fire")

FireDuplicate ==
    /\ runner = "fire"
    /\ \E new \in Copies :
         /\ At(new, "free")
         /\ copy' = [copy EXCEPT ![new] = NewCopy(Duplicate, 0, 0)]
    /\ runner' = "wait_results"
    /\ UNCHANGED <<key, ttl, result, sends, contended, losses, limits,
                   elapsed, nap, held>>

PollResults ==
    Poll("wait_results", \A t \in Tasks : result[t] # "none",
         ResultTimeout, "assert")

(* assert_fm4_notify_idempotent.                                           *)
NotifyIdempotent ==
    /\ result[ChordNotify] = "sent"
    /\ result[Duplicate] = "skipped"
    /\ sends = 1
    /\ contended

Assert ==
    /\ runner = "assert"
    /\ runner' = IF NotifyIdempotent THEN "passed" ELSE "failed"
    /\ UNCHANGED <<vars, elapsed, nap, held>>

RunnerStep == PollClaim \/ FireDuplicate \/ PollResults \/ Assert

-----------------------------------------------------------------------------
(* The workers.                                                            *)

CopyStep(c) ==
    /\ At(c, "send") => held[c] >= SendTime
    /\ Progress(c)
    /\ held' = [held EXCEPT ![c] = 0]
    /\ UNCHANGED runnerVars

CopyEnds(c) ==
    /\ Lose(c) \/ SoftLimit(c) \/ HardLimit(c)
    /\ held' = [held EXCEPT ![c] = 0]
    /\ UNCHANGED runnerVars

(* A copy whose present step is due; a countdown is not, and a dead letter *)
(* waits for the drain.                                                    *)
Due(c) ==
    \/ At(c, "queued") /\ copy[c].timer = 0
    \/ copy[c].pc \in Running

Patience(c) == IF At(c, "send") THEN SendTime + Lag ELSE Lag

(* Time passes for the notifies and for the runner, which polls when its   *)
(* nap is over.                                                            *)
Pass ==
    /\ runner \in Waiting => nap > 0
    /\ runner \in Waiting \cup Verdict
    /\ \A c \in Copies : Due(c) => held[c] < Patience(c)
    /\ Tick
    /\ held' = [c \in Copies |-> IF Due(c) THEN held[c] + 1 ELSE 0]
    /\ IF runner \in Waiting
       THEN elapsed' = elapsed + 1 /\ nap' = nap - 1
       ELSE UNCHANGED <<elapsed, nap>>
    /\ UNCHANGED runner

RunnerNext ==
    \/ RunnerStep
    \/ \E c \in Copies : CopyStep(c) \/ CopyEnds(c)
    \/ Pass

(* The runner, the workers and the clock go on.                            *)
RunnerSpec ==
    /\ RunnerInit /\ [][RunnerNext]_allVars
    /\ WF_allVars(RunnerStep)
    /\ WF_allVars(Pass)
    /\ \A c \in Copies : WF_allVars(CopyStep(c))

-----------------------------------------------------------------------------
(* Every variable has its type, and a wait of the runner ends within one   *)
(* poll interval of its timeout.                                           *)
RunnerTypeOK ==
    /\ runner \in Waiting \cup Verdict \cup {"fire", "assert"}
    /\ nap \in 0..Interval
    /\ held \in [Copies -> Nat]
    /\ elapsed \in Nat
    /\ runner = "wait_claim" => elapsed < ClaimTimeout + Interval
    /\ runner = "wait_results" => elapsed < ResultTimeout + Interval

(* The duplicate arrives while the chord's notify is sending: polled for   *)
(* every Interval and picked up with little delay, it meets the lock held, *)
(* retries, finds the e-mail sent, and, with time enough and unless a      *)
(* notify was cut short, the runner's assertions hold.                     *)
RunnerPasses ==
    /\ Interval + 3 * Lag < SendTime
    /\ HeaderTime + Interval + 2 * Lag < ClaimTimeout
    /\ SendTime + RetryDelay + Interval + 7 * Lag < ResultTimeout
    => <>(runner = "passed" \/ losses + limits > 0)

(* What of that does not depend on anything going on: where the sending    *)
(* outlasts a poll and three lags, and the duplicate's retries outlast the *)
(* sending, no assertion fails unless a notify was cut short, whatever the *)
(* order of polls, steps and ticks.  At worst a wait times out.            *)
AssertionsHold ==
    /\ Interval + 3 * Lag < SendTime
    /\ SendTime + 3 * Lag < MaxRetries * RetryDelay
    /\ RunTime < TTL
    /\ losses = 0 /\ limits = 0
    => runner # "failed"

(* Whatever is lost, run_pipeline comes to a verdict.                      *)
RunnerEnds == <>(runner \in Verdict)

=============================================================================
