---------------------------- MODULE TaskTimeouts ----------------------------
(***************************************************************************)
(* One worker process of fm6 and the three clocks of its tasks: the soft   *)
(* limit (SIGUSR1), @hard_timeout's alarm (SIGALRM) and Celery's time_limit*)
(* (the backstop).  The two signals become exceptions wherever the Python  *)
(* code happens to be, so the decorators are modelled statement by         *)
(* statement:                                                              *)
(*                                                                         *)
(*    enter      enveloped before its try                                  *)
(*    try        hard_timeout before signal.signal                         *)
(*    install    the handler is installed, the timer is not set            *)
(*    armed      the timer is set, hard_timeout's try is not entered       *)
(*    body       the task's body                                           *)
(*    disarm     hard_timeout's finally, before the timer is cleared       *)
(*    restore    the timer is cleared, the handler is not restored         *)
(*    ended      transient_retryable has the body's outcome                *)
(*    published  self.retry has published, and has not raised Retry        *)
(*    wrap       enveloped makes an envelope of the payload, in its try    *)
(*    except     enveloped makes an envelope of an exception               *)
(*    return     Celery has the envelope                                   *)
(*    again      Celery has Retry                                          *)
(*    escape     Celery has an exception of another kind                   *)
(*                                                                         *)
(* What a signal does inside Celery's own code is left out.                *)
(***************************************************************************)
EXTENDS Naturals

CONSTANTS
    Soft,        \* SOFT_TIMEOUT_SECONDS, in ticks
    Hard,        \* MANUAL_HARD_TIMEOUT_SECONDS
    Backstop,    \* BACKSTOP_HARD_TIMEOUT_SECONDS
    Hang,        \* HANG_DURATION_SECONDS
    MaxStalls,   \* bound: ticks a task spends outside its body
    MaxTasks     \* bound: executions in the life of the process

ASSUME TaskTimeoutsAssumption ==
    /\ Soft \in Nat /\ Hard \in Nat \ {0} /\ Hang \in Nat
    /\ MaxStalls \in Nat /\ MaxTasks \in Nat
    /\ Backstop \in Nat /\ Hard + MaxStalls < Backstop

(* What a body does.  "plain" is a task without @hard_timeout, as notify   *)
(* is; "deaf" one in which no Python code runs that a signal could         *)
(* interrupt, which is what the backstop is there for.                     *)
Kind == {"ok", "transient", "soft_hang", "hard_hang", "deaf", "plain"}

VARIABLES
    pc,         \* where the process is
    kind,       \* what the body does
    budget,     \* retries are left
    outcome,    \* how the body ended
    handler,    \* SIGALRM's handler
    previous,   \* prev_handler
    armed,      \* the timer is set
    left,       \* ticks until it goes off
    age,        \* ticks since the task was accepted
    inBody,     \* ticks in the body
    slept,      \* ticks in the present sleep of a hanging body
    stalls,     \* ticks outside the body
    soft,       \* the soft limit was signalled in this execution
    hits,       \* the statements at which a signal has raised in it
    published,  \* self.retry has published
    stored,     \* the Celery state stored for this execution
    done        \* executions that are over

vars == <<pc, kind, budget, outcome, handler, previous, armed, left, age,
          inBody, slept, stalls, soft, hits, published, stored, done>>

timer == <<handler, previous, armed, left>>
clocks == <<age, inBody, slept, stalls, soft, hits>>
task == <<kind, budget>>
effects == <<published, stored, done>>

Wrapper == {"try", "install", "armed", "body", "disarm", "restore"}
Python ==
    Wrapper \cup {"enter", "ended", "published", "wrap", "except"}
Tracer == {"return", "again", "escape"}

Init ==
    /\ pc = "idle" /\ kind = "ok" /\ budget = FALSE /\ outcome = "none"
    /\ handler = "default" /\ previous = "default"
    /\ armed = FALSE /\ left = 0
    /\ age = 0 /\ inBody = 0 /\ slept = 0 /\ stalls = 0 /\ soft = FALSE
    /\ hits = {} /\ published = FALSE /\ stored = "none" /\ done = 0

-----------------------------------------------------------------------------
(* The code.                                                               *)

Go(from, to) == pc = from /\ pc' = to

Accept(k, b) ==
    /\ Go("idle", "enter")
    /\ done < MaxTasks
    /\ kind' = k /\ budget' = b /\ outcome' = "none"
    /\ age' = 0 /\ inBody' = 0 /\ slept' = 0 /\ stalls' = 0
    /\ soft' = FALSE /\ hits' = {}
    /\ published' = FALSE /\ stored' = "none"
    /\ UNCHANGED <<timer, done>>

(* enveloped enters its try; a task without @hard_timeout its body.        *)
EnterTry ==
    /\ pc = "enter"
    /\ pc' = IF kind = "plain" THEN "body" ELSE "try"
    /\ UNCHANGED <<task, outcome, timer, clocks, effects>>

(* prev_handler = signal.signal(SIGALRM, _on_alarm)                        *)
InstallHandler ==
    /\ Go("try", "install")
    /\ previous' = handler /\ handler' = "alarm"
    /\ UNCHANGED <<task, outcome, armed, left, clocks, effects>>

(* Mutants: a timer that is not set again while it runs; one set late.     *)
SetTimerLate ==
    /\ Go("install", "armed")
    /\ armed' = TRUE /\ left' = Hard + 1
    /\ UNCHANGED <<task, outcome, handler, previous, clocks, effects>>

SetTimerOnce ==
    /\ Go("install", "armed")
    /\ armed' = TRUE /\ left' = IF armed THEN left ELSE Hard
    /\ UNCHANGED <<task, outcome, handler, previous, clocks, effects>>

(* setitimer(ITIMER_REAL, seconds) replaces whatever timer is running.     *)
SetTimer ==
    /\ Go("install", "armed")
    /\ armed' = TRUE /\ left' = Hard
    /\ UNCHANGED <<task, outcome, handler, previous, clocks, effects>>

EnterBody ==
    /\ Go("armed", "body")
    /\ UNCHANGED <<task, outcome, timer, clocks, effects>>

(* The body returns or raises by itself; a hang only when its sleep ends.  *)
BodyEnds ==
    /\ pc = "body"
    /\ kind \in {"soft_hang", "hard_hang"} => slept >= Hang
    /\ pc' = IF kind = "plain" THEN "wrap" ELSE "disarm"
    /\ outcome' = IF kind = "transient" THEN "transient" ELSE "return"
    /\ UNCHANGED <<task, timer, clocks, effects>>

(* Mutants: the handler restored before the timer is cleared; the timer    *)
(* left running.                                                           *)
RestoreFirst ==
    /\ Go("disarm", "restore")
    /\ handler' = previous
    /\ UNCHANGED <<task, outcome, previous, armed, left, clocks, effects>>

ClearTimerForgotten ==
    /\ Go("disarm", "restore")
    /\ UNCHANGED <<task, outcome, timer, clocks, effects>>

(* setitimer(ITIMER_REAL, 0)                                               *)
ClearTimer ==
    /\ Go("disarm", "restore")
    /\ armed' = FALSE /\ left' = 0
    /\ UNCHANGED <<task, outcome, handler, previous, clocks, effects>>

(* signal.signal(SIGALRM, prev_handler)                                    *)
RestoreHandler ==
    /\ Go("restore", "ended")
    /\ handler' = previous
    /\ UNCHANGED <<task, outcome, previous, armed, left, clocks, effects>>

(* transient_retryable retries, or lets the payload or exception pass.     *)
PublishRetry ==
    /\ outcome = "transient" /\ budget
    /\ Go("ended", "published")
    /\ published' = TRUE
    /\ UNCHANGED <<task, outcome, timer, clocks, stored, done>>

PassOn ==
    /\ pc = "ended"
    /\ ~(outcome = "transient" /\ budget)
    /\ pc' = IF outcome = "return" THEN "wrap" ELSE "except"
    /\ UNCHANGED <<task, outcome, timer, clocks, effects>>

(* Mutant: `except Exception` before `except Retry`.                       *)
RaiseRetryCaught ==
    /\ Go("published", "except")
    /\ UNCHANGED <<task, outcome, timer, clocks, effects>>

(* raise self.retry(...): enveloped lets Retry pass.                       *)
RaiseRetry ==
    /\ Go("published", "again")
    /\ UNCHANGED <<task, outcome, timer, clocks, effects>>

Envelope ==
    /\ Go("wrap", "return") \/ Go("except", "return")
    /\ UNCHANGED <<task, outcome, timer, clocks, effects>>

(* Celery stores SUCCESS for an envelope, FAILURE for an exception; Retry  *)
(* is no result of a chord member.                                         *)
Store ==
    /\ pc \in Tracer
    /\ pc' = "idle"
    /\ stored' = CASE pc = "return" -> "SUCCESS"
                   [] pc = "escape" -> "FAILURE"
                   [] OTHER         -> "none"
    /\ done' = done + 1
    /\ UNCHANGED <<task, outcome, timer, clocks, published>>

Run ==
    \/ EnterTry \/ InstallHandler \/ SetTimer \/ EnterBody
    \/ ClearTimer \/ RestoreHandler \/ PublishRetry \/ PassOn \/ RaiseRetry
    \/ Envelope \/ Store

-----------------------------------------------------------------------------
(* The signals.                                                            *)

Reachable == pc \in Python /\ ~(pc = "body" /\ kind = "deaf")

(* Mutant: hard_timeout's and retryable's code outside enveloped's try.    *)
CatcherNarrow ==
    CASE pc \in {"enter", "except", "install"} -> "escape"
      [] pc = "body" /\ kind # "plain"         -> "disarm"
      [] OTHER                                 -> "except"

(* Where an exception raised at this statement is caught.                  *)
Catcher ==
    CASE pc \in {"enter", "except"}           -> "escape"
      [] pc = "body" /\ kind # "plain"        -> "disarm"
      [] OTHER                                -> "except"

Raise(exception) ==
    /\ pc' = Catcher
    /\ outcome' = exception
    /\ hits' = hits \cup {pc}

SoftDue == ~soft /\ age >= Soft

AlarmDue == armed /\ left = 0

(* SIGUSR1 raises SoftTimeLimitExceeded; the body of HARD_HANG_MANUAL      *)
(* catches it and sleeps again.                                            *)
SoftLimit ==
    /\ Reachable /\ SoftDue
    /\ soft' = TRUE
    /\ \/ /\ pc = "body" /\ kind = "hard_hang"
          /\ slept' = 0
          /\ UNCHANGED <<pc, outcome, hits>>
       \/ /\ ~(pc = "body" /\ kind = "hard_hang")
          /\ Raise("soft")
          /\ UNCHANGED slept
    /\ UNCHANGED <<task, timer, age, inBody, stalls, effects>>

(* Mutant: hard_hang's body catches HardTimeoutExceeded too.               *)
AlarmSwallowed ==
    /\ Reachable /\ AlarmDue
    /\ handler = "alarm"
    /\ armed' = FALSE
    /\ IF pc = "body" /\ kind = "hard_hang"
       THEN UNCHANGED <<pc, outcome, hits>> ELSE Raise("hard")
    /\ UNCHANGED <<task, handler, previous, left, age, inBody, slept, stalls,
                   soft, effects>>

(* SIGALRM runs _on_alarm, which raises HardTimeoutExceeded.               *)
Alarm ==
    /\ Reachable /\ AlarmDue
    /\ handler = "alarm"
    /\ armed' = FALSE
    /\ Raise("hard")
    /\ UNCHANGED <<task, handler, previous, left, age, inBody, slept, stalls,
                   soft, effects>>

(* Outside a task the exception ends the process; the pool starts another. *)
AlarmInIdle ==
    /\ pc = "idle" /\ AlarmDue
    /\ handler = "alarm"
    /\ armed' = FALSE /\ handler' = "default"
    /\ UNCHANGED <<pc, task, outcome, previous, left, clocks, effects>>

(* Mutant: a task without time_limit.                                      *)
KillNever == FALSE /\ UNCHANGED vars

(* time_limit: mark_as_failure, and the process is killed.                 *)
Kill ==
    /\ pc # "idle" /\ age >= Backstop
    /\ pc' = "idle" /\ stored' = "FAILURE" /\ done' = done + 1
    /\ handler' = "default" /\ armed' = FALSE /\ left' = 0
    /\ UNCHANGED <<task, outcome, previous, clocks, published>>

(* A tick passes in the body, or, seldom, elsewhere; a signal that is due  *)
(* is not late by more than the statements run without a tick, unless no   *)
(* Python code runs.                                                       *)
Tick ==
    /\ pc \in Python \/ (pc = "idle" /\ armed /\ left > 0)
    /\ Reachable => ~SoftDue /\ ~AlarmDue
    /\ pc = "idle" \/ age < Backstop
    /\ pc \in Python \ {"body"} => stalls < MaxStalls
    /\ age' = IF pc = "idle" THEN age ELSE age + 1
    /\ left' = IF armed /\ left > 0 THEN left - 1 ELSE left
    /\ IF pc = "body"
       THEN inBody' = inBody + 1 /\ slept' = slept + 1 /\ UNCHANGED stalls
       ELSE stalls' = (IF pc = "idle" THEN stalls ELSE stalls + 1)
            /\ UNCHANGED <<inBody, slept>>
    /\ UNCHANGED <<pc, task, outcome, handler, previous, armed, soft, hits,
                   effects>>

Over == pc = "idle" /\ done = MaxTasks /\ ~armed /\ UNCHANGED vars

Next ==
    \/ \E k \in Kind, b \in BOOLEAN : Accept(k, b)
    \/ Run \/ BodyEnds \/ SoftLimit \/ Alarm \/ AlarmInIdle \/ Kill \/ Tick \/ Over

Spec == Init /\ [][Next]_vars

(* The decorators' code runs on, a body need not; time passes, and a limit *)
(* that is due is signalled.                                               *)
FairSpec ==
    /\ Spec
    /\ WF_vars(Run) /\ WF_vars(Tick)
    /\ WF_vars(SoftLimit) /\ WF_vars(Alarm) /\ WF_vars(Kill)

-----------------------------------------------------------------------------
(* Properties.                                                             *)

(* Every variable has its type.                                            *)
TypeOK ==
    /\ pc \in Python \cup Tracer \cup {"idle"}
    /\ kind \in Kind /\ budget \in BOOLEAN
    /\ outcome \in {"none", "return", "transient", "soft", "hard"}
    /\ handler \in {"default", "alarm"} /\ previous \in {"default", "alarm"}
    /\ armed \in BOOLEAN /\ left \in 0..Hard
    /\ age \in Nat /\ inBody \in Nat /\ slept \in Nat /\ stalls \in Nat
    /\ done \in Nat
    /\ soft \in BOOLEAN /\ hits \subseteq Python
    /\ published \in BOOLEAN /\ stored \in {"none", "SUCCESS", "FAILURE"}

(* The alarm never goes off under the default handler, which would kill    *)
(* the process and leave the chord member without a result: it is          *)
(* installed before the timer is set and restored after it is cleared, and *)
(* an exception between the two leaves both behind.                        *)
AlarmIsHandled == armed => handler = "alarm"

(* A body has its own Hard ticks until the alarm, less those that passed   *)
(* outside it, whatever earlier executions have left in the process.       *)
AlarmIsOwn ==
    pc = "body" /\ kind \notin {"plain", "deaf"} =>
        armed /\ Hard \in left + inBody .. left + inBody + stalls

(* No body but a deaf one keeps its slot longer than the alarm allows,     *)
(* also one that swallows the soft limit; so the backstop, which poisons   *)
(* the chord, is left to the deaf ones.                                    *)
SlotIsFreed ==
    pc # "idle" /\ kind \notin {"deaf", "plain"} => age <= Hard + MaxStalls

(* After a body that came to its end the alarm is off: it cannot turn the  *)
(* retry or the envelope that follows into a failure.  Only a task without *)
(* @hard_timeout may still meet a timer that a signal, hitting the         *)
(* bookkeeping of an earlier one, has left behind.                         *)
AlarmIsCleared ==
    armed /\ pc \in {"ended", "published", "wrap"} => kind = "plain"

(* An execution both publishes a retry and stores a part, which the chord  *)
(* then counts twice, only if the soft limit hits it in between.           *)
RetryOrPart ==
    published /\ stored # "none" => "published" \in hits

(* A FAILURE state reaches the coordinator only by the backstop or by a    *)
(* signal that hits enveloped outside its try.                             *)
FailureIsRare ==
    stored = "FAILURE" =>
        hits \cap {"enter", "except"} # {} \/ age >= Backstop

(* Every execution comes to an end.                                        *)
Ends == pc # "idle" ~> pc = "idle"

=============================================================================
