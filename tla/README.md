# A TLA+ model of reliable-celery-pipelines

The repository is one document pipeline on Celery, written seven times: each of
`fm0_naive.py` .. `fm6_task_timeouts.py` adds one pattern to the file before it.
A pipeline is a chord: a chain `fetch_document | parse_document` for each
document (the header), and `notify` (the body) when all chains have ended. What
can go wrong lies between processes: tasks, the broker, the chord coordinator in
Redis, the beat task that drains dead letters, duplicates of `notify`, the
signals that limit a task's time, and the crash of any of them. That is what the
modules here describe.

## 1. Inventory

| Part | Source | State | Operations | Modelled in |
|---|---|---|---|---|
| Header tasks | `fmN_*.py` | attempt counters | `fetch_document`, `parse_document` by `FLAKE_SCHEDULE` | `TaskExit`, `ChordHeader` |
| Decorators | `shared/decorators.py` | none | `enveloped`, `transient_retryable` | `TaskExit`; under signals `TaskTimeouts` |
| Envelope | `shared/result.py` | none | `Result.success`, `failure`, `from_dict` | `TaskExit` (status, attempts, whether there is a payload) |
| Broker (RabbitMQ) | `shared/dlq.py`, task options | pipeline queue, delivery counts, dead-letter queue | deliver, ack, requeue, dead-letter | `ChordHeader`, `NotifyLock` (external) |
| Worker pool (Celery) | task options | one message per process, its connection | run, publish, store, ack, die, lose the connection | `ChordHeader`, `NotifyLock` (external) |
| Chord coordinator (Celery, Redis) | relied on by all versions | sorted set of parts, chord size | count a part, fire the body, delete the keys, `ChordError` | `ChordHeader` (external) |
| Dead-letter drain | `shared/dlq.py`, `drain_dlq` | none | `drain_dlq_messages`, `_finalize_dlq_message` | `ChordHeader`, `NotifyLock.Drop` |
| Counting `notify` | `notify` of fm0 .. fm3 | its result | count, return | `Report` |
| Notify lock | `shared/idempotency.py`, `notify` of fm4 .. fm6 | the state key and its TTL, two counters | `try_claim`, `send_email`, `mark_sent` | `NotifyLock` |
| Hard timeout | `hard_timeout` of fm6 | SIGALRM timer and handler | install, arm, fire, clear, restore | `TaskTimeouts` |
| Runner | `run_pipeline`, `shared/wait.py`, `shared/fm_asserts.py` | its place, its deadline | `wait_until`, duplicate `notify.delay`, assertions | `Report` (order), `Runner` (time) |
| Harness | `run_all_fms.py` | verdicts, worker process (and what outlives it), services | compose, reset, start, wait, run, stop | `Harness` |

How they interact. The harness starts the worker of one version, waits for it and
runs its `run_pipeline`, which publishes the fetch messages. A worker process
takes a message, runs the body inside its decorators and, before it
acknowledges, publishes the next task of the chain (fetch), publishes a retry
(`self.retry`), or stores its result and counts it as a part of the chord
(parse). Whoever stores the part that completes the count publishes `notify` and
deletes the keys. A message whose worker is lost goes back to the queue or, at
`x-delivery-limit`, to the dead-letter queue, which `drain_dlq` empties by
storing an envelope in the dead task's name. Several `notify` messages of one
pipeline meet at a Redis key. The runner watches that key, the result and the
counters from outside.

What is hard: a process, or only its connection, may be lost between any two of
those steps; deliveries are at least once; retries and redeliveries are counted
by different counters; the coordinator counts results, not documents; a lock's
holder may die; signals arrive between any two statements; and what one run
leaves behind is there for the next. `PROJECT.json` lists these hazards line by
line.

What makes each part correct:
- header: no document is lost track of, `notify` gets one result of each, and it
  is published in the end, however the documents fail;
- decorators and drain: nothing with Celery state FAILURE reaches the coordinator,
  but for a limit that no decorator can catch;
- broker and retries: the crash loop and the retries of a document are bounded;
- lock: one sender at a time, "sent" is final, one e-mail plus one for each
  execution cut short, no false result, and every busy-retry ends;
- pipeline: the bodies that losses in the header add send nothing;
- clocks: the alarm comes before the backstop, belongs to the body it interrupts,
  and makes an envelope of it;
- runner: what passes has been reported, what is undisturbed passes, waits end;
- harness: one worker parent at a time, a clean start, a true exit status, an end.

## 2. Modules

- **`TaskExit`** (no variables): the schedule entries, how a body ends
  (`ParseOutcome` follows the branches of `parse_document` in their order), and
  what the decorators make of it: `Retries` is `@transient_retryable`, `Status`
  the status in the envelope, `CeleryState` the state Celery records. `Version`
  selects the file; `Enveloped`, `AcksLate`, `DeadLetters`, `Retryable` and
  `TimeLimits` say which patterns it has. FM-4 leaves the header alone, so
  `Version = 4` has the same header as 3.
- **`ChordHeader`**: the header from the published chord to the published body.
  A slot (one worker process) has a program counter for the steps of a task:
  `body`, `chain` or `retry` (publish), `published` (the retry is out, Retry not
  yet raised), `part` (store and count), `fire`, `cleanup`, `ack`; `finalize` is
  the drain with a dead letter in hand. `SoftLimit` is a signal inside
  `enveloped`'s `try`, which makes an envelope, `LimitEscapes` one outside it or
  `time_limit`, which makes a FAILURE state; `hits` records what the properties
  must tell apart, a signal at `published` and one that escaped. The
  queues are bags of messages, not sequences: prefetch and retry countdowns
  reorder them, and the program promises no order. `Lose` is the loss of the
  process; `Disconnect` that of its connection, after which the task runs on
  beside its redelivered message (`detached`) until `Cancelled` (fm3 on,
  `dlq.py:69`), if that comes before its end.
- **`FanIn`**: what a user is promised. Each document ends once, then one
  `notify` reports them, unless the promise is waived: it is kept in full up to
  then. `ChordHeader!Abstract` maps the detailed model to it and says when it is
  waived: `ChordError`, a dead-lettered fetch, a part beside a published retry.
- **`NotifyLock`**: `notify` of fm4 .. fm6. A copy is one message of a notify
  task with its place in the body: `claim` is `SET NX EX`, `get` the second
  command of `try_claim`, then `send`, `mark`, `retry`, `store`, `ack`. Time is
  in ticks: the key's TTL, countdowns, and the age of a running body.
- **`Pipeline`**: composes the two: a body that `ChordHeader` publishes is a new
  copy in `NotifyLock`, with the task id the chord has given it.
- **`Report`**: composes the header with a `notify` that counts and the
  untimed `run_pipeline`: `SeeAnswer` or `GiveUp` end its wait, `Judge` is its
  assertions. All there is of fm0 .. fm3, and the assertions of fm5 and fm6
  about documents.
- **`Runner`**: composes `NotifyLock` with the timed `run_pipeline` of fm4 ..
  fm6: `Poll` is `wait_until`, then `FireDuplicate`, a second `Poll`, and the
  assertions about the two notifies. Actions of `NotifyLock` are reused whole,
  with bounds on how long they wait.
- **`TaskTimeouts`**: one worker process, several tasks after one another. `pc`
  is the statement of `enveloped`, `transient_retryable` and `hard_timeout` that
  runs next (the list is in the module); `SoftLimit` and `Alarm` may come between
  any two of them, and `Catcher` says which `except` or `finally` gets the
  exception. The timer and the handler belong to the process and outlive a task.
- **`Harness`**: `main` of `run_all_fms.py`. `step` is what it does next.
  `worker` is the parent process of an fm's worker, the only one `poll` and
  `wait` see; `orphans` are pool children and beat that outlive it, `leftover`
  whole workers of an earlier harness (each is started in a session of its own).
  A message stays `held` when its worker dies and comes back in a step of the
  broker's own (`Requeue`). Messages and keys are "new" (of the present
  `run_one`) or "old". Exceptions that leave `main` end in `raised`, exit status
  1. `quiet` records whether at the last reset nothing else was about. A wait
  with a timeout may end either way; a call without one may never end.
- **`MCChordHeader`, `MCNotifyLock`, `MCPipeline`, `MCReport`, `MCRunner`,
  `MCHarness`**: instances for TLC. `TaskTimeouts` has numbers for constants and
  is run as it is.
- **`ChordHeaderProofs`, `FanInProofs`, `ReportProofs`, `NotifyLockProofs`,
  `PipelineProofs`, `RunnerProofs`, `TaskTimeoutsProofs`, `HarnessProofs`**:
  theorems.

### External code

Celery, RabbitMQ and Redis are modelled from how the code configures them:
- with `acks_late` and `reject_on_worker_lost` a lost process means a requeue;
  without them the message is gone, or the parent records `WorkerLostError`;
- a quorum queue counts deliveries; whether the limit is inclusive is left open,
  as `assert_fm3_poison_bounded_at_dlq` does;
- only the last task of a header chain carries the chord in its message
  (`dlq.py` reads it from there), and chained and retried messages are published
  before the old one is acknowledged;
- counting a part is one Redis transaction: add the result to a sorted set,
  count the set, compare with the chord size. Two results that differ in any
  field are two members;
- `ChordError` leaves the coordinator's keys, a published body deletes them, and
  the publication and the deletion are steps of their own;
- the backend never replaces a SUCCESS it has stored;
- `time_limit` records a FAILURE state, acknowledges, and kills the process;
- Python runs a signal's handler between two bytecodes, so not inside a call that
  never comes back to the interpreter (`deaf` in `TaskTimeouts`).

### Abstractions

Payloads are reduced to the status, the reason and the attempt number, which is
what makes two results of one document differ. Backoff and jitter are an
arbitrary delay. `fetch_document` never fails on its own. The drain is a worker
slot that takes one dead letter, again and again: the loop of
`drain_dlq_messages` without the beat interval. The connections and the Redis
commands of one step do not fail separately; a failed one is a loss of the slot.
`Pipeline` keeps the slots of the header and those of notify apart. `Report` has
no time, `Runner` no header: the header is the bound `HeaderTime` there.
What a signal does inside Celery's own code is left out: in `TaskTimeouts` all of
it, in `ChordHeader` once the next task is published or the result stored (up to
there it is `LimitEscapes`, because the task's tracer records a FAILURE). Nor is
a connection lost in `notify` modelled (`NotifyLock.Lose` is the process). In
`Harness` orphans and leftovers are taken to do whatever a task or beat may do,
an fm's own two queues are one, the commands of a reset are one step (others can
act after it as they could between its commands), services that are up stay up
until `docker compose down`, and an interrupt from the keyboard is left out.

## 3. Runs

Documents: two, or five with a kind of behaviour each; slots: two
(`--concurrency=2`). Two documents of different behaviour and two slots give
every pairwise interleaving of a document's steps with another's; no step looks
at more than one message, and the coordinator only at the count.

| Run | Instance | Checks |
|---|---|---|
| `ReportFm1` | Version 1, one document fails, two losses anywhere, in notify too | `NoChordError`, `PassedIsReported`, `Reports` |
| `ReportFm6` | Version 6, undisturbed: poison, crash once, flaky once, soft hang, flaky for ever | `AttemptsAsPredicted`, `OutcomesAsPredicted`, `UndisturbedPasses` |
| `ChordFm6AnyLoss` | Version 6: poison, flaky once; two losses of a worker or a connection anywhere | `TypeOK`, `Accounted`, `BodiesBounded`, `AttemptsBounded` |
| `PipelineFm6` | the same with one loss, in header or notify; three copies | `EmailsBounded`, `DeliveredOnce` |
| `ChordFm6Refines` | Version 6: poison, flaky once; two losses at safe points, one limit, caught or not | `NoChordError`, `FanInComplete`, `ImplementsFanIn` |
| `NotifyFm6` | two notifies, one loss anywhere, time limits, expiry of the key | `TypeOK`, `MutualExclusion`, `SendsBounded`, `ResultsAreTrue`, `DuplicatesSkip`, `SentIsTerminal`, `AllFinish`, `Settles` |
| `RunnerFm6` | runner and two notifies, one loss anywhere, time limits | `RunnerTypeOK`, `AssertionsHold`, `RunnerPasses`, `RunnerEnds` |
| `TaskClocks` | three tasks of any behaviour in one process; soft 2, hard 5, backstop 10, hang 8 ticks | `TypeOK`, `AlarmIsHandled`, `AlarmIsOwn`, `SlotIsFreed`, `AlarmIsCleared`, `RetryOrPart`, `FailureIsRare`, `Ends` |
| `HarnessAll` | fm0 and one more on the queue `celery`, one with its own; every selection; failing calls and deletions, dying workers, orphans, a worker of an earlier harness | `TypeOK`, `OneWorker`, `CleanStart`, `ExitIsTrue`, `Ends` |

What they show.

- `ReportFm1`: envelopes suffice as long as nothing is lost; a lost worker under
  early acknowledgement costs the notify, never a document in it, and the runner
  does not take the loss for a success.
- `ReportFm6`: the assertions of fm2 .. fm6 about attempts and outcomes hold in
  every order of the tasks, the drain and the runner's look at the counters, not
  only in the one a run of the demo saw.
- `ChordFm6AnyLoss`: wherever a worker dies or is cut off, also with its
  redelivered message running beside it, no document is lost track of, and a
  loss repeats at most one body and one document's work. (No limits here, for
  size; the theorems about these properties have both.)
- `PipelineFm6`: the repeated body finds the lock, so that one e-mail goes out.
- `ChordFm6Refines`: poison, retries, a soft limit and losses before the part is
  counted are invisible to the user, and the notify does come, except where the
  code has no answer. There are three such cases and no fourth: a fetch that
  losses bring to the dead-letter queue (two suffice here), a limit of which no
  envelope is made (`ChordError`), and a signal between `self.retry`'s
  publication and its raise, which leaves a part beside the retry. How rare the
  latter two are `TaskClocks` says.
- `NotifyFm6`: the lock is exclusive, "sent" is final, e-mails exceed one only by
  executions cut short, a duplicate that outlasts the send skips, and every
  busy-retry ends.
- `RunnerFm6`: the duplicate lands inside the send, fm4's assertions then hold,
  and the runner's waits end even when a notify is lost.
- `TaskClocks`: the three clocks are in order for every body Python can
  interrupt, including one that swallows the soft limit. What is left is exactly
  stated: a FAILURE needs a signal in `enveloped` outside its `try` or the
  backstop, a second part one between `self.retry`'s publication and its raise,
  and a foreign alarm can hit only a task without `@hard_timeout`, after a signal
  has hit the bookkeeping of an earlier task.
- `HarnessAll`: the parents of workers never overlap; stale state needs a deletion
  that failed, or something that was about at the reset: an orphan, a worker of
  an earlier harness, or a message not yet put back (`quiet`, without which
  `CleanStart` fails: the code does not wait for any of them); the exit status is
  0 exactly if every selected fm has passed, also when a runner is killed at its
  timeout or an exception leaves `main`; and only `docker compose`, `docker exec`
  and the Redis flush, which have no timeout, can keep the harness from ending.

Bounds: `MaxLosses` and `MaxTimeouts` say how often the environment interferes
besides the schedule; `LossPoints` where. *Safe points* are those before the
step whose repetition shows: up to and including the moment before the part is
counted. `FanInComplete` and `ImplementsFanIn` hold from fm2 on for losses
there and fail for later ones (below), so `ChordFm6Refines` says `SafePoints`;
`ChordFm6AnyLoss` allows two everywhere for what holds regardless: one that
repeats a step and one that hits the repetition. `PipelineFm6` has one, which
is enough to publish the body twice.
`DeliveryLimit` is 2 (3 in the code) and `MaxRetries` 1 (3 for parse, 5 for
notify), except 2 for the runner's notifies: each limit is reached and passed.
`Copies` bounds the notify messages that exist at a time; a retry waits for a
free one. Ticks are scaled down with the order of the real durations kept: send
shorter than the retry budget, `RunTime` shorter than the TTL, the runner's poll
shorter than the send, `Soft` < `Hard` < `Hang` < `Backstop`. `MaxStalls` bounds
how long a task stays outside its body; the assumption `Hard + MaxStalls <
Backstop` (5 s against 300 s) is what keeps the backstop last. Three tasks in
`TaskClocks` are one that leaves a timer behind, one that it hits, and one after.
In `HarnessAll` `Left` names the one fm of which a worker may be left.
`HeaderTime` and `Lag` bound the waits in `Runner`; `Lag` is 0 in its run.
`Version` 0, 2, 3 and 5 are in the model but the passing runs check only the
first and the last of the decorated versions: what a version adds is a guard of
the next, and the violations below use 2 and 3. `HARD_HANG_MANUAL` is in no
schedule of a header run: after the alarm it takes the path of `SOFT_HANG`
there, and `TaskClocks` has it (`hard_hang`).

### Where the code and its documents differ

These runs must fail; each counterexample is one of `findings`.

- `ChordDeadFetch`: a fetch message at its delivery limit has no chord in its
  embed; `drain_dlq` skips it and the chord stalls with nothing left to do.
- `ChordLostAck`: a worker lost after its part was counted runs again; the new
  part carries another attempt number, counts as another member, and `notify`
  is published with a document missing.
- `NotifyCrash`: after a crash between `send_email` and `mark_sent` nothing is
  resent: the redelivery waits for the lock 10 s, the lock expires after 600 s.

Also, and only in words:
- after a soft limit in `fetch_document`, `parse_document` parses the document
  "unknown" and reports a success (`fm6_task_timeouts.py:255`; `SoftLimit` and
  `DocId` of the model), so that the hung document counts as ok;
- the worker that completed the count may be lost before it publishes `notify`;
  the second execution overshoots the count and the chord stalls (with
  `LossPoints = {"fire"}` the model shows it; same cause as `ChordLostAck`);
- `_expected_attempts` says N + 1 for every int N, but beyond `MAX_RETRIES` a
  document is entered `MAX_RETRIES` + 1 times (`fm5_transient_failures.py:254`;
  no schedule of the repository goes there);
- the contract in `fm4_duplicated_runs.py:150` says "busy-retry in 10s", the
  delay is 2 s;
- `fm6_task_timeouts.py:179` says the alarm "covers only the body, not
  decorators"; it can go off in `hard_timeout`'s own `finally`, and, left behind
  by a soft limit there, in a later task;
- `fm0_naive.py:68` and `run_all_fms.py:15` speak of a stall of fm0; the failed
  chord member makes `result.ready()` true with `ChordError` and the last
  assertion fails, as the comment at `fm0_naive.py:114` says;
- `result.py:26` speaks of a partial context on FAILURE; `enveloped` passes an
  empty payload;
- `run_all_fms.py:50` says the queues are deleted so that no leftover message "can
  leak across scenarios"; what a worker's processes still hold, or publish after
  its parent has ended, gets in after the deletion (`Harness`, the premise
  `quiet` of `CleanStart`);
- `runner_timeout_seconds` of fm4 .. fm6 (60, 90, 90) is shorter than the
  runners' own waits (90, 120, 150).

## 4. Fairness

`ChordHeader`: a task that has begun a step finishes it (`Progress`), and a free
slot takes some message or dead letter (`Dispatch`): prefetching workers do, and
beat publishes the drain every two seconds. The two are separate, for each slot,
and `Dispatch` promises no particular message. Losses, soft limits and `Rest`
are never forced. `Report`: besides, notify's steps and the runner go on; when
its deadline passes is left open. `NotifyLock`: each copy that can go on does,
and time passes. `Runner`: besides, the runner goes on; that the notifies are
picked up within `Lag` is a bound of the model, not a promise of the code, and
`RunnerPasses` names it in its premise (with 0 in the run it still leaves every
order of the steps of one tick). `TaskTimeouts`: the decorators' statements run,
time passes, and a limit that is due is signalled; a body need not return.
`Harness`: only the harness itself goes on, and only in its timed steps
(`TimedStep`): `docker compose up` and `down`, `await_startup`, the flush and the
deletions have no timeout, so that `Ends` is about all the rest. Workers,
services, children and the broker owe nothing.

## 5. Proofs

For all documents, schedules, versions, limits, slots, tasks, TTLs, durations and
tables of fms that the modules' assumptions allow.

`NotifyLockProofs`
- `TypeCorrect`: `TypeOK` is inductive.
- `Exclusion` and `SentStays`. `MutualExclusion` is not inductive: a holder may
  keep the key only while it lives. The strengthening `ClaimInv` relates the age
  of the holder to the TTL that is left (the key outlives the run as long as
  `RunTime < TTL`), and says that a key set to "sent" has no TTL and no holder.
- `SendsAreBounded`: `SendsInv` counts the e-mails against the executions that
  have sent: each is sent, still to be marked, or was cut short and counted.
- `ResultsTrue`: before the first e-mail neither the key nor an outcome nor a
  result says that one was sent (`SentInv`); and the right to say "I sent it" is
  a token (`TokenInv`) that only the mark creates, while the key says not_sent.
- `NoneFails`: undisturbed, a notify retries only while another holds the claim,
  and each retry costs it `RetryDelay`. `SkipInv` says that the holder has been
  running at least as long as the retries of any other have taken (`Patient`);
  as it runs at most `RunTime < MaxRetries * RetryDelay`, none runs out of them.
  (fm6's 300 s `time_limit` is longer than its 5 retries of 2 s: the premise is
  about how long executions last, 2 s of sending, not how long they may.)
- `ArriveKeeps`: a notify that arrives while others run disturbs none of these
  invariants, which is what the compositions need.

`PipelineProofs`, from the two components' proofs: `NotifyLockProofs` instantiated
with the notifies of the pipeline, `FanInProofs` extended
- `PipelineBodies`: the composition takes no step in the header that
  `ChordHeader` could not (`HeaderOfPipeline`), so `FanInComplete` carries over.
- `EmailsAreBounded`: a header step is a stutter of the lock or an arrival
  (`NotifyStepIs`), so the lock's invariants hold in the composition.
- `DeliveredExactlyOnce`: besides, `Pending` says that a published body has a
  result or a copy that is on its way to one.

`RunnerProofs`
- `RunnerTypeCorrect`: a nap begins before the deadline, so the wait ends within
  `Interval` after it (`NapInv`).
- `AssertionsAreRight`, of the assertions of fm4: sent by the chord's notify,
  skipped by the duplicate, one e-mail, and contention seen. `HeldInv` and `AgeInv` turn
  the lags of the model into ages, so that the retries outlast the holder
  (`HoldersInTime`, then `SkipInv` applies); `Sender` says who claims and who
  can only skip, resting on one live copy per notify (`LiveInv`); and `OnTime`
  follows the duplicate to its GET with a clock: polled for within `Interval`,
  queued and claiming for a lag each, it is through its GET before the send it
  competes with is `SendTime` old.

`ChordHeaderProofs`
- `TypeCorrect`: `TypeOK` is inductive.
- `ChordFailsByLimit`: `StateInv` says every result in hand or in the sorted set
  has Celery state SUCCESS, given envelopes and late acknowledgement or no loss,
  as long as no limit has escaped the decorators.
- All of these with limits at every point where the model has them.
- `EveryDocumentAccounted`: `TrackInv` says that a document that is not in a
  queue, in a worker's hands or among the parts was dropped by the drain, as
  long as the keys exist, and that they exist until a body is published. A
  detached task counts for nothing: its message is in the queue again.
- `BodiesAreBounded` and `AttemptsAreBounded` bound sums over messages and
  slots. The sum is the cardinality of a set that has as many elements for each
  message and slot as it weighs (`Stock`, `Hands`), so that a step needs only
  what a put, a take or a move does to it (`StockPut`, `StockTake`,
  `HandsMove`), not induction. In `BodiesInv` every message and every slot that may
  yet fire the body weighs one. Until it is fired their sum and the parts are at
  most the documents and the losses together; from then on the sum and the
  bodies published are at most one and the losses. In `AttemptsInv` a
  message or slot weighs the executions left to it (`Worth`): its deliveries
  to the limit when it is poison, its retries when it is not; counter and
  weights of a document together never exceed `MostAttempts`, once and once for
  each loss.

`FanInProofs`, as long as it is `Unrepeated`: no loss so far, or losses strike only
before a part is counted, and only whole processes (`ChordLostAck` shows why),
and no limit has struck between a retry's publication and its raise
- `BodyIsComplete`: instead of counting messages the invariant `FanInv` makes
  every document one token: in one queue, in one worker's hands up to `part`
  (`OneMessage`, `OneWorker`), or one member of the sorted set (`OnePart`),
  never two of these (`OnItsWay`). As many members as documents then means one
  of each (`AllJoined`, an injection into a finite set of the same size), and
  the worker that completes the set is the only one to fire (`OneFires`).
- `Refinement` (losses at safe points): under `FanInv`, `PartReturn` is
  `FanIn!Finish`, `FireBody` `FanIn!Notify`; what waives the promise is
  `FanIn!Waive`, and it stays waived (`StaysWaived`); every other step stutters.

`ReportProofs`, about `ChordHeader` and `Report`
- `PredictionsHold` assumes `Foreseen`: a flaky document recovers within the
  retry budget (`_expected_attempts` says N + 1 also for more failures than
  that), and a crash does not exhaust the delivery limit. `Foretold` relates
  the counter of a document to where its token is: to the retries its message
  has had when it is flaky, to its deliveries when it is poison or crashes
  once, to nothing entered yet otherwise. It needs `FanInv`: one token, so
  nobody else counts. A part then is what was predicted (`Settled`), and a
  published body consists of such parts.
- `RunnerPassesUndisturbed`: the counts of `notify` from `Settled` and
  `FanInComplete` (`OneOfEach`, a bijection between the results of a status and
  the documents it is expected of), and from them each assertion
  (`EveryAssertion`).
- `PassedReports`, with any losses. fm5 and fm6 assert the counts. fm1 does not:
  there `EarlyInv` says that, acknowledged early, a document has one token at
  most, what is lost being lost or a `WorkerLostError` among the parts
  (`OneToken`). So of two workers that fire the body one has such a part before
  it (`EarlyFires`: with a part of each document it is one too many), and a
  published body is whole and right (`EarlyBodies`). Not so in fm2 .. fm4,
  which assert no counts while a loss may repeat a part.

`TaskTimeoutsProofs`
- `TypeCorrect`, `AlarmHandled`, `AlarmCleared`, `AlarmOwn`, `SlotFreed`,
  `RetryExcludesPart`, `FailureNeedsSignal`: every invariant of `TaskClocks`.
  The strengthening says at which statements the timer runs and under which
  handler, how a task's age is divided between its body and the rest, and which
  statement each exception was raised at. `SlotFreed` is where the assumption
  on the backstop is needed.

`HarnessProofs`
- `TypeCorrect`, `WorkersApart`, `StartsClean`, `ExitTrue`: every invariant of
  `HarnessAll`. `CleanStart` needs to follow what can come back after a quiet
  reset: all of it is new, made by the fm's own worker, its beat or the children
  of either (`Cleaned`, `AllNew`); the exit status needs that the loop leaves a
  verdict behind for every fm it takes, and an exception one fm without
  (`Looped`).

Model-checked only: liveness and the fairness half of the refinement (out of the
prover's reach; `ImplementsFanIn` is `FanIn!FairSpec`, `Refinement` proves its
safety part).

## 6. Not modelled, and plan

Not modelled: the Redis client, the compose file, packaging and CI (no state of
their own); what the tasks print; the field-by-field round trip of
`to_celery_dict` and `from_dict`, of which only the status and the missing
payload have consequences elsewhere; in `_finalize_dlq_message` the branch for
messages that are not protocol v2; a connection lost during `notify`.

Next: that connection loss; two losses in the runs of `Pipeline` and `NotifyLock`
(the theorems do not bound their number).
