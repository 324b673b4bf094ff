------------------------------ MODULE Harness ------------------------------
(***************************************************************************)
(* run_all_fms.py: for each selected fm in turn, reset Redis and RabbitMQ, *)
(* start its worker, wait until the worker's log says ready, run           *)
(* run_pipeline in a process of its own with a timeout, and stop the       *)
(* worker.                                                                 *)
(*                                                                         *)
(* The harness is sequential; what makes it hard is what outlives a step.  *)
(* It starts each worker in a session of its own and looks only at the     *)
(* worker's parent process: pool children and beat may outlive it, as may  *)
(* a whole worker of an earlier run.  The broker puts unacknowledged       *)
(* messages back on its own time.  A wait with a timeout may end either    *)
(* way at any moment; docker and Redis calls have no timeout.              *)
(***************************************************************************)
EXTENDS Naturals, Sequences

CONSTANTS
    FMs,           \* FM_SPECS, in order
    Naive,         \* the name of fm0_naive
    Classic,       \* the fms that use the queue "celery" (no queues of theirs)
    Left           \* bound: fms whose worker an earlier harness may have left

Names == {FMs[i] : i \in DOMAIN FMs}

ASSUME HarnessAssumption ==
    /\ FMs \in Seq(STRING) /\ "none" \notin Names
    /\ \A i, j \in DOMAIN FMs : FMs[i] = FMs[j] => i = j
    /\ Classic \subseteq Names /\ Left \subseteq Names

VARIABLES
    step,       \* what main() does next
    selected,   \* positions in FM_SPECS of the fms to run
    todo,       \* those not yet begun
    spec,       \* the fm that run_one is called for
    verdict,    \* FMResult.ok of each
    services,   \* RabbitMQ and Redis
    worker,     \* the parent process of each fm's worker
    orphans,    \* what its children work on after the parent has ended
    leftover,   \* fms whose worker an earlier harness has left running
    log,        \* <fm>.worker.log
    queue,      \* the messages in each queue
    held,       \* the messages an fm's workers hold unacknowledged
    keys,       \* the keys in Redis
    quiet       \* the last reset removed all there was (for the properties)

vars == <<step, selected, todo, spec, verdict, services, worker, orphans,
          leftover, log, queue, held, keys, quiet>>

loop == <<selected, todo, spec>>
main == <<loop, verdict, quiet>>
processes == <<worker, orphans, leftover, log>>
state == <<queue, held, keys>>

Queues == {"celery"} \cup (Names \ Classic)
QueueOf(s) == IF s \in Classic THEN "celery" ELSE s

(* Messages and keys are those of the present run_one or older ones; when  *)
(* the next run_one begins, all are older ones.                            *)
Ages == {"new", "old"}
Aged(S) == IF S = {} THEN {} ELSE {"old"}
AgeOf(s) == IF s = spec THEN "new" ELSE "old"

(* How the harness ends: main() returns, or an exception leaves it; and    *)
(* the exit status of the process, 1 for an uncaught exception too.        *)
Ended == {"exited_0", "exited_1", "exited_2", "raised"}
Status == CASE step = "exited_0" -> 0
            [] step = "exited_2" -> 2
            [] OTHER -> 1

(* The parent process of the fm's worker exists.                           *)
Alive(s) == worker[s] \in {"starting", "ready", "stopping", "killed"}

(* --only names the fms to run, by default all but fm0_naive; other names  *)
(* are ignored.                                                            *)
Selected(only, includeFm0) ==
    IF only # {} THEN only \cap Names
    ELSE IF includeFm0 THEN Names ELSE Names \ {Naive}

(* An earlier harness may have left anything behind, workers that still    *)
(* run and the messages they hold included.  (A log that is not there is   *)
(* unlinked just the same.)                                                *)
Init ==
    /\ \E only \in SUBSET (Names \cup {"other"}), includeFm0 \in BOOLEAN :
         selected = {i \in DOMAIN FMs : FMs[i] \in Selected(only, includeFm0)}
    /\ todo = selected
    /\ step = IF todo = {} THEN "exited_2" ELSE "probe"
    /\ spec = "none"
    /\ verdict = [s \in Names |-> "none"]
    /\ services \in {"down", "listening", "up"}
    /\ worker = [s \in Names |-> "none"]
    /\ orphans = [s \in Names |-> {}]
    /\ leftover \in SUBSET Left
    /\ log = [s \in Names |-> "ready"]
    /\ \E old \in {{}, {"old"}} :
         /\ queue = [q \in Queues |-> old] /\ keys = old
         /\ held = [s \in Names |-> IF s \in Left THEN old ELSE {}]
    /\ quiet = FALSE

-----------------------------------------------------------------------------
(* ensure_services_up: the ports are tried, with a timeout of 0.5 s ...    *)
Probe ==
    /\ step = "probe"
    /\ \/ services # "down" /\ step' = "ports"
       \/ step' = "compose"
    /\ UNCHANGED <<main, services, processes, state>>

(* ... docker compose up runs as long as it takes, and raises if it fails  *)
Compose ==
    /\ step = "compose"
    /\ step' \in {"ports", "raised"}
    /\ UNCHANGED <<main, services, processes, state>>

(* ... the ports get 180 s, then a RuntimeError ...                        *)
Ports ==
    /\ step = "ports"
    /\ \/ services # "down" /\ step' = "boot"
       \/ step' = "raised"
    /\ UNCHANGED <<main, services, processes, state>>

(* ... and so does rabbitmqctl await_startup, but the deadline is looked   *)
(* at between the calls, and a call takes as long as it takes.             *)
Boot ==
    /\ step = "boot"
    /\ \/ services = "up" /\ step' = "next"
       \/ step' = "raised"
    /\ UNCHANGED <<main, services, processes, state>>

Summary ==
    IF \A i \in selected : verdict[FMs[i]] = "PASS"
    THEN "exited_0" ELSE "exited_1"

(* The next run_one begins.                                                *)
Begin(i) ==
    /\ \A j \in todo : i <= j
    /\ spec' = FMs[i] /\ step' = "reset"
    /\ queue' = [q \in Queues |-> Aged(queue[q])]
    /\ held' = [s \in Names |-> Aged(held[s])]
    /\ orphans' = [s \in Names |-> Aged(orphans[s])]
    /\ keys' = Aged(keys)

(* Mutants: a summary over the results that fails only on a FAIL of the    *)
(* last fm; a loop that does not move on.                                  *)
NextSpecLastOnly ==
    /\ step = "next"
    /\ \/ \E i \in todo : Begin(i) /\ todo' = todo \ {i}
       \/ /\ todo = {}
          /\ step' = IF verdict[spec] = "PASS" THEN "exited_0" ELSE "exited_1"
          /\ UNCHANGED <<spec, todo, orphans, state>>
    /\ UNCHANGED <<selected, verdict, quiet, services, worker, leftover, log>>

NextSpecStays ==
    /\ step = "next"
    /\ \/ \E i \in todo : Begin(i) /\ UNCHANGED todo
       \/ /\ todo = {} /\ step' \in {Summary, "down"}
          /\ UNCHANGED <<spec, todo, orphans, state>>
    /\ UNCHANGED <<selected, verdict, quiet, services, worker, leftover, log>>

(* The loop of main() over the selected fms, in the order of FM_SPECS, and *)
(* after it, with --down by way of docker compose down, the exit code.     *)
NextSpec ==
    /\ step = "next"
    /\ \/ \E i \in todo : Begin(i) /\ todo' = todo \ {i}
       \/ /\ todo = {} /\ step' \in {Summary, "down"}
          /\ UNCHANGED <<spec, todo, orphans, state>>
    /\ UNCHANGED <<selected, verdict, quiet, services, worker, leftover, log>>

(* docker compose down has no timeout and its result is not looked at.     *)
Down ==
    /\ step = "down"
    /\ step' = Summary
    /\ services' = "down"
    /\ UNCHANGED <<main, processes, state>>

(* Nothing is about that could bring anything back.                        *)
Alone == leftover = {} /\ \A s \in Names : held[s] = {} /\ orphans[s] = {}

(* Mutant: only the fm's own queues are deleted.                           *)
ResetOwnOnly ==
    /\ step = "reset"
    /\ log' = [log EXCEPT ![spec] = "absent"]
    /\ step' = "start" /\ keys' = {} /\ quiet' = Alone
    /\ queue' = [q \in Queues |-> IF q = spec THEN {} ELSE queue[q]]
    /\ UNCHANGED <<loop, verdict, services, worker, orphans, leftover, held>>

(* run_one unlinks the log, and reset_state flushes Redis, purges "celery" *)
(* and deletes the fm's own queues: none of it has a timeout, whether a    *)
(* deletion succeeds is not looked at, and an exception (Redis, no docker) *)
(* ends main.  Unacknowledged messages are in no queue, so they stay.      *)
(* One step: where others act between its commands they can act after it.  *)
Reset ==
    /\ step = "reset"
    /\ log' = [log EXCEPT ![spec] = "absent"]
    /\ \E flushed \in BOOLEAN, kept \in SUBSET {"celery", QueueOf(spec)} :
         /\ keys' = IF flushed THEN {} ELSE keys
         /\ queue' = [q \in Queues |->
                        IF q \in {"celery", QueueOf(spec)} \ kept
                        THEN {} ELSE queue[q]]
         /\ quiet' = (Alone /\ kept = {})
         /\ step' = "raised" \/ (flushed /\ step' = "start")
    /\ UNCHANGED <<loop, verdict, services, worker, orphans, leftover, held>>

(* start_worker, which opens the log anew; an OSError of either ends main. *)
StartWorker ==
    /\ step = "start"
    /\ \/ /\ step' = "wait"
          /\ worker' = [worker EXCEPT ![spec] = "starting"]
          /\ log' = [log EXCEPT ![spec] = "empty"]
       \/ step' = "raised" /\ UNCHANGED <<worker, log>>
    /\ UNCHANGED <<main, services, orphans, leftover, state>>

(* run_one's result, with which its finally begins.                        *)
Conclude(v) ==
    /\ verdict' = [verdict EXCEPT ![spec] = v]
    /\ step' = "stop"

(* wait_for_worker_ready; its RuntimeError is a FAIL.                      *)
WaitForWorker ==
    /\ step = "wait"
    /\ \/ log[spec] = "ready" /\ step' = "run" /\ UNCHANGED verdict
       \/ Conclude("FAIL")
    /\ UNCHANGED <<loop, quiet, services, processes, state>>

(* run_runner: the runner publishes its chord ...                          *)
RunRunner ==
    /\ step = "run"
    /\ step' = "await"
    /\ queue' = [queue EXCEPT ![QueueOf(spec)] = @ \cup {"new"}]
    /\ UNCHANGED <<main, services, processes, held, keys>>

(* ... and exits 0, or otherwise, or is killed at runner_timeout_seconds.  *)
RunnerEnds ==
    /\ step = "await"
    /\ \E v \in {"PASS", "FAIL"} : Conclude(v)
    /\ UNCHANGED <<loop, quiet, services, processes, state>>

(* stop_worker: SIGTERM to the group; but when the parent has exited, it   *)
(* returns and leaves what else is in the group.                           *)
StopWorker ==
    /\ step = "stop"
    /\ \/ ~Alive(spec) /\ step' = "next" /\ UNCHANGED worker
       \/ /\ Alive(spec)
          /\ worker' = [worker EXCEPT ![spec] = "stopping"]
          /\ step' = "term"
    /\ UNCHANGED <<main, services, orphans, leftover, log, state>>

(* Mutants: a wait without its timeout; no SIGKILL after it.               *)
WaitForTermForever ==
    /\ step = "term"
    /\ ~Alive(spec) /\ step' = "next"
    /\ UNCHANGED <<main, services, processes, state>>

WaitForTermNoKill ==
    /\ step = "term" /\ step' = "next"
    /\ UNCHANGED <<main, services, processes, state>>

(* It waits 15 s for the parent, then kills the group.                     *)
WaitForTerm ==
    /\ step = "term"
    /\ \/ ~Alive(spec) /\ step' = "next" /\ UNCHANGED worker
       \/ /\ Alive(spec)
          /\ worker' = [worker EXCEPT ![spec] = "killed"]
          /\ step' = "kill"
    /\ UNCHANGED <<main, services, orphans, leftover, log, state>>

(* The wait of 5 s after SIGKILL raises TimeoutExpired out of run_one's    *)
(* finally, in place of its result: main() ends without a summary.         *)
WaitForKill ==
    /\ step = "kill"
    /\ \/ ~Alive(spec) /\ step' = "next" /\ UNCHANGED verdict
       \/ /\ Alive(spec) /\ step' = "raised"
          /\ verdict' = [verdict EXCEPT ![spec] = "none"]
    /\ UNCHANGED <<loop, quiet, services, processes, state>>

(* The steps that take as long as they take, and those that do not.        *)
Untimed == {"compose", "boot", "reset", "down"}
UntimedStep == Compose \/ Boot \/ Reset \/ Down
TimedStep ==
    \/ Probe \/ Ports \/ NextSpec \/ StartWorker \/ WaitForWorker
    \/ RunRunner \/ RunnerEnds \/ StopWorker \/ WaitForTerm \/ WaitForKill

-----------------------------------------------------------------------------
(* The processes beside the harness, until it ends.                        *)

ServicesStart ==
    /\ services \in {"down", "listening"}
    /\ services' = IF services = "down" THEN "listening" ELSE "up"
    /\ UNCHANGED <<step, main, processes, state>>

WorkerReady(s) ==
    /\ worker[s] = "starting"
    /\ worker' = [worker EXCEPT ![s] = "ready"]
    /\ log' = [log EXCEPT ![s] = "ready"]
    /\ UNCHANGED <<step, main, services, orphans, leftover, state>>

WorkerTakes(s, m) ==
    /\ worker[s] = "ready" \/ s \in leftover
    /\ m \in queue[QueueOf(s)]
    /\ queue' = [queue EXCEPT ![QueueOf(s)] = @ \ {m}]
    /\ held' = [held EXCEPT ![s] = @ \cup {m}]
    /\ UNCHANGED <<step, main, services, processes, keys>>

(* What a task does: it writes keys and publishes the chord's next tasks,  *)
(* retries or dead letters.                                                *)
Task(s, m) ==
    /\ keys' = keys \cup {m}
    /\ queue' \in {queue, [queue EXCEPT ![QueueOf(s)] = @ \cup {m}]}

(* A worker runs a task and acknowledges its message, or not yet.          *)
WorkerRuns(s, m) ==
    /\ worker[s] \in {"ready", "stopping"} \/ s \in leftover
    /\ m \in held[s]
    /\ held' \in {held, [held EXCEPT ![s] = @ \ {m}]}
    /\ Task(s, m)
    /\ UNCHANGED <<step, main, services, processes>>

(* Children without their parent finish what they do, unacknowledged.      *)
OrphansRun(s, m) ==
    /\ m \in orphans[s]
    /\ Task(s, m)
    /\ UNCHANGED <<step, main, services, processes, held>>

(* beat publishes the drain; the fms with queues of their own have one.    *)
BeatTicks(s, m) ==
    /\ s \in Names \ Classic
    /\ \/ worker[s] \in {"ready", "stopping"} /\ m = AgeOf(s)
       \/ m \in orphans[s]
       \/ s \in leftover /\ m = "old"
    /\ queue' = [queue EXCEPT ![QueueOf(s)] = @ \cup {m}]
    /\ UNCHANGED <<step, main, services, processes, held, keys>>

(* A worker's parent ends, by itself or by a signal; other processes of    *)
(* the group live on, for a moment or for good, or do not.                 *)
WorkerDies(s) ==
    /\ Alive(s)
    /\ worker' = [worker EXCEPT ![s] = "gone"]
    /\ orphans' \in
         {orphans,
          [orphans EXCEPT ![s] = @ \cup held[s] \cup {AgeOf(s)}]}
    /\ UNCHANGED <<step, main, services, leftover, log, state>>

OrphansEnd(s) ==
    /\ orphans[s] # {}
    /\ orphans' = [orphans EXCEPT ![s] = {}]
    /\ UNCHANGED <<step, main, services, worker, leftover, log, state>>

LeftoverEnds(s) ==
    /\ s \in leftover
    /\ leftover' = leftover \ {s}
    /\ UNCHANGED <<step, main, services, worker, orphans, log, state>>

(* The broker notices that a connection is closed, some time after.        *)
Requeue(s, m) ==
    /\ ~Alive(s) \/ s \in leftover
    /\ m \in held[s]
    /\ held' = [held EXCEPT ![s] = @ \ {m}]
    /\ queue' = [queue EXCEPT ![QueueOf(s)] = @ \cup {m}]
    /\ UNCHANGED <<step, main, services, processes, keys>>

Environment ==
    /\ step \notin Ended
    /\ \/ ServicesStart
       \/ \E s \in Names :
            \/ WorkerReady(s) \/ WorkerDies(s)
            \/ OrphansEnd(s) \/ LeftoverEnds(s)
            \/ \E m \in Ages :
                 \/ WorkerTakes(s, m) \/ WorkerRuns(s, m) \/ OrphansRun(s, m)
                 \/ BeatTicks(s, m) \/ Requeue(s, m)

Over == step \in Ended /\ UNCHANGED vars

Next == UntimedStep \/ TimedStep \/ Environment \/ Over

Spec == Init /\ [][Next]_vars

(* Only the harness itself is sure to go on, where it waits with a timeout *)
(* or not at all.                                                          *)
FairSpec == Spec /\ WF_vars(TimedStep)

-----------------------------------------------------------------------------
(* Properties.                                                             *)

Running == {"reset", "start", "wait", "run", "await"}

(* Every variable has its type, and each fm is run once: what is still to  *)
(* be run has no verdict.                                                  *)
TypeOK ==
    /\ step \in {"probe", "ports", "next", "stop", "term", "kill"}
                  \cup Untimed \cup Running \cup Ended
    /\ selected \subseteq DOMAIN FMs /\ todo \subseteq selected
    /\ spec \in Names \cup {"none"}
    /\ verdict \in [Names -> {"none", "PASS", "FAIL"}]
    /\ services \in {"down", "listening", "up"}
    /\ worker \in [Names -> {"none", "starting", "ready", "stopping",
                             "killed", "gone"}]
    /\ orphans \in [Names -> SUBSET Ages] /\ leftover \subseteq Names
    /\ log \in [Names -> {"absent", "empty", "ready"}]
    /\ queue \in [Queues -> SUBSET Ages]
    /\ held \in [Names -> SUBSET Ages]
    /\ keys \subseteq Ages
    /\ quiet \in BOOLEAN
    /\ step \in Running \cup {"stop", "term", "kill"} => spec \in Names
    /\ step \in Running => verdict[spec] = "none"
    /\ \A i \in todo : verdict[FMs[i]] = "none"

(* Of the workers that this harness starts, no parent process is alive     *)
(* beside that of the present fm, none while state is reset, and none is   *)
(* left unless the wait after SIGKILL failed.  (Its children, and workers  *)
(* of an earlier harness, may be.)                                         *)
OneWorker ==
    \A s \in Names :
        Alive(s) =>
            /\ s = spec
            /\ \/ step \in {"wait", "run", "await", "stop", "term", "kill"}
               \/ step = "raised" /\ worker[s] = "killed"

(* A runner starts with its worker ready, on the word of a log that is not *)
(* a former one's.  And when at the reset no process but the harness was   *)
(* left and the broker had put everything back, and no deletion failed, it *)
(* meets nothing of another run, in its queue, in its worker's hands or in *)
(* Redis.  Without that premise a message put back late gets in.           *)
CleanStart ==
    step = "run" =>
        /\ services = "up"
        /\ worker[spec] \in {"ready", "gone"}
        /\ quiet =>
             /\ queue[QueueOf(spec)] \subseteq {"new"}
             /\ held[spec] \subseteq {"new"}
             /\ keys \subseteq {"new"}

(* The exit status is 0 exactly if every selected fm has passed, and 2     *)
(* exactly if none was selected; so 1 means a FAIL, or an exception that   *)
(* left a selected fm without a result.                                    *)
ExitIsTrue ==
    step \in Ended =>
        /\ Status = 0 <=>
             selected # {} /\ \A i \in selected : verdict[FMs[i]] = "PASS"
        /\ Status = 2 <=> selected = {}

(* The harness ends, whatever the workers and the runner do, unless a call *)
(* of docker or Redis that has no timeout does not return.                 *)
Ends == <>[](step \in Ended \cup Untimed)

=============================================================================
