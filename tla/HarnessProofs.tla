--------------------------- MODULE HarnessProofs ---------------------------
(***************************************************************************)
(* Proofs about Harness, for every table of fms, any workers left behind   *)
(* and any number of workers that die.  That a runner starts clean needs   *)
(* to follow what can still come back: when nothing is about at the reset, *)
(* all that appears until the runner starts comes from the fm's own        *)
(* worker.  That the exit status is true needs to know that the loop       *)
(* leaves a verdict behind for each fm it takes, and that an exception     *)
(* leaves one without.                                                     *)
(***************************************************************************)
EXTENDS Harness, TLAPS

Starting == {"probe", "compose", "ports", "boot"}

(* A parent that is waited for after SIGKILL has been killed.              *)
Killed == step = "kill" /\ Alive(spec) => worker[spec] = "killed"

(* There is nothing but what the present run_one has brought about.        *)
AllNew ==
    /\ leftover = {}
    /\ keys \subseteq {"new"} /\ queue[QueueOf(spec)] \subseteq {"new"}
    /\ held[spec] \subseteq {"new"} /\ orphans[spec] \subseteq {"new"}
    /\ \A s \in Names : s # spec => held[s] = {} /\ orphans[s] = {}

(* From the reset to the start of the runner nothing old comes back.       *)
Cleaned ==
    /\ step \notin Starting \cup Ended => services = "up"
    /\ quiet /\ step \in {"start", "wait", "run"} => AllNew
    /\ step = "run" \/ (step = "wait" /\ log[spec] = "ready") =>
         worker[spec] \in {"ready", "gone"}

(* The loop's fm is a selected one, and what it has left behind has a      *)
(* verdict.                                                                *)
Looped ==
    /\ step # "exited_2" => selected # {}
    /\ step \in Starting => todo = selected
    /\ spec \in Names => \E j \in selected \ todo : spec = FMs[j]
    /\ \A i \in DOMAIN FMs \ selected : verdict[FMs[i]] = "none"
    /\ step \in Ended \cup Starting \cup {"next", "down"} \/ spec \in Names
    /\ \A i \in selected \ todo :
         \/ verdict[FMs[i]] # "none"
         \/ FMs[i] = spec /\ step \in Running \cup {"raised"}

IInv == TypeOK /\ OneWorker /\ Killed /\ Cleaned /\ Looped /\ ExitIsTrue

(* Every fm has a queue.                                                   *)
LEMMA QueueIsThere == \A s \in Names : QueueOf(s) \in Queues
  BY DEF QueueOf, Queues

(* Every position of the table names an fm, and no other one does.         *)
LEMMA Positions ==
    /\ \A i \in DOMAIN FMs : FMs[i] \in Names
    /\ \A s \in Names : \E i \in DOMAIN FMs : s = FMs[i]
    /\ \A i, j \in DOMAIN FMs : FMs[i] = FMs[j] => i = j
  BY HarnessAssumption DEF Names

(* What the exit status says after a step, of main()'s end.                *)
LEMMA ExitIs ==
    ExitIsTrue' <=>
      /\ step' = "exited_0" =>
           selected' # {} /\ \A i \in selected' : verdict'[FMs[i]] = "PASS"
      /\ step' \in Ended /\ selected' # {}
           /\ (\A i \in selected' : verdict'[FMs[i]] = "PASS") =>
           step' = "exited_0"
      /\ step' \in Ended => (step' = "exited_2" <=> selected' = {})
<1>1. CASE step' = "exited_0"
  BY <1>1 DEF ExitIsTrue, Status, Ended
<1>2. CASE step' = "exited_2"
  BY <1>2 DEF ExitIsTrue, Status, Ended
<1>3. CASE step' \notin {"exited_0", "exited_2"}
  BY <1>3 DEF ExitIsTrue, Status, Ended
<1> QED
  BY <1>1, <1>2, <1>3

(* Every step keeps the types, and runs no fm twice.                       *)
LEMMA TypeStep ==
    ASSUME TypeOK, Looped, Next
    PROVE  TypeOK'
<1> USE QueueIsThere, Positions
    DEF TypeOK, Looped, Starting, Untimed, Running, Ended, Ages, Aged,
        loop, main, state, processes
<1>1. CASE Probe
  BY <1>1 DEF Probe
<1>2. CASE Compose
  BY <1>2 DEF Compose
<1>3. CASE Ports
  BY <1>3 DEF Ports
<1>4. CASE Boot
  BY <1>4 DEF Boot
<1>5. CASE NextSpec
  <2>1. CASE \E i \in todo : Begin(i) /\ todo' = todo \ {i}
    <3>1. PICK i \in todo : Begin(i) /\ todo' = todo \ {i}
      BY <2>1
    <3>2. /\ step' = "reset" /\ spec' = FMs[i]
          /\ UNCHANGED <<selected, verdict, quiet, services, worker,
                        leftover, log>>
      BY <1>5, <3>1 DEF NextSpec, Begin
    <3>3. queue' \in [Queues -> SUBSET Ages] /\ keys' \subseteq Ages
      BY <3>1 DEF Begin
    <3>4. /\ held' \in [Names -> SUBSET Ages]
          /\ orphans' \in [Names -> SUBSET Ages]
      BY <3>1 DEF Begin
    <3>5. /\ spec' \in Names /\ todo' \subseteq selected'
          /\ verdict'[spec'] = "none"
          /\ \A j \in todo' : verdict'[FMs[j]] = "none"
      BY <3>1, <3>2
    <3> QED
      BY <3>2, <3>3, <3>4, <3>5
  <2>2. CASE /\ UNCHANGED <<spec, todo, orphans, state>>
             /\ step' \in {Summary, "down"}
    BY <1>5, <2>2 DEF NextSpec, Summary
  <2> QED
    BY <1>5, <2>1, <2>2 DEF NextSpec
<1>6. CASE Down
  BY <1>6 DEF Down, Summary
<1>7. CASE Reset
  <2>1. /\ step' \in {"raised", "start"} /\ spec \in Names
        /\ UNCHANGED <<loop, verdict, services, worker, orphans, leftover,
                      held>>
    BY <1>7 DEF Reset
  <2>2. quiet' \in BOOLEAN
    BY <1>7 DEF Reset, Alone
  <2>3. PICK flushed \in BOOLEAN, kept \in SUBSET {"celery", QueueOf(spec)} :
          /\ keys' = IF flushed THEN {} ELSE keys
          /\ queue' = [q \in Queues |->
                         IF q \in {"celery", QueueOf(spec)} \ kept
                         THEN {} ELSE queue[q]]
    BY <1>7 DEF Reset
  <2>6. keys' \subseteq Ages
    BY <2>3
  <2>7. queue' \in [Queues -> SUBSET Ages]
    BY <2>3
  <2>4. log' \in [Names -> {"absent", "empty", "ready"}]
    BY <1>7 DEF Reset
  <2>5. step = "reset" /\ verdict[spec] = "none"
    BY <1>7 DEF Reset
  <2> QED
    BY <2>1, <2>2, <2>4, <2>5, <2>6, <2>7
<1>8. CASE StartWorker
  BY <1>8 DEF StartWorker
<1>9. CASE WaitForWorker
  BY <1>9 DEF WaitForWorker, Conclude
<1>10. CASE RunRunner
  BY <1>10 DEF RunRunner
<1>11. CASE RunnerEnds
  BY <1>11 DEF RunnerEnds, Conclude
<1>12. CASE StopWorker
  BY <1>12 DEF StopWorker
<1>13. CASE WaitForTerm
  BY <1>13 DEF WaitForTerm
<1>14. CASE WaitForKill
  BY <1>14 DEF WaitForKill
<1>15. CASE ServicesStart
  BY <1>15 DEF ServicesStart
<1>16. ASSUME NEW s \in Names, WorkerReady(s)
      PROVE  TypeOK'
  BY <1>16 DEF WorkerReady
<1>17. ASSUME NEW s \in Names, WorkerDies(s)
      PROVE  TypeOK'
  BY <1>17 DEF WorkerDies, AgeOf
<1>18. ASSUME NEW s \in Names, OrphansEnd(s)
      PROVE  TypeOK'
  BY <1>18 DEF OrphansEnd
<1>19. ASSUME NEW s \in Names, LeftoverEnds(s)
      PROVE  TypeOK'
  BY <1>19 DEF LeftoverEnds
<1>20. ASSUME NEW s \in Names, NEW m \in Ages, WorkerTakes(s, m)
      PROVE  TypeOK'
  BY <1>20 DEF WorkerTakes
<1>21. ASSUME NEW s \in Names, NEW m \in Ages, WorkerRuns(s, m)
      PROVE  TypeOK'
  BY <1>21 DEF WorkerRuns, Task
<1>22. ASSUME NEW s \in Names, NEW m \in Ages, OrphansRun(s, m)
      PROVE  TypeOK'
  BY <1>22 DEF OrphansRun, Task
<1>23. ASSUME NEW s \in Names, NEW m \in Ages, BeatTicks(s, m)
      PROVE  TypeOK'
  BY <1>23 DEF BeatTicks, AgeOf
<1>24. ASSUME NEW s \in Names, NEW m \in Ages, Requeue(s, m)
      PROVE  TypeOK'
  BY <1>24 DEF Requeue
<1>25. CASE Over
  BY <1>25 DEF Over, vars
<1> QED
  BY <1>1, <1>2, <1>3, <1>4, <1>5, <1>6, <1>7, <1>8, <1>9, <1>10, <1>11,
     <1>12, <1>13, <1>14, <1>15, <1>16, <1>17, <1>18, <1>19, <1>20,
     <1>21, <1>22, <1>23, <1>24, <1>25
  DEF Next, UntimedStep, TimedStep, Environment

(* Every step keeps the workers apart.                                     *)
LEMMA OneWorkerStep ==
    ASSUME TypeOK, OneWorker, Killed, Next
    PROVE  OneWorker' /\ Killed'
<1> USE Positions
    DEF TypeOK, OneWorker, Killed, Alive, Untimed, Running, Ended, loop,
        main, state, processes
<1>1. CASE Probe
  BY <1>1 DEF Probe
<1>2. CASE Compose
  BY <1>2 DEF Compose
<1>3. CASE Ports
  BY <1>3 DEF Ports
<1>4. CASE Boot
  BY <1>4 DEF Boot
<1>5. CASE NextSpec
  BY <1>5 DEF NextSpec, Begin, Summary
<1>6. CASE Down
  BY <1>6 DEF Down, Summary
<1>7. CASE Reset
  BY <1>7 DEF Reset, Alone
<1>8. CASE StartWorker
  BY <1>8 DEF StartWorker
<1>9. CASE WaitForWorker
  BY <1>9 DEF WaitForWorker, Conclude
<1>10. CASE RunRunner
  BY <1>10 DEF RunRunner
<1>11. CASE RunnerEnds
  BY <1>11 DEF RunnerEnds, Conclude
<1>12. CASE StopWorker
  BY <1>12 DEF StopWorker
<1>13. CASE WaitForTerm
  BY <1>13 DEF WaitForTerm
<1>14. CASE WaitForKill
  BY <1>14 DEF WaitForKill
<1>15. CASE ServicesStart
  BY <1>15 DEF ServicesStart
<1>16. ASSUME NEW s \in Names, WorkerReady(s)
      PROVE  OneWorker' /\ Killed'
  BY <1>16 DEF WorkerReady
<1>17. ASSUME NEW s \in Names, WorkerDies(s)
      PROVE  OneWorker' /\ Killed'
  BY <1>17 DEF WorkerDies, AgeOf
<1>18. ASSUME NEW s \in Names, OrphansEnd(s)
      PROVE  OneWorker' /\ Killed'
  BY <1>18 DEF OrphansEnd
<1>19. ASSUME NEW s \in Names, LeftoverEnds(s)
      PROVE  OneWorker' /\ Killed'
  BY <1>19 DEF LeftoverEnds
<1>20. ASSUME NEW s \in Names, NEW m \in Ages, WorkerTakes(s, m)
      PROVE  OneWorker' /\ Killed'
  BY <1>20 DEF WorkerTakes
<1>21. ASSUME NEW s \in Names, NEW m \in Ages, WorkerRuns(s, m)
      PROVE  OneWorker' /\ Killed'
  BY <1>21 DEF WorkerRuns, Task
<1>22. ASSUME NEW s \in Names, NEW m \in Ages, OrphansRun(s, m)
      PROVE  OneWorker' /\ Killed'
  BY <1>22 DEF OrphansRun, Task
<1>23. ASSUME NEW s \in Names, NEW m \in Ages, BeatTicks(s, m)
      PROVE  OneWorker' /\ Killed'
  BY <1>23 DEF BeatTicks, AgeOf
<1>24. ASSUME NEW s \in Names, NEW m \in Ages, Requeue(s, m)
      PROVE  OneWorker' /\ Killed'
  BY <1>24 DEF Requeue
<1>25. CASE Over
  BY <1>25 DEF Over, vars
<1> QED
  BY <1>1, <1>2, <1>3, <1>4, <1>5, <1>6, <1>7, <1>8, <1>9, <1>10, <1>11,
     <1>12, <1>13, <1>14, <1>15, <1>16, <1>17, <1>18, <1>19, <1>20,
     <1>21, <1>22, <1>23, <1>24, <1>25
  DEF Next, UntimedStep, TimedStep, Environment

(* Nothing comes back between the reset and the runner.                    *)
LEMMA CleanedStep ==
    ASSUME TypeOK, OneWorker, Cleaned, Next
    PROVE  Cleaned'
<1> USE QueueIsThere, HarnessAssumption
    DEF TypeOK, OneWorker, Cleaned, AllNew, Alive, Starting, Untimed,
        Running, Ended, Ages, loop, main, state, processes
<1>1. CASE Probe
  BY <1>1 DEF Probe
<1>2. CASE Compose
  BY <1>2 DEF Compose
<1>3. CASE Ports
  BY <1>3 DEF Ports
<1>4. CASE Boot
  BY <1>4 DEF Boot
<1>5. CASE NextSpec
  BY <1>5 DEF NextSpec, Begin, Summary
<1>6. CASE Down
  BY <1>6 DEF Down, Summary
<1>7. CASE Reset
  BY <1>7 DEF Reset, Alone
<1>8. CASE StartWorker
  BY <1>8 DEF StartWorker
<1>9. CASE WaitForWorker
  BY <1>9 DEF WaitForWorker, Conclude
<1>10. CASE RunRunner
  BY <1>10 DEF RunRunner
<1>11. CASE RunnerEnds
  BY <1>11 DEF RunnerEnds, Conclude
<1>12. CASE StopWorker
  BY <1>12 DEF StopWorker
<1>13. CASE WaitForTerm
  BY <1>13 DEF WaitForTerm
<1>14. CASE WaitForKill
  BY <1>14 DEF WaitForKill
<1>15. CASE ServicesStart
  BY <1>15 DEF ServicesStart
<1>16. ASSUME NEW s \in Names, WorkerReady(s)
      PROVE  Cleaned'
  BY <1>16 DEF WorkerReady
<1>17. ASSUME NEW s \in Names, WorkerDies(s)
      PROVE  Cleaned'
  BY <1>17 DEF WorkerDies, AgeOf
<1>18. ASSUME NEW s \in Names, OrphansEnd(s)
      PROVE  Cleaned'
  BY <1>18 DEF OrphansEnd
<1>19. ASSUME NEW s \in Names, LeftoverEnds(s)
      PROVE  Cleaned'
  BY <1>19 DEF LeftoverEnds
<1>20. ASSUME NEW s \in Names, NEW m \in Ages, WorkerTakes(s, m)
      PROVE  Cleaned'
  BY <1>20 DEF WorkerTakes
<1>21. ASSUME NEW s \in Names, NEW m \in Ages, WorkerRuns(s, m)
      PROVE  Cleaned'
  BY <1>21 DEF WorkerRuns, Task
<1>22. ASSUME NEW s \in Names, NEW m \in Ages, OrphansRun(s, m)
      PROVE  Cleaned'
  BY <1>22 DEF OrphansRun, Task
<1>23. ASSUME NEW s \in Names, NEW m \in Ages, BeatTicks(s, m)
      PROVE  Cleaned'
  BY <1>23 DEF BeatTicks, AgeOf
<1>24. ASSUME NEW s \in Names, NEW m \in Ages, Requeue(s, m)
      PROVE  Cleaned'
  BY <1>24 DEF Requeue
<1>25. CASE Over
  BY <1>25 DEF Over, vars
<1> QED
  BY <1>1, <1>2, <1>3, <1>4, <1>5, <1>6, <1>7, <1>8, <1>9, <1>10, <1>11,
     <1>12, <1>13, <1>14, <1>15, <1>16, <1>17, <1>18, <1>19, <1>20,
     <1>21, <1>22, <1>23, <1>24, <1>25
  DEF Next, UntimedStep, TimedStep, Environment

(* The loop leaves a verdict for each fm.                                  *)
LEMMA LoopedStep ==
    ASSUME TypeOK, Looped, Next
    PROVE  Looped'
<1> USE Positions
    DEF TypeOK, Looped, Starting, Untimed, Running, Ended, loop, main,
        state, processes
<1>1. CASE Probe
  BY <1>1 DEF Probe
<1>2. CASE Compose
  BY <1>2 DEF Compose
<1>3. CASE Ports
  BY <1>3 DEF Ports
<1>4. CASE Boot
  BY <1>4 DEF Boot
<1>5. CASE NextSpec
  BY <1>5 DEF NextSpec, Begin, Summary
<1>6. CASE Down
  BY <1>6 DEF Down, Summary
<1>7. CASE Reset
  BY <1>7 DEF Reset, Alone
<1>8. CASE StartWorker
  BY <1>8 DEF StartWorker
<1>9. CASE WaitForWorker
  BY <1>9 DEF WaitForWorker, Conclude
<1>10. CASE RunRunner
  BY <1>10 DEF RunRunner
<1>11. CASE RunnerEnds
  BY <1>11 DEF RunnerEnds, Conclude
<1>12. CASE StopWorker
  BY <1>12 DEF StopWorker
<1>13. CASE WaitForTerm
  BY <1>13 DEF WaitForTerm
<1>14. CASE WaitForKill
  BY <1>14 DEF WaitForKill
<1>15. CASE ServicesStart
  BY <1>15 DEF ServicesStart
<1>16. ASSUME NEW s \in Names, WorkerReady(s)
      PROVE  Looped'
  BY <1>16 DEF WorkerReady
<1>17. ASSUME NEW s \in Names, WorkerDies(s)
      PROVE  Looped'
  BY <1>17 DEF WorkerDies, AgeOf
<1>18. ASSUME NEW s \in Names, OrphansEnd(s)
      PROVE  Looped'
  BY <1>18 DEF OrphansEnd
<1>19. ASSUME NEW s \in Names, LeftoverEnds(s)
      PROVE  Looped'
  BY <1>19 DEF LeftoverEnds
<1>20. ASSUME NEW s \in Names, NEW m \in Ages, WorkerTakes(s, m)
      PROVE  Looped'
  BY <1>20 DEF WorkerTakes
<1>21. ASSUME NEW s \in Names, NEW m \in Ages, WorkerRuns(s, m)
      PROVE  Looped'
  BY <1>21 DEF WorkerRuns, Task
<1>22. ASSUME NEW s \in Names, NEW m \in Ages, OrphansRun(s, m)
      PROVE  Looped'
  BY <1>22 DEF OrphansRun, Task
<1>23. ASSUME NEW s \in Names, NEW m \in Ages, BeatTicks(s, m)
      PROVE  Looped'
  BY <1>23 DEF BeatTicks, AgeOf
<1>24. ASSUME NEW s \in Names, NEW m \in Ages, Requeue(s, m)
      PROVE  Looped'
  BY <1>24 DEF Requeue
<1>25. CASE Over
  BY <1>25 DEF Over, vars
<1> QED
  BY <1>1, <1>2, <1>3, <1>4, <1>5, <1>6, <1>7, <1>8, <1>9, <1>10, <1>11,
     <1>12, <1>13, <1>14, <1>15, <1>16, <1>17, <1>18, <1>19, <1>20,
     <1>21, <1>22, <1>23, <1>24, <1>25
  DEF Next, UntimedStep, TimedStep, Environment

(* The exit status tells what the verdicts are.                            *)
LEMMA ExitStep ==
    ASSUME TypeOK, Looped, ExitIsTrue, Next
    PROVE  ExitIsTrue'
<1> USE Positions, ExitIs
    DEF TypeOK, Looped, Starting, Untimed, Running, Ended, loop, main,
        state, processes
<1>1. CASE Probe
  BY <1>1 DEF Probe
<1>2. CASE Compose
  BY <1>2 DEF Compose
<1>3. CASE Ports
  BY <1>3 DEF Ports
<1>4. CASE Boot
  BY <1>4 DEF Boot
<1>5. CASE NextSpec
  BY <1>5 DEF NextSpec, Begin, Summary
<1>6. CASE Down
  BY <1>6 DEF Down, Summary
<1>7. CASE Reset
  BY <1>7 DEF Reset, Alone
<1>8. CASE StartWorker
  BY <1>8 DEF StartWorker
<1>9. CASE WaitForWorker
  BY <1>9 DEF WaitForWorker, Conclude
<1>10. CASE RunRunner
  BY <1>10 DEF RunRunner
<1>11. CASE RunnerEnds
  BY <1>11 DEF RunnerEnds, Conclude
<1>12. CASE StopWorker
  BY <1>12 DEF StopWorker
<1>13. CASE WaitForTerm
  BY <1>13 DEF WaitForTerm
<1>14. CASE WaitForKill
  BY <1>14 DEF WaitForKill
<1>15. CASE Environment
  <2>1. step \notin Ended /\ step' = step
    BY <1>15
    DEF Environment, ServicesStart, WorkerReady, WorkerDies, OrphansEnd,
        LeftoverEnds, WorkerTakes, WorkerRuns, OrphansRun, BeatTicks, Requeue
  <2> QED
    BY <2>1
<1>16. CASE Over
  BY <1>16 DEF Over, vars, ExitIsTrue, Status
<1> QED
  BY <1>1, <1>2, <1>3, <1>4, <1>5, <1>6, <1>7, <1>8, <1>9, <1>10, <1>11,
     <1>12, <1>13, <1>14, <1>15, <1>16
  DEF Next, UntimedStep, TimedStep

-----------------------------------------------------------------------------
(* The invariant holds initially and is preserved.                         *)
LEMMA Inductive == Spec => []IInv
<1>1. Init => IInv
  <2> SUFFICES ASSUME Init PROVE IInv
    OBVIOUS
  <2>1. /\ queue \in [Queues -> SUBSET Ages] /\ keys \subseteq Ages
        /\ held \in [Names -> SUBSET Ages]
        /\ orphans \in [Names -> SUBSET Ages] /\ leftover \subseteq Names
    BY HarnessAssumption DEF Init, Ages
  <2>2. selected \subseteq DOMAIN FMs /\ todo = selected
    BY DEF Init
  <2>3. /\ verdict \in [Names -> {"none", "PASS", "FAIL"}]
        /\ \A i \in DOMAIN FMs : verdict[FMs[i]] = "none"
    BY Positions DEF Init
  <2>4. step \in {"probe", "exited_2"} /\ spec = "none"
    BY DEF Init
  <2>5. TypeOK
    BY <2>1, <2>2, <2>3, <2>4 DEF Init, TypeOK, Untimed, Running, Ended
  <2>6. OneWorker /\ Killed
    BY DEF Init, OneWorker, Killed, Alive
  <2>7. Cleaned /\ Looped
    BY HarnessAssumption, Positions
    DEF Init, Cleaned, Looped, Starting, Ended
  <2>8. ExitIsTrue
    BY HarnessAssumption DEF Init, ExitIsTrue, Status, Ended
  <2> QED
    BY <2>5, <2>6, <2>7, <2>8 DEF IInv
<1>2. IInv /\ [Next]_vars => IInv'
  <2> SUFFICES ASSUME IInv, [Next]_vars PROVE IInv'
    OBVIOUS
  <2>1. CASE Next
    BY <2>1, TypeStep, OneWorkerStep, CleanedStep, LoopedStep, ExitStep
    DEF IInv
  <2>2. CASE UNCHANGED vars
    BY <2>2
    DEF vars, IInv, TypeOK, OneWorker, Killed, Cleaned, AllNew, Looped,
        ExitIsTrue, Status, Alive, Starting, Running, Ended
  <2> QED
    BY <2>1, <2>2
<1> QED
  BY <1>1, <1>2, PTL DEF Spec

(* Every reachable state is well typed, and no fm is run twice.            *)
THEOREM TypeCorrect == Spec => []TypeOK
<1>1. IInv => TypeOK
  BY DEF IInv
<1> QED
  BY <1>1, Inductive, PTL

(* No parent process of a worker is ever alive beside that of the present  *)
(* fm, and none is left unless SIGKILL was waited for in vain, whatever    *)
(* children and older workers do.                                          *)
THEOREM WorkersApart == Spec => []OneWorker
<1>1. IInv => OneWorker
  BY DEF IInv
<1> QED
  BY <1>1, Inductive, PTL

(* No runner meets the messages or keys of another run, if at its reset    *)
(* nothing was unacknowledged, no process of another run was left and the  *)
(* deletions succeeded.                                                    *)
THEOREM StartsClean == Spec => []CleanStart
<1>1. IInv => CleanStart
  BY DEF IInv, Cleaned, AllNew, CleanStart, Starting, Ended
<1> QED
  BY <1>1, Inductive, PTL

(* The exit status is 0 exactly if every selected fm has passed, through   *)
(* every exception that ends main().                                       *)
THEOREM ExitTrue == Spec => []ExitIsTrue
<1>1. IInv => ExitIsTrue
  BY DEF IInv
<1> QED
  BY <1>1, Inductive, PTL

=============================================================================
