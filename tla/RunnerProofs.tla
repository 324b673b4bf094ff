---------------------------- MODULE RunnerProofs ----------------------------
(***************************************************************************)
(* Proofs about Runner: its waits end when they should, and the assertions *)
(* about the two notifies hold whenever the time they need is given.       *)
(***************************************************************************)
EXTENDS Runner, NotifyLockProofs

USE NotifyLockAssumption, RunnerAssumption
    DEF NotifyLockConstants, RunnerAssumption

-----------------------------------------------------------------------------
(* A poll may start a nap only before the deadline, so that a nap ends at  *)
(* most Interval after it.                                                 *)
NapInv ==
    /\ RunnerTypeOK
    /\ runner = "wait_claim" => elapsed + nap < ClaimTimeout + Interval
    /\ runner = "wait_results" => elapsed + nap < ResultTimeout + Interval
    /\ runner = "fire" => elapsed = 0 /\ nap = 0

LEMMA NapInvInit == RunnerInit => NapInv
  BY DEF RunnerInit, NapInv, RunnerTypeOK, Waiting, Verdict

LEMMA NapInvStep == NapInv /\ [RunnerNext]_allVars => NapInv'
<1> SUFFICES ASSUME NapInv, [RunnerNext]_allVars PROVE NapInv'
  OBVIOUS
<1> USE DEF NapInv, RunnerTypeOK, Waiting, Verdict
<1>1. CASE PollClaim
  BY <1>1 DEF PollClaim, Poll
<1>2. CASE FireDuplicate
  BY <1>2 DEF FireDuplicate
<1>3. CASE PollResults
  BY <1>3 DEF PollResults, Poll
<1>4. CASE Assert
  BY <1>4 DEF Assert
<1>5. ASSUME NEW c \in Copies, CopyStep(c) \/ CopyEnds(c) PROVE NapInv'
  BY <1>5 DEF CopyStep, CopyEnds, runnerVars
<1>6. CASE Pass
  <2>1. held' \in [Copies -> Nat]
    BY <1>6 DEF Pass
  <2> QED
    BY <1>6, <2>1 DEF Pass
<1>7. CASE UNCHANGED allVars
  BY <1>7 DEF allVars, runnerVars
<1> QED
  BY <1>1, <1>2, <1>3, <1>4, <1>5, <1>6, <1>7 DEF RunnerNext, RunnerStep

(* Every variable has its type, and a wait of the runner ends within one   *)
(* poll interval of its timeout.                                           *)
THEOREM RunnerTypeCorrect == RunnerSpec => []RunnerTypeOK
<1>1. NapInv => RunnerTypeOK
  BY DEF NapInv
<1> QED
  BY <1>1, NapInvInit, NapInvStep, PTL DEF RunnerSpec

-----------------------------------------------------------------------------
(* The steps of a run as steps of NotifyLock.                              *)

LEMMA RunnerStepIs ==
    ASSUME [RunnerNext]_allVars
    PROVE  [Next]_vars \/ \E new \in Copies : Arrive(Duplicate, new)
<1>1. ASSUME PollClaim \/ PollResults \/ Assert \/ UNCHANGED allVars
      PROVE  UNCHANGED vars
  BY <1>1 DEF PollClaim, PollResults, Poll, Assert, allVars
<1>2. ASSUME FireDuplicate PROVE \E new \in Copies : Arrive(Duplicate, new)
  BY <1>2 DEF FireDuplicate, Arrive
<1>3. ASSUME NEW c \in Copies, CopyStep(c) \/ CopyEnds(c) PROVE Next
  BY <1>3 DEF CopyStep, CopyEnds, Next
<1>4. ASSUME Pass PROVE Next
  BY <1>4 DEF Pass, Next
<1> QED
  BY <1>1, <1>2, <1>3, <1>4 DEF RunnerNext, RunnerStep

-----------------------------------------------------------------------------
(* What a step of a copy does, where nothing is dead-lettered.             *)

Same(c) ==
    /\ copy'[c].task = copy[c].task
    /\ copy'[c].timer = copy[c].timer
    /\ \A e \in Copies \ {c} : copy'[e] = copy[e]

Moves(c, from, to) == copy[c].pc = from /\ copy'[c].pc = to /\ Same(c)

LEMMA Shapes ==
    ASSUME TypeOK, NEW c \in Copies
    PROVE  /\ Start(c) => Moves(c, "queued", "claim") /\ copy[c].timer = 0
           /\ Claim(c) => \/ Moves(c, "claim", "send") /\ key = "absent"
                             /\ key' = "not_sent"
                          \/ Moves(c, "claim", "get") /\ key # "absent"
                             /\ key' = key
           /\ Get(c) => \/ Moves(c, "get", "store") /\ key = "sent"
                           /\ copy'[c].out = "skipped"
                           /\ contended' = contended
                        \/ Moves(c, "get", "store") /\ key # "sent"
                           /\ copy'[c].out = "failed" /\ contended'
                        \/ Moves(c, "get", "retry") /\ key # "sent"
                           /\ contended'
           /\ SendEmail(c) => Moves(c, "send", "mark")
           /\ MarkSent(c) => /\ Moves(c, "mark", "store")
                             /\ copy'[c].out = "sent" /\ key' = "sent"
           /\ Store(c) => Moves(c, "store", "ack")
           /\ Ack(c) => /\ copy[c].pc = "ack" /\ copy'[c] = Free
                        /\ \A e \in Copies \ {c} : copy'[e] = copy[e]
<1>0. copy \in [Copies -> Copy]
  BY Facts
<1> USE DEF At, Go, End, Moves, Same, Copy
<1>1. Start(c) => Moves(c, "queued", "claim") /\ copy[c].timer = 0
  BY <1>0 DEF Start
<1>2. Claim(c) => \/ Moves(c, "claim", "send") /\ key = "absent"
                     /\ key' = "not_sent"
                  \/ Moves(c, "claim", "get") /\ key # "absent" /\ key' = key
  BY <1>0 DEF Claim
<1>3. Get(c) => \/ Moves(c, "get", "store") /\ key = "sent"
                   /\ copy'[c].out = "skipped" /\ contended' = contended
                \/ Moves(c, "get", "store") /\ key # "sent"
                   /\ copy'[c].out = "failed" /\ contended'
                \/ Moves(c, "get", "retry") /\ key # "sent" /\ contended'
  BY <1>0 DEF Get
<1>4. SendEmail(c) => Moves(c, "send", "mark")
  BY <1>0 DEF SendEmail
<1>5. MarkSent(c) => /\ Moves(c, "mark", "store")
                     /\ copy'[c].out = "sent" /\ key' = "sent"
  BY <1>0 DEF MarkSent
<1>6. Store(c) => Moves(c, "store", "ack")
  BY <1>0 DEF Store
<1>7. Ack(c) => /\ copy[c].pc = "ack" /\ copy'[c] = Free
                /\ \A e \in Copies \ {c} : copy'[e] = copy[e]
  BY <1>0 DEF Ack
<1> QED
  BY <1>1, <1>2, <1>3, <1>4, <1>5, <1>6, <1>7

(* A step of one copy leaves the others alone, but for the free one that a *)
(* retry takes.                                                            *)
LEMMA OthersStay ==
    ASSUME TypeOK, NEW c \in Copies, Progress(c) \/ Lose(c) \/ SoftLimit(c)
                                     \/ HardLimit(c),
           NEW e \in Copies \ {c}
    PROVE  \/ copy'[e] = copy[e]
           \/ copy[e].pc = "free" /\ copy'[e].pc = "queued"
<1>0. copy \in [Copies -> Copy]
  BY Facts
<1>1. ASSUME NEW new \in Copies, PublishRetry(c, new)
      PROVE  \/ copy'[e] = copy[e]
             \/ copy[e].pc = "free" /\ copy'[e].pc = "queued"
  <2>1. /\ copy[new].pc = "free" /\ copy'[new].pc = "queued"
        /\ \A x \in Copies \ {c, new} : copy'[x] = copy[x]
    BY <1>0, <1>1, PublishShape
  <2> QED
    BY <2>1
<1>2. CASE Lose(c)
  BY <1>0, <1>2, LoseShape
<1>3. CASE SoftLimit(c) \/ HardLimit(c) \/ Drop(c)
  BY <1>0, <1>3 DEF SoftLimit, HardLimit, Drop, End
<1>4. CASE Start(c) \/ Claim(c) \/ Get(c) \/ SendEmail(c) \/ MarkSent(c)
             \/ Store(c)
  BY <1>4, Shapes DEF Moves, Same
<1>5. CASE Ack(c)
  BY <1>5, Shapes
<1> QED
  BY <1>1, <1>2, <1>3, <1>4, <1>5 DEF Progress

LEMMA TickShape ==
    ASSUME TypeOK, Tick, NEW c \in Copies
    PROVE  /\ copy'[c].pc = copy[c].pc /\ copy'[c].task = copy[c].task
           /\ copy'[c].out = copy[c].out
           /\ copy[c].pc \in Running => copy'[c].timer = copy[c].timer + 1
           /\ copy[c].pc = "queued" /\ copy[c].timer = 0 => copy'[c].timer = 0
  BY Facts DEF Tick, Aged, Copy, Running, Body

-----------------------------------------------------------------------------
(* No copy is longer at a step than Pass has patience for, and none that   *)
(* is not due has waited.                                                  *)
Wait(c) == IF Due(c) THEN Patience(c) ELSE 0

HeldInv == held \in [Copies -> Nat] /\ \A c \in Copies : held[c] <= Wait(c)

LEMMA WaitType == \A c \in Copies : Wait(c) \in Nat /\ Patience(c) \in Nat
  BY DEF Wait, Patience

LEMMA HeldInvStep ==
    ASSUME TypeOK, HeldInv, [RunnerNext]_allVars
    PROVE  HeldInv'
<1> USE WaitType
<1>1. ASSUME UNCHANGED held,
             \A c \in Copies : \/ copy'[c] = copy[c]
                               \/ copy[c].pc = "free"
      PROVE  HeldInv'
  <2>1. ASSUME NEW c \in Copies PROVE held'[c] <= Wait(c)'
    <3>1. CASE copy'[c] = copy[c]
      BY <1>1, <3>1 DEF HeldInv, Wait, Due, Patience, At
    <3>2. CASE copy[c].pc = "free"
      <4>1. held[c] = 0
        BY <3>2 DEF HeldInv, Wait, Due, At, Running, Body
      <4> QED
        BY <1>1, <4>1 DEF Wait, Patience
    <3> QED
      BY <1>1, <3>1, <3>2
  <2> QED
    BY <1>1, <2>1 DEF HeldInv
<1>2. CASE PollClaim \/ PollResults \/ Assert \/ UNCHANGED allVars
  BY <1>1, <1>2 DEF PollClaim, PollResults, Poll, Assert, allVars, vars
<1>3. CASE FireDuplicate
  BY <1>1, <1>3, Facts DEF FireDuplicate, At
<1>4. ASSUME NEW c \in Copies, CopyStep(c) \/ CopyEnds(c) PROVE HeldInv'
  <2>1. held' = [held EXCEPT ![c] = 0]
    BY <1>4 DEF CopyStep, CopyEnds
  <2>2. ASSUME NEW e \in Copies PROVE held'[e] <= Wait(e)'
    <3>1. CASE e = c
      BY <2>1, <3>1 DEF HeldInv, Wait, Patience
    <3>2. CASE e # c /\ copy'[e] = copy[e]
      BY <2>1, <3>2 DEF HeldInv, Wait, Due, Patience, At
    <3>3. CASE e # c /\ copy[e].pc = "free"
      <4>1. held'[e] = 0
        BY <2>1, <3>3 DEF HeldInv, Wait, Due, At, Running, Body
      <4> QED
        BY <4>1 DEF Wait, Patience
    <3> QED
      BY <1>4, <3>1, <3>2, <3>3, OthersStay DEF CopyStep, CopyEnds
  <2> QED
    BY <2>1, <2>2 DEF HeldInv
<1>5. CASE Pass
  <2>1. held' = [c \in Copies |-> IF Due(c) THEN held[c] + 1 ELSE 0]
    BY <1>5 DEF Pass
  <2>2. ASSUME NEW c \in Copies PROVE held'[c] <= Wait(c)'
    <3>1. CASE Due(c)
      <4>1. held[c] \in Nat /\ held[c] < Patience(c)
        BY <1>5, <3>1 DEF Pass, HeldInv
      <4>2. Due(c)' /\ Patience(c)' = Patience(c)
        BY <1>5, <3>1, TickShape DEF Pass, Due, Patience, At
      <4> QED
        BY <2>1, <3>1, <4>1, <4>2 DEF Wait
    <3>2. CASE ~Due(c)
      BY <2>1, <3>2 DEF Wait, Patience
    <3> QED
      BY <3>1, <3>2
  <2> QED
    BY <2>1, <2>2 DEF HeldInv
<1> QED
  BY <1>2, <1>3, <1>4, <1>5 DEF RunnerNext, RunnerStep

-----------------------------------------------------------------------------
(* The steps of a notify that is not cut short, in an undisturbed run.     *)

Keeps == UNCHANGED <<key, result, contended>>

Starts(c) == Moves(c, "queued", "claim") /\ copy[c].timer = 0 /\ Keeps

Claims(c) == /\ Moves(c, "claim", "send")
             /\ key = "absent" /\ key' = "not_sent"
             /\ UNCHANGED <<result, contended>>

Meets(c) == Moves(c, "claim", "get") /\ key # "absent" /\ Keeps

Skips(c) == /\ Moves(c, "get", "store") /\ copy'[c].out = "skipped"
            /\ key = "sent" /\ Keeps

Contends(c) == /\ Moves(c, "get", "retry")
               /\ key # "sent" /\ contended' /\ UNCHANGED <<key, result>>

Sends(c) == Moves(c, "send", "mark") /\ held[c] >= SendTime /\ Keeps

Marks(c) == /\ Moves(c, "mark", "store") /\ copy'[c].out = "sent"
            /\ key' = "sent" /\ UNCHANGED <<result, contended>>

Retries(c) == \E new \in Copies :
                /\ copy[c].pc = "retry" /\ copy'[c].pc = "ack"
                /\ copy[new].pc = "free" /\ copy'[new].pc = "queued"
                /\ copy'[new].task = copy[c].task
                /\ \A e \in Copies \ {c, new} : copy'[e] = copy[e]
                /\ Keeps

Stores(c) == /\ Moves(c, "store", "ack")
             /\ result' = [result EXCEPT ![copy[c].task] =
                              IF @ \in {"none", "timed_out"}
                              THEN copy[c].out ELSE @]
             /\ UNCHANGED <<key, contended>>

Acks(c) == /\ copy[c].pc = "ack" /\ copy'[c].pc = "free"
           /\ \A e \in Copies \ {c} : copy'[e] = copy[e]
           /\ Keeps

CalmMove(c) ==
    \/ Starts(c) \/ Claims(c) \/ Meets(c) \/ Skips(c) \/ Contends(c)
    \/ Sends(c) \/ Marks(c) \/ Retries(c) \/ Stores(c) \/ Acks(c)

LEMMA CalmMoves ==
    ASSUME TypeOK, SkipInv, SkipInv', Calm', NEW c \in Copies,
           CopyStep(c) \/ CopyEnds(c)
    PROVE  /\ CalmMove(c)
           /\ held' = [held EXCEPT ![c] = 0]
           /\ UNCHANGED runnerVars
<1>0. /\ copy \in [Copies -> Copy]
      /\ losses \in Nat /\ limits \in Nat
  BY Facts DEF TypeOK
<1>1. ~Lose(c) /\ ~SoftLimit(c) /\ ~HardLimit(c) /\ ~Drop(c)
  BY <1>0 DEF Lose, SoftLimit, HardLimit, Calm, Drop, SkipInv, NoFailure
<1>2. /\ Progress(c) /\ held' = [held EXCEPT ![c] = 0]
      /\ UNCHANGED runnerVars
      /\ At(c, "send") => held[c] >= SendTime
  BY <1>1 DEF CopyStep, CopyEnds
<1>3. ASSUME Start(c) PROVE CalmMove(c)
  BY <1>3, Shapes DEF Starts, CalmMove, Keeps, Start
<1>4. ASSUME Claim(c) PROVE CalmMove(c)
  <2>1. UNCHANGED <<result, contended>>
    BY <1>4 DEF Claim
  <2> QED
    BY <1>4, <2>1, Shapes DEF Claims, Meets, CalmMove, Keeps
<1>5. ASSUME Get(c) PROVE CalmMove(c)
  <2>1. UNCHANGED <<key, result>>
    BY <1>5 DEF Get
  <2>2. ~(At(c, "store")' /\ copy'[c].out = "failed")
    BY DEF SkipInv, NoFailure
  <2> QED
    BY <1>5, <2>1, <2>2, Shapes
       DEF Skips, Contends, CalmMove, Keeps, Moves, At
<1>6. ASSUME SendEmail(c) PROVE CalmMove(c)
  BY <1>2, <1>6, Shapes DEF Sends, CalmMove, Keeps, SendEmail
<1>7. ASSUME MarkSent(c) PROVE CalmMove(c)
  BY <1>7, Shapes DEF Marks, CalmMove, MarkSent
<1>8. ASSUME NEW new \in Copies, PublishRetry(c, new) PROVE Retries(c)
  <2>1. Keeps
    BY <1>8 DEF PublishRetry, Keeps
  <2>2. /\ copy[c].pc = "retry" /\ copy'[c].pc = "ack"
        /\ copy[new].pc = "free" /\ copy'[new].pc = "queued"
        /\ copy'[new] = NewCopy(copy[c].task, copy[c].retries + 1, RetryDelay)
        /\ \A e \in Copies \ {c, new} : copy'[e] = copy[e]
    BY <1>0, <1>8, PublishShape
  <2>3. copy'[new].task = copy[c].task
    BY <2>2 DEF NewCopy
  <2> QED
    BY <2>1, <2>2, <2>3 DEF Retries
<1>9. ASSUME Store(c) PROVE CalmMove(c)
  BY <1>9, Shapes DEF Stores, CalmMove, Store, Record
<1>10. ASSUME Ack(c) PROVE CalmMove(c)
  <2>1. /\ copy[c].pc = "ack" /\ copy'[c] = Free
        /\ \A e \in Copies \ {c} : copy'[e] = copy[e]
    BY <1>10, Shapes
  <2>2. Free.pc = "free"
    BY DEF Free
  <2>3. Keeps
    BY <1>10 DEF Ack, Keeps
  <2> QED
    BY <2>1, <2>2, <2>3 DEF Acks, CalmMove
<1> QED
  <2>1. \/ Start(c) \/ Claim(c) \/ Get(c) \/ SendEmail(c) \/ MarkSent(c)
        \/ Store(c) \/ Ack(c) \/ \E new \in Copies : PublishRetry(c, new)
    BY <1>1, <1>2 DEF Progress
  <2>2. Retries(c) => CalmMove(c)
    BY DEF CalmMove
  <2>3. CalmMove(c)
    BY <1>3, <1>4, <1>5, <1>6, <1>7, <1>8, <1>9, <1>10, <2>1, <2>2
  <2> QED
    BY <1>2, <2>3

LEMMA MoveOthers ==
    ASSUME NEW c \in Copies, CalmMove(c), NEW e \in Copies \ {c}
    PROVE  \/ copy'[e] = copy[e]
           \/ copy[e].pc = "free" /\ copy'[e].pc = "queued"
<1>1. CASE Retries(c)
  BY <1>1 DEF Retries
<1>2. CASE ~Retries(c)
  BY <1>2 DEF CalmMove, Starts, Claims, Meets, Skips, Contends, Sends, Marks,
     Stores, Acks, Moves, Same
<1> QED
  BY <1>1, <1>2

LEMMA HeldBound ==
    ASSUME HeldInv, NEW c \in Copies
    PROVE  /\ held[c] \in Nat
           /\ copy[c].pc \in Running /\ copy[c].pc # "send" => held[c] <= Lag
           /\ copy[c].pc = "send" => held[c] <= SendTime + Lag
           /\ copy[c].pc = "queued" => held[c] <= Lag
           /\ copy[c].pc = "free" => held[c] = 0
  BY DEF HeldInv, Wait, Due, Patience, At, Running, Body

(* The duplicate joins: what FireDuplicate does to the copies.             *)
LEMMA FireShape ==
    ASSUME TypeOK, FireDuplicate
    PROVE  \E new \in Copies :
             /\ copy[new].pc = "free" /\ copy'[new] = NewCopy(Duplicate, 0, 0)
             /\ copy'[new].pc = "queued" /\ copy'[new].task = Duplicate
             /\ copy'[new].timer = 0
             /\ \A e \in Copies \ {new} : copy'[e] = copy[e]
<1>1. PICK new \in Copies :
        /\ At(new, "free")
        /\ copy' = [copy EXCEPT ![new] = NewCopy(Duplicate, 0, 0)]
  BY DEF FireDuplicate
<1>2. copy[new].pc = "free" /\ copy'[new] = NewCopy(Duplicate, 0, 0)
      /\ \A e \in Copies \ {new} : copy'[e] = copy[e]
  BY <1>1, Facts DEF At
<1>3. /\ NewCopy(Duplicate, 0, 0).pc = "queued"
      /\ NewCopy(Duplicate, 0, 0).task = Duplicate
      /\ NewCopy(Duplicate, 0, 0).timer = 0
  BY DEF NewCopy
<1> QED
  BY <1>2, <1>3

-----------------------------------------------------------------------------
(* How old a notify may be at a step, beside the time it spent there: a    *)
(* holder is done SendTime and three lags after it began, sooner than a    *)
(* duplicate is through with its retries.                                  *)
Age(c) == CASE At(c, "send") -> Lag
            [] At(c, "mark") -> SendTime + 2 * Lag
            [] OTHER -> 0

AgeInv ==
    \A c \in Copies : copy[c].pc \in {"claim", "send", "mark"} =>
                         copy[c].timer <= Age(c) + held[c]

(* What an e-mail takes, and how often a duplicate tries, are enough.      *)
Good ==
    /\ Interval + 3 * Lag < SendTime
    /\ SendTime + 3 * Lag < MaxRetries * RetryDelay
    /\ RunTime < TTL

LEMMA HoldersInTime ==
    ASSUME Good, TypeOK, HeldInv, AgeInv
    PROVE  InTime
<1>1. MaxRetries * RetryDelay \in Nat
  BY Multiples
<1> SUFFICES ASSUME NEW h \in Copies, Holding(h)
             PROVE  copy[h].timer < MaxRetries * RetryDelay
  BY DEF InTime
<1>2. copy[h].timer \in Nat /\ copy[h].timer <= SendTime + 3 * Lag
  <2>1. CASE copy[h].pc = "send"
    BY <2>1, HeldBound, Facts DEF AgeInv, Age, At
  <2>2. CASE copy[h].pc = "mark"
    BY <2>2, HeldBound, Facts DEF AgeInv, Age, At, Running, Body
  <2> QED
    BY <2>1, <2>2 DEF Holding
<1> QED
  BY <1>1, <1>2 DEF Good

LEMMA AgeInvMove ==
    ASSUME TypeOK, HeldInv, AgeInv, NEW c \in Copies, CalmMove(c),
           held' = [held EXCEPT ![c] = 0]
    PROVE  AgeInv'
<1>1. /\ copy[c].timer \in Nat /\ held[c] \in Nat /\ held'[c] = 0
      /\ \A e \in Copies \ {c} : held'[e] = held[e]
  BY Facts DEF HeldInv
<1>2. ASSUME NEW e \in Copies \ {c},
             copy'[e].pc \in {"claim", "send", "mark"}
      PROVE  copy'[e].timer <= Age(e)' + held'[e]
  BY <1>1, <1>2, MoveOthers DEF AgeInv, Age, At
<1>3. ASSUME copy'[c].pc \in {"claim", "send", "mark"}
      PROVE  copy'[c].timer <= Age(c)' + held'[c]
  <2>1. Starts(c) \/ Claims(c) \/ Sends(c)
    BY <1>3 DEF CalmMove, Meets, Skips, Contends, Marks, Retries, Stores, Acks,
       Moves
  <2>2. CASE Starts(c)
    BY <1>1, <2>2 DEF Starts, Moves, Same, Age, At
  <2>3. CASE Claims(c)
    <3>1. copy[c].timer <= Lag
      BY <1>1, <2>3, HeldBound DEF Claims, Moves, AgeInv, Age, At, Running, Body
    <3> QED
      BY <1>1, <2>3, <3>1 DEF Claims, Moves, Same, Age, At
  <2>4. CASE Sends(c)
    <3>1. copy[c].timer <= SendTime + 2 * Lag
      BY <1>1, <2>4, HeldBound DEF Sends, Moves, AgeInv, Age, At
    <3> QED
      BY <1>1, <2>4, <3>1 DEF Sends, Moves, Same, Age, At
  <2> QED
    BY <2>1, <2>2, <2>3, <2>4
<1> QED
  BY <1>2, <1>3 DEF AgeInv

LEMMA AgeInvPass ==
    ASSUME TypeOK, HeldInv, AgeInv, Pass
    PROVE  AgeInv'
<1> SUFFICES ASSUME NEW c \in Copies,
                    copy'[c].pc \in {"claim", "send", "mark"}
             PROVE  copy'[c].timer <= Age(c)' + held'[c]
  BY DEF AgeInv
<1>1. /\ copy'[c].pc = copy[c].pc /\ copy[c].pc \in Running
      /\ copy'[c].timer = copy[c].timer + 1
  BY TickShape DEF Pass, Running, Body
<1>2. held'[c] = held[c] + 1
  BY <1>1 DEF Pass, Due
<1>3. Age(c)' = Age(c) /\ Age(c) \in Nat
  BY <1>1 DEF Age, At
<1>4. copy[c].timer <= Age(c) + held[c]
  BY <1>1 DEF AgeInv
<1> QED
  BY <1>1, <1>2, <1>3, <1>4, HeldBound, Facts

LEMMA AgeInvFire ==
    ASSUME TypeOK, AgeInv, FireDuplicate
    PROVE  AgeInv'
  BY FireShape DEF FireDuplicate, AgeInv, Age, At

-----------------------------------------------------------------------------
(* Of each notify one copy at most has not given its result, and before it *)
(* has, there is none.                                                     *)
Live(c) == copy[c].pc \notin {"free", "ack"}

LiveInv ==
    /\ \A c, e \in Copies :
         Live(c) /\ Live(e) /\ copy[c].task = copy[e].task => c = e
    /\ \A c \in Copies : Live(c) => result[copy[c].task] = "none"

(* Before the runner fires it, nothing is there of the duplicate.          *)
NotFired ==
    runner \in {"wait_claim", "fire"} =>
        /\ result[Duplicate] = "none"
        /\ \A c \in Copies : Live(c) => copy[c].task # Duplicate

LEMMA LiveMove ==
    ASSUME TypeOK, LiveInv, NEW c \in Copies, CalmMove(c)
    PROVE  /\ LiveInv'
           /\ \A e \in Copies : Live(e)' =>
                \E d \in Copies : Live(d) /\ copy'[e].task = copy[d].task
           /\ \A t \in Tasks : \/ result'[t] = result[t]
                               \/ \E d \in Copies : Live(d) /\ t = copy[d].task
<1>1. CASE Retries(c)
  <2>1. PICK new \in Copies :
          /\ copy[c].pc = "retry" /\ copy'[c].pc = "ack"
          /\ copy[new].pc = "free" /\ copy'[new].pc = "queued"
          /\ copy'[new].task = copy[c].task
          /\ \A e \in Copies \ {c, new} : copy'[e] = copy[e]
    BY <1>1 DEF Retries
  <2>2. result' = result
    BY <1>1 DEF Retries, Keeps
  <2>3. Live(c) /\ ~Live(c)'
    BY <2>1 DEF Live
  <2>4. \A e \in Copies : Live(e)' =>
          \/ e = new
          \/ e # new /\ e # c /\ Live(e) /\ copy'[e] = copy[e]
    BY <2>1, <2>3 DEF Live
  <2>5. LiveInv'
    BY <2>1, <2>2, <2>3, <2>4 DEF LiveInv
  <2> QED
    BY <2>1, <2>2, <2>3, <2>4, <2>5
<1>2. CASE ~Retries(c)
  <2>1. ASSUME NEW e \in Copies, Live(e)'
        PROVE  /\ Live(e) /\ copy'[e].task = copy[e].task
               /\ e = c => ~Stores(c)
    BY <1>2, <2>1 DEF CalmMove, Starts, Claims, Meets, Skips, Contends, Sends,
       Marks, Stores, Acks, Moves, Same, Live
  <2>2. CASE Stores(c)
    <3>1. Live(c) /\ copy[c].task \in Tasks
      BY <2>2, Facts DEF Stores, Moves, Live
    <3>2. \A t \in Tasks \ {copy[c].task} : result'[t] = result[t]
      BY <2>2, Facts DEF Stores
    <3>3. \A e \in Copies : Live(e)' => e # c
      BY <2>1, <2>2
    <3>4. \A e \in Copies : Live(e)' => copy[e].task # copy[c].task
      BY <2>1, <3>1, <3>3 DEF LiveInv
    <3>5. \A e \in Copies : Live(e)' => copy[e].task \in Tasks
      BY <2>1, Facts DEF Live
    <3>6. LiveInv'
      BY <2>1, <3>2, <3>4, <3>5 DEF LiveInv
    <3> QED
      BY <2>1, <3>1, <3>2, <3>6
  <2>3. CASE ~Stores(c)
    <3>1. result' = result
      BY <1>2, <2>3 DEF CalmMove, Starts, Claims, Meets, Skips, Contends,
         Sends, Marks, Acks, Keeps
    <3>2. LiveInv'
      BY <2>1, <3>1 DEF LiveInv
    <3> QED
      BY <2>1, <3>1, <3>2
  <2> QED
    BY <2>2, <2>3
<1> QED
  BY <1>1, <1>2

LEMMA LivePass ==
    ASSUME TypeOK, LiveInv, NotFired, Pass
    PROVE  LiveInv' /\ NotFired'
<1>1. \A c \in Copies : /\ copy'[c].task = copy[c].task
                        /\ Live(c)' <=> Live(c)
  BY TickShape DEF Pass, Live
<1>2. result' = result /\ runner' = runner
  BY DEF Pass, Tick
<1> QED
  BY <1>1, <1>2 DEF LiveInv, NotFired

LEMMA LiveFire ==
    ASSUME TypeOK, LiveInv, NotFired, FireDuplicate
    PROVE  LiveInv' /\ NotFired'
<1>1. PICK new \in Copies :
        /\ copy'[new].pc = "queued" /\ copy'[new].task = Duplicate
        /\ \A e \in Copies \ {new} : copy'[e] = copy[e]
  BY FireShape
<1>2. /\ runner = "fire" /\ runner' = "wait_results" /\ result' = result
  BY DEF FireDuplicate
<1>3. /\ result[Duplicate] = "none"
      /\ \A c \in Copies : Live(c) => copy[c].task # Duplicate
  BY <1>2 DEF NotFired
<1>4. \A e \in Copies : Live(e)' => \/ e = new
                                    \/ e # new /\ Live(e) /\ copy'[e] = copy[e]
  BY <1>1 DEF Live
<1> QED
  BY <1>1, <1>2, <1>3, <1>4 DEF LiveInv, NotFired

-----------------------------------------------------------------------------
(* Who does what, while the runner is undecided: the chord's own notify    *)
(* claims and sends, before there is a duplicate, which can but skip.      *)
Undecided == runner \notin Verdict

Claimed == Undecided /\ runner # "wait_claim" => key # "absent"

Sender ==
    /\ \A c \in Copies :
         /\ Holding(c) \/ Says(c, "sent") => copy[c].task = ChordNotify
         /\ Says(c, "skipped") => copy[c].task = Duplicate
    /\ key = "sent" => \/ result[ChordNotify] = "sent"
                       \/ \E c \in Copies : Says(c, "sent")
    /\ result[Duplicate] # "sent" /\ result[ChordNotify] # "skipped"

LEMMA SenderMove ==
    ASSUME TypeOK, SkipInv, LiveInv, NotFired, Claimed, Undecided, Sender,
           NEW c \in Copies, CalmMove(c)
    PROVE  Sender'
<1>1. ASSUME UNCHANGED <<key, result>>,
             \A e \in Copies :
               /\ Holding(e)' => Holding(e)
               /\ \A out \in {"sent", "skipped"} : Says(e, out)' <=> Says(e, out)
               /\ Holding(e)' \/ At(e, "store")' => copy'[e].task = copy[e].task
      PROVE  Sender'
  BY <1>1 DEF Sender, Says
<1>2. CASE Starts(c) \/ Meets(c) \/ Contends(c) \/ Sends(c) \/ Acks(c)
  BY <1>1, <1>2 DEF Starts, Meets, Contends, Sends, Acks, Moves, Same, Keeps,
     Holding, Says, At
<1>3. CASE Retries(c)
  BY <1>1, <1>3 DEF Retries, Keeps, Holding, Says, At
<1>4. CASE Claims(c)
  <2>1. runner = "wait_claim"
    BY <1>4 DEF Claims, Claimed
  <2>2. copy[c].task = ChordNotify
    BY <1>4, <2>1, Facts DEF Claims, Moves, NotFired, Live
  <2>3. /\ key' = "not_sent" /\ result' = result /\ copy'[c].pc = "send"
        /\ copy'[c].task = copy[c].task
        /\ \A e \in Copies \ {c} : copy'[e] = copy[e]
    BY <1>4 DEF Claims, Moves, Same
  <2> QED
    BY <2>2, <2>3 DEF Sender, Holding, Says, At
<1>5. CASE Skips(c)
  <2>1. /\ key = "sent" /\ key' = key /\ result' = result
        /\ copy[c].pc = "get"
        /\ copy'[c].pc = "store" /\ copy'[c].out = "skipped"
        /\ copy'[c].task = copy[c].task
        /\ \A e \in Copies \ {c} : copy'[e] = copy[e]
    BY <1>5 DEF Skips, Moves, Same, Keeps
  <2>2. copy[c].task # ChordNotify
    <3> SUFFICES ASSUME copy[c].task = ChordNotify PROVE FALSE
      OBVIOUS
    <3>1. Live(c) /\ result[ChordNotify] = "none"
      BY <2>1 DEF Live, LiveInv
    <3>2. PICK e \in Copies : Says(e, "sent")
      BY <2>1, <3>1 DEF Sender
    <3>3. Live(e) /\ copy[e].task = ChordNotify
      BY <3>2 DEF Sender, Says, At, Live
    <3>4. e = c
      BY <3>1, <3>3 DEF LiveInv
    <3> QED
      BY <2>1, <3>2, <3>4 DEF Says, At
  <2>3. copy[c].task = Duplicate
    BY <2>1, <2>2, Facts
  <2>4. \A e \in Copies : Says(e, "sent") => e # c /\ Says(e, "sent")'
    BY <2>1 DEF Says, At
  <2> QED
    BY <2>1, <2>3, <2>4 DEF Sender, Holding, Says, At
<1>6. CASE Marks(c)
  <2>1. /\ key' = "sent" /\ result' = result
        /\ copy[c].pc = "mark"
        /\ copy'[c].pc = "store" /\ copy'[c].out = "sent"
        /\ copy'[c].task = copy[c].task
        /\ \A e \in Copies \ {c} : copy'[e] = copy[e]
    BY <1>6 DEF Marks, Moves, Same
  <2>2. copy[c].task = ChordNotify
    BY <2>1 DEF Sender, Holding
  <2>3. Says(c, "sent")'
    BY <2>1 DEF Says, At
  <2> QED
    BY <2>1, <2>2, <2>3 DEF Sender, Holding, Says, At
<1>7. CASE Stores(c)
  <2>1. /\ key' = key /\ copy[c].pc = "store" /\ copy'[c].pc = "ack"
        /\ \A e \in Copies \ {c} : copy'[e] = copy[e]
        /\ result' = [result EXCEPT ![copy[c].task] =
                         IF @ \in {"none", "timed_out"}
                         THEN copy[c].out ELSE @]
    BY <1>7 DEF Stores, Moves, Same
  <2>2. /\ copy[c].task \in Tasks
        /\ result[copy[c].task] = "none"
    BY <2>1, Facts DEF LiveInv, Live
  <2>3. /\ result'[copy[c].task] = copy[c].out
        /\ \A t \in Tasks \ {copy[c].task} : result'[t] = result[t]
    BY <2>1, <2>2, Facts
  <2>4. \/ Says(c, "sent") /\ copy[c].task = ChordNotify
        \/ Says(c, "skipped") /\ copy[c].task = Duplicate
    BY <2>1 DEF SkipInv, NoFailure, Says, At, Sender
  <2>5. result'[Duplicate] # "sent" /\ result'[ChordNotify] # "skipped"
    BY <2>3, <2>4 DEF Sender, Says
  <2>6. \A e \in Copies : Holding(e)' => Holding(e) /\ copy'[e] = copy[e]
    BY <2>1 DEF Holding
  <2>7. \A e \in Copies, out \in {"sent", "skipped"} :
          Says(e, out)' => Says(e, out) /\ copy'[e] = copy[e]
    BY <2>1 DEF Says, At
  <2>8. ASSUME key' = "sent"
        PROVE  \/ result'[ChordNotify] = "sent"
               \/ \E e \in Copies : Says(e, "sent")'
    <3>1. CASE Says(c, "sent")
      BY <2>3, <2>4, <3>1 DEF Says
    <3>2. CASE ~Says(c, "sent")
      <4>1. copy[c].task # ChordNotify
        BY <2>4, <3>2
      <4>2. CASE result[ChordNotify] = "sent"
        BY <2>3, <4>1, <4>2
      <4>3. ASSUME NEW e \in Copies, Says(e, "sent") PROVE Says(e, "sent")'
        BY <2>1, <3>2, <4>3 DEF Says, At
      <4> QED
        BY <2>1, <2>8, <4>2, <4>3 DEF Sender
    <3> QED
      BY <3>1, <3>2
  <2> QED
    BY <2>5, <2>6, <2>7, <2>8 DEF Sender
<1> QED
  BY <1>2, <1>3, <1>4, <1>5, <1>6, <1>7 DEF CalmMove

-----------------------------------------------------------------------------
(* Why the duplicate meets the lock held.  The claim is noticed Interval   *)
(* ticks after it was made, at the latest, and the duplicate is at its GET *)
(* two lags later and through with it in one more, all while the e-mail is *)
(* being sent.                                                             *)
Late(c) == CASE At(c, "claim") -> Lag
             [] At(c, "get") -> 2 * Lag
             [] OTHER -> 0

Comes(c, h) ==
    /\ copy[c].task = Duplicate
    /\ copy[c].pc \in {"queued", "claim", "get"}
    /\ copy[c].pc = "queued" => copy[c].timer = 0
    /\ held[h] <= Interval + Late(c) + held[c]

SendingStill(h) ==
    /\ At(h, "send")
    /\ runner \in {"wait_claim", "fire"} => held[h] + nap <= Interval
    /\ runner = "wait_results" => \E c \in Copies : Comes(c, h)

OnTime ==
    Undecided /\ ~contended =>
        /\ runner # "assert" /\ key # "sent"
        /\ \A h \in Copies : Holding(h) => SendingStill(h)

Places == Undecided => runner \in {"wait_claim", "fire", "wait_results", "assert"}

LEMMA PlacesHold == NapInv => Places
  BY DEF NapInv, RunnerTypeOK, Places, Undecided, Waiting, Verdict

LEMMA NotYetSent ==
    ASSUME Good, TypeOK, HeldInv, NapInv, OnTime, Undecided, ~contended,
           NEW h \in Copies, Holding(h)
    PROVE  At(h, "send") /\ held[h] < SendTime
<1>1. SendingStill(h) /\ runner # "assert"
  BY DEF OnTime
<1>2. held[h] \in Nat /\ nap \in Nat
  BY DEF HeldInv, NapInv, RunnerTypeOK
<1>3. CASE runner \in {"wait_claim", "fire"}
  BY <1>1, <1>2, <1>3 DEF SendingStill, Good
<1>4. CASE runner = "wait_results"
  <2>1. PICK c \in Copies : Comes(c, h)
    BY <1>1, <1>4 DEF SendingStill
  <2>2. held[c] \in Nat /\ held[c] <= Lag
    BY <2>1, HeldBound DEF Comes, Running, Body
  <2>3. Late(c) \in Nat /\ Late(c) <= 2 * Lag
    BY DEF Late
  <2> QED
    BY <1>1, <1>2, <2>1, <2>2, <2>3 DEF SendingStill, Comes, Good
<1> QED
  BY <1>1, <1>3, <1>4, PlacesHold DEF Places

LEMMA OnTimeMove ==
    ASSUME Good, TypeOK, SkipInv, HeldInv, NapInv, Claimed, OnTime,
           NEW c \in Copies, CalmMove(c),
           held' = [held EXCEPT ![c] = 0], UNCHANGED runnerVars
    PROVE  OnTime'
<1> SUFFICES ASSUME Undecided, ~contended'
             PROVE  /\ runner # "assert" /\ key' # "sent"
                    /\ \A h \in Copies : Holding(h)' => SendingStill(h)'
  BY DEF OnTime, Undecided, runnerVars
<1>1. ~Contends(c) /\ ~contended
  <2>1. ~Contends(c)
    BY DEF Contends
  <2> QED
    BY <2>1 DEF CalmMove, Starts, Claims, Meets, Skips, Sends, Marks, Retries,
       Stores, Acks, Keeps
<1>2. /\ runner # "assert" /\ key # "sent"
      /\ \A h \in Copies : Holding(h) => SendingStill(h)
  BY <1>1 DEF OnTime
<1>3. ~Sends(c)
  <2> SUFFICES ASSUME Sends(c) PROVE FALSE
    OBVIOUS
  <2>1. Holding(c) /\ held[c] >= SendTime
    BY DEF Sends, Moves, Holding
  <2>2. held[c] \in Nat
    BY DEF HeldInv
  <2> QED
    BY <1>1, <2>1, <2>2, NotYetSent
<1>4. ~Marks(c) /\ ~Skips(c)
  BY <1>2 DEF Marks, Moves, Holding, SendingStill, At, Skips
<1>5. key' # "sent"
  BY <1>1, <1>2, <1>3, <1>4 DEF CalmMove, Starts, Claims, Meets, Retries,
     Stores, Acks, Keeps
<1>6. held[c] \in Nat /\ held'[c] = 0 /\ nap \in 0..Interval
      /\ \A e \in Copies \ {c} : held'[e] = held[e]
  BY DEF HeldInv, NapInv, RunnerTypeOK
<1>7. ASSUME NEW h \in Copies, Holding(h)' PROVE SendingStill(h)'
  <2>1. CASE Claims(c)
    <3>1. runner = "wait_claim" /\ runner' = runner /\ nap' = nap
      BY <2>1 DEF Claims, Claimed, runnerVars
    <3>2. /\ copy'[c].pc = "send"
          /\ \A e \in Copies \ {c} : copy'[e] = copy[e]
      BY <2>1 DEF Claims, Moves, Same
    <3>3. \A e \in Copies : ~Holding(e)
      BY <2>1 DEF Claims, SkipInv, Untried, Holding
    <3>4. h = c
      BY <1>7, <3>2, <3>3 DEF Holding
    <3> QED
      BY <1>6, <3>1, <3>2, <3>4 DEF SendingStill, At
  <2>2. CASE ~Claims(c)
    <3>1. Holding(h) /\ h # c /\ copy'[h] = copy[h]
      <4>1. h # c
        BY <1>1, <1>3, <1>4, <1>7, <2>2 DEF CalmMove, Starts, Meets, Retries,
           Stores, Acks, Moves, Holding
      <4> QED
        BY <1>7, <4>1, MoveOthers DEF Holding
    <3>2. SendingStill(h)
      BY <1>2, <3>1
    <3>3. ASSUME NEW d \in Copies, Comes(d, h) PROVE Comes(d, h)'
      <4>1. CASE d # c
        BY <1>6, <3>1, <3>3, <4>1, MoveOthers DEF Comes, Late, At
      <4>2. CASE d = c
        <5>1. Starts(c) \/ Meets(c)
          BY <1>1, <1>3, <1>4, <2>2, <3>3, <4>2 DEF CalmMove, Retries, Stores,
             Acks, Moves, Comes
        <5>2. held[c] <= Lag /\ held[h] \in Nat
          BY <3>3, <4>2, HeldBound DEF Comes, Running, Body
        <5>3. CASE Starts(c)
          BY <1>6, <3>1, <3>3, <4>2, <5>2, <5>3
             DEF Starts, Moves, Same, Comes, Late, At
        <5>4. CASE Meets(c)
          BY <1>6, <3>1, <3>3, <4>2, <5>2, <5>4
             DEF Meets, Moves, Same, Comes, Late, At
        <5> QED
          BY <5>1, <5>3, <5>4
      <4> QED
        BY <4>1, <4>2
    <3>4. runner' = runner /\ nap' = nap /\ held'[h] = held[h]
      BY <1>6, <3>1 DEF runnerVars
    <3> QED
      BY <3>1, <3>2, <3>3, <3>4 DEF SendingStill, At
  <2> QED
    BY <2>1, <2>2
<1> QED
  BY <1>2, <1>5, <1>7

LEMMA OnTimePass ==
    ASSUME RunTime < TTL, TypeOK, ClaimInv, SkipInv, HeldInv, NapInv, OnTime,
           Pass
    PROVE  OnTime'
<1>0. UNCHANGED <<runner, contended>>
  BY DEF Pass, Tick
<1> SUFFICES ASSUME Undecided, ~contended
             PROVE  /\ runner # "assert" /\ key' # "sent"
                    /\ \A h \in Copies : Holding(h)' => SendingStill(h)'
  BY <1>0 DEF OnTime, Undecided
<1>1. /\ runner # "assert" /\ key # "sent"
      /\ \A h \in Copies : Holding(h) => SendingStill(h)
  BY DEF OnTime
<1>2. key' = key
  BY ClaimStays DEF Pass
<1>3. /\ runner \in {"wait_claim", "wait_results"}
      /\ nap \in Nat /\ nap > 0 /\ nap' = nap - 1
  BY DEF Pass, Waiting, Undecided, NapInv, RunnerTypeOK
<1>4. \A e \in Copies :
        Due(e) => held[e] \in Nat /\ held'[e] = held[e] + 1
  BY DEF Pass, HeldInv
<1>5. ASSUME NEW h \in Copies, Holding(h)' PROVE SendingStill(h)'
  <2>1. Holding(h) /\ copy'[h].pc = copy[h].pc
    BY <1>5, TickShape DEF Pass, Holding
  <2>2. SendingStill(h) /\ held[h] \in Nat /\ held'[h] = held[h] + 1
    BY <1>1, <1>4, <2>1 DEF Holding, Due, Running, Body
  <2>3. ASSUME NEW d \in Copies, Comes(d, h) PROVE Comes(d, h)'
    <3>1. /\ copy'[d].pc = copy[d].pc /\ copy'[d].task = copy[d].task
          /\ copy[d].pc = "queued" => copy'[d].timer = 0
      BY <2>3, TickShape DEF Pass, Comes
    <3>2. held[d] \in Nat /\ held'[d] = held[d] + 1
      BY <1>4, <2>3 DEF Comes, Due, At, Running, Body
    <3>3. Late(d)' = Late(d) /\ Late(d) \in Nat
      BY <3>1 DEF Late, At
    <3> QED
      BY <2>2, <2>3, <3>1, <3>2, <3>3 DEF Comes
  <2> QED
    BY <1>0, <1>3, <2>1, <2>2, <2>3 DEF SendingStill, At
<1> QED
  BY <1>1, <1>2, <1>5

LEMMA OnTimeFire ==
    ASSUME TypeOK, HeldInv, NapInv, OnTime, FireDuplicate
    PROVE  OnTime'
<1>1. PICK new \in Copies :
        /\ copy[new].pc = "free" /\ copy'[new].pc = "queued"
        /\ copy'[new].task = Duplicate /\ copy'[new].timer = 0
        /\ \A e \in Copies \ {new} : copy'[e] = copy[e]
  BY FireShape
<1>2. /\ runner = "fire" /\ runner' = "wait_results"
      /\ UNCHANGED <<key, contended, held, nap>>
  BY DEF FireDuplicate
<1>3. Undecided /\ nap = 0 /\ held[new] = 0
  BY <1>1, <1>2, HeldBound DEF Undecided, Verdict, NapInv
<1>4. ASSUME ~contended, NEW h \in Copies, Holding(h)' PROVE SendingStill(h)'
  <2>1. Holding(h) /\ copy'[h] = copy[h] /\ SendingStill(h)
    BY <1>1, <1>3, <1>4 DEF Holding, OnTime
  <2>2. held[h] \in Nat /\ held[h] <= Interval
    BY <1>2, <1>3, <2>1 DEF SendingStill, HeldInv
  <2>3. Comes(new, h)'
    BY <1>1, <1>2, <1>3, <2>2 DEF Comes, Late, At
  <2> QED
    BY <1>2, <2>1, <2>3 DEF SendingStill, At
<1> QED
  BY <1>2, <1>3, <1>4 DEF OnTime

LEMMA OnTimePoll ==
    ASSUME Good, TypeOK, ClaimInv, SkipInv, HeldInv, NapInv, LiveInv, Claimed,
           OnTime, PollClaim \/ PollResults
    PROVE  OnTime'
<1>1. UNCHANGED <<copy, key, contended, result, held>>
  BY DEF PollClaim, PollResults, Poll, vars
<1>2. Undecided
  BY DEF PollClaim, PollResults, Poll, Undecided, Verdict
<1> SUFFICES ASSUME Undecided', ~contended
             PROVE  /\ runner' # "assert"
                    /\ \A h \in Copies : Holding(h) => SendingStill(h)'
  BY <1>1, <1>2 DEF OnTime, Holding
<1>3. /\ runner # "assert" /\ key # "sent"
      /\ \A h \in Copies : Holding(h) => SendingStill(h)
  BY <1>2 DEF OnTime
<1>4. CASE PollClaim
  <2>1. \/ runner' = "fire" /\ nap' = 0
        \/ runner' = "wait_claim" /\ key = "absent"
    BY <1>4 DEF PollClaim, Poll, Undecided, Verdict
  <2>2. runner = "wait_claim"
    BY <1>4 DEF PollClaim, Poll
  <2>3. key = "absent" => \A h \in Copies : ~Holding(h)
    BY DEF SkipInv, Untried, Holding
  <2>4. nap \in Nat /\ \A h \in Copies : held[h] \in Nat
    BY DEF NapInv, RunnerTypeOK
  <2> QED
    BY <1>1, <1>3, <2>1, <2>2, <2>3, <2>4 DEF SendingStill, At
<1>5. CASE PollResults
  <2>1. runner = "wait_results"
    BY <1>5 DEF PollResults, Poll
  <2>2. key = "not_sent"
    BY <1>2, <1>3, <2>1 DEF Claimed, TypeOK, KeyState
  <2>3. PICK h \in Copies : Holding(h)
    BY <2>2 DEF SkipInv, Held
  <2>4. PICK c \in Copies : Comes(c, h)
    BY <1>3, <2>1, <2>3 DEF SendingStill
  <2>5. result[Duplicate] = "none"
    BY <2>4 DEF Comes, LiveInv, Live
  <2>6. runner' = "wait_results"
    BY <1>5, <2>5 DEF PollResults, Poll, Undecided, Verdict
  <2> QED
    BY <1>1, <1>3, <2>1, <2>6 DEF SendingStill, At, Comes, Late
<1> QED
  BY <1>4, <1>5

-----------------------------------------------------------------------------
(* When the runner comes to its assertions, both results are there.        *)
Answered == runner = "assert" => \A t \in Tasks : result[t] # "none"

RunInv ==
    /\ SkipInv /\ AgeInv /\ LiveInv /\ NotFired
    /\ Claimed /\ Sender /\ OnTime /\ Answered

LEMMA RunInvMove ==
    ASSUME Good, TypeOK, HeldInv, NapInv, RunInv, SkipInv', Undecided, Calm',
           NEW c \in Copies, CopyStep(c) \/ CopyEnds(c)
    PROVE  RunInv'
<1> USE DEF RunInv
<1>1. /\ CalmMove(c) /\ held' = [held EXCEPT ![c] = 0]
      /\ UNCHANGED runnerVars
  BY CalmMoves
<1>2. /\ LiveInv'
      /\ \A e \in Copies : Live(e)' =>
           \E d \in Copies : Live(d) /\ copy'[e].task = copy[d].task
      /\ \A t \in Tasks : \/ result'[t] = result[t]
                          \/ \E d \in Copies : Live(d) /\ t = copy[d].task
  BY <1>1, LiveMove
<1>3. runner' = runner
  BY <1>1 DEF runnerVars
<1>4. NotFired'
  <2>1. Duplicate \in Tasks
    OBVIOUS
  <2> QED
    BY <1>2, <1>3, <2>1 DEF NotFired
<1>5. Claimed'
  <2>1. key # "absent" => key' # "absent"
    BY <1>1 DEF CalmMove, Starts, Claims, Meets, Skips, Contends, Sends, Marks,
       Retries, Stores, Acks, Keeps
  <2> QED
    BY <1>3, <2>1 DEF Claimed, Undecided
<1>6. Answered'
  <2>1. \A t \in Tasks : result[t] # "none" => result'[t] = result[t]
    BY <1>2 DEF LiveInv
  <2> QED
    BY <1>3, <2>1 DEF Answered
<1>7. AgeInv'
  BY <1>1, AgeInvMove
<1>8. Sender'
  BY <1>1, SenderMove
<1>9. OnTime'
  BY <1>1, OnTimeMove
<1> QED
  BY <1>2, <1>4, <1>5, <1>6, <1>7, <1>8, <1>9

LEMMA RunInvPass ==
    ASSUME RunTime < TTL, TypeOK, ClaimInv, HeldInv, NapInv, RunInv, SkipInv',
           Pass
    PROVE  RunInv'
<1> USE DEF RunInv
<1>1. /\ key' = key /\ result' = result /\ runner' = runner
      /\ contended' = contended
  BY ClaimStays DEF Pass, Tick
<1>2. \A e \in Copies : /\ copy'[e].pc = copy[e].pc
                        /\ copy'[e].task = copy[e].task
                        /\ copy'[e].out = copy[e].out
  BY TickShape DEF Pass
<1>3. Claimed' /\ Answered'
  BY <1>1 DEF Claimed, Undecided, Answered
<1>4. Sender'
  BY <1>1, <1>2 DEF Sender, Holding, Says, At
<1> QED
  BY <1>3, <1>4, AgeInvPass, LivePass, OnTimePass

LEMMA RunInvFire ==
    ASSUME TypeOK, HeldInv, NapInv, RunInv, SkipInv', FireDuplicate
    PROVE  RunInv'
<1> USE DEF RunInv
<1>1. PICK new \in Copies :
        /\ copy'[new].pc = "queued" /\ copy[new].pc = "free"
        /\ \A e \in Copies \ {new} : copy'[e] = copy[e]
  BY FireShape
<1>2. /\ runner = "fire" /\ runner' = "wait_results"
      /\ key' = key /\ result' = result
  BY DEF FireDuplicate
<1>3. Claimed' /\ Answered'
  BY <1>2 DEF Claimed, Undecided, Verdict, Answered
<1>4. Sender'
  BY <1>1, <1>2 DEF Sender, Holding, Says, At
<1> QED
  BY <1>3, <1>4, AgeInvFire, LiveFire, OnTimeFire

LEMMA RunInvPoll ==
    ASSUME Good, TypeOK, ClaimInv, HeldInv, NapInv, RunInv, SkipInv',
           PollClaim \/ PollResults
    PROVE  RunInv'
<1> USE DEF RunInv
<1>1. UNCHANGED <<vars, held>>
  BY DEF PollClaim, PollResults, Poll
<1>2. AgeInv' /\ LiveInv' /\ Sender'
  BY <1>1 DEF AgeInv, Age, LiveInv, Live, Sender, Holding, Says, At, vars
<1>3. CASE PollClaim
  <2>1. /\ runner = "wait_claim"
        /\ \/ runner' = "fire" /\ key # "absent"
           \/ runner' \in {"wait_claim", "timed_out"}
    BY <1>3 DEF PollClaim, Poll
  <2>2. NotFired' /\ Claimed' /\ Answered'
    BY <1>1, <2>1 DEF NotFired, Live, Claimed, Undecided, Verdict, Answered,
       vars
  <2> QED
    BY <1>2, <1>3, <2>2, OnTimePoll
<1>4. CASE PollResults
  <2>1. /\ runner = "wait_results"
        /\ \/ runner' = "assert" /\ \A t \in Tasks : result[t] # "none"
           \/ runner' \in {"wait_results", "timed_out"}
    BY <1>4 DEF PollResults, Poll
  <2>2. NotFired' /\ Claimed' /\ Answered'
    BY <1>1, <2>1 DEF NotFired, Claimed, Undecided, Verdict, Answered, vars
  <2> QED
    BY <1>2, <1>4, <2>2, OnTimePoll
<1> QED
  BY <1>3, <1>4

(* The assertions, at the state they are made in.                          *)
LEMMA AssertPasses ==
    ASSUME TypeOK, SendsInv, SentInv, RunInv, Calm, Assert
    PROVE  runner' = "passed"
<1>1. runner = "assert" /\ \A t \in Tasks : result[t] \in {"sent", "skipped"}
  BY DEF Assert, RunInv, Answered, SkipInv, NoFailure
<1>2. result[ChordNotify] = "sent" /\ result[Duplicate] = "skipped"
  BY <1>1 DEF RunInv, Sender
<1>3. sends = 1
  <2>1. sends >= 1
    BY <1>2 DEF SentInv, Silent
  <2>2. sends <= 1
    BY DEF SendsInv, Calm, TypeOK
  <2> QED
    BY <2>1, <2>2 DEF TypeOK
<1>4. contended
  BY <1>1 DEF RunInv, OnTime, Undecided, Verdict
<1> QED
  BY <1>2, <1>3, <1>4 DEF Assert, NotifyIdempotent

-----------------------------------------------------------------------------
(* All of it, for a run from its beginning.                                *)
RunnerInv ==
    /\ TypeOK /\ SentInv /\ HeldInv /\ NapInv
    /\ RunTime < TTL => ClaimInv /\ SendsInv
    /\ Good /\ Calm => IF Undecided THEN RunInv ELSE runner # "failed"

LEMMA RunnerInvInit == RunnerInit => RunnerInv
<1> SUFFICES ASSUME RunnerInit PROVE RunnerInv
  OBVIOUS
<1>1. PICK c \in Copies, h \in 0..HeaderTime :
        copy = [e \in Copies |->
                   IF e = c THEN NewCopy(ChordNotify, 0, h) ELSE Free]
  BY DEF RunnerInit
<1>2. /\ key = "absent" /\ ttl = 0 /\ sends = 0 /\ contended = FALSE
      /\ losses = 0 /\ limits = 0 /\ runner = "wait_claim"
      /\ result = [t \in Tasks |-> "none"]
      /\ held = [e \in Copies |-> 0]
  BY DEF RunnerInit
<1>3. /\ NewCopy(ChordNotify, 0, h) \in Copy
      /\ NewCopy(ChordNotify, 0, h).pc = "queued"
      /\ NewCopy(ChordNotify, 0, h).task = ChordNotify
      /\ NewCopy(ChordNotify, 0, h).retries = 0
  BY NewCopyType DEF NewCopy
<1>4. Free \in Copy /\ Free.pc = "free" /\ Free.retries = 0
  BY FreeType DEF Free
<1>5. /\ copy \in [Copies -> Copy]
      /\ copy[c].pc = "queued" /\ copy[c].task = ChordNotify
      /\ copy[c].retries = 0
      /\ \A e \in Copies \ {c} : copy[e].pc = "free" /\ copy[e].retries = 0
  BY <1>1, <1>3, <1>4
<1>6. TypeOK
  <2>1. CopiesOK
    BY <1>5 DEF CopiesOK
  <2>2. ttl \in 0..TTL /\ result \in [Tasks -> Outcome \cup {"none"}]
    BY <1>2
  <2> QED
    BY <1>2, <2>1, <2>2 DEF TypeOK, KeyState
<1>7. SentInv
  BY <1>2, <1>5 DEF SentInv, Silent, At, Says
<1>8. HeldInv
  BY <1>2, WaitType DEF HeldInv
<1>9. ClaimInv
  BY <1>2, <1>5 DEF ClaimInv, Running, Body, Holding
<1>10. SendsInv
  BY <1>2 DEF SendsInv
<1>11. SkipInv
  BY <1>2, <1>5 DEF SkipInv, Untried, Held, Patient, NoFailure, Holding, At
<1>12. RunInv
  <2>1. LiveInv /\ NotFired
    BY <1>2, <1>5 DEF LiveInv, NotFired, Live
  <2>2. AgeInv /\ Claimed /\ Sender
    BY <1>2, <1>5 DEF AgeInv, Claimed, Sender, Holding, Says, At
  <2>3. OnTime /\ Answered
    BY <1>2, <1>5 DEF OnTime, Holding, Answered
  <2> QED
    BY <1>11, <2>1, <2>2, <2>3 DEF RunInv
<1> QED
  BY <1>2, <1>6, <1>7, <1>8, <1>9, <1>10, <1>12, NapInvInit
     DEF RunnerInv, Undecided, Verdict

LEMMA RunnerInvStep == RunnerInv /\ [RunnerNext]_allVars => RunnerInv'
<1> SUFFICES ASSUME RunnerInv, [RunnerNext]_allVars PROVE RunnerInv'
  OBVIOUS
<1>0. Duplicate \in Tasks
  OBVIOUS
<1>1. TypeOK /\ SentInv /\ HeldInv /\ NapInv
  BY DEF RunnerInv
<1>2. [Next]_vars \/ \E new \in Copies : Arrive(Duplicate, new)
  BY RunnerStepIs
<1>3. TypeOK' /\ SentInv'
  BY <1>0, <1>1, <1>2, TypeStep, SentInvStep, ArriveKeeps
<1>4. HeldInv' /\ NapInv'
  BY <1>1, HeldInvStep, NapInvStep
<1>5. RunTime < TTL => ClaimInv' /\ SendsInv'
  BY <1>0, <1>1, <1>2, <1>3, ClaimInvStep, SendsInvStep, ArriveKeeps
     DEF RunnerInv
<1>6. ASSUME Good, Calm'
      PROVE  IF Undecided' THEN RunInv' ELSE runner' # "failed"
  <2>1. Calm
    BY <1>1, <1>2, <1>6, CalmStep DEF Arrive, Calm
  <2>2. RunTime < TTL /\ ClaimInv /\ SendsInv
    BY <1>6 DEF RunnerInv, Good
  <2>3. CASE ~Undecided
    <3>1. runner # "failed" /\ runner \in Verdict
      BY <1>6, <2>1, <2>3 DEF RunnerInv, Undecided
    <3>2. runner' = runner
      BY <3>1 DEF RunnerNext, RunnerStep, PollClaim, FireDuplicate,
         PollResults, Poll, Assert, CopyStep, CopyEnds, Pass, runnerVars,
         allVars, Verdict
    <3> QED
      BY <2>3, <3>1, <3>2 DEF Undecided
  <2>4. CASE Undecided
    <3>1. RunInv
      BY <1>6, <2>1, <2>4 DEF RunnerInv
    <3>2. SkipInv'
      <4>1. InTime
        BY <1>1, <1>6, <3>1, HoldersInTime DEF RunInv
      <4> QED
        BY <1>0, <1>1, <1>2, <1>6, <2>2, <3>1, <4>1, SkipInvStep, ArriveKeeps
           DEF RunInv
    <3>3. CASE PollClaim \/ PollResults
      <4>1. runner' # "failed"
        BY <3>3 DEF PollClaim, PollResults, Poll
      <4>2. RunInv'
        BY <1>1, <1>6, <2>2, <3>1, <3>2, <3>3, RunInvPoll
      <4> QED
        BY <4>1, <4>2
    <3>4. CASE FireDuplicate
      <4>1. runner' # "failed"
        BY <3>4 DEF FireDuplicate
      <4>2. RunInv'
        BY <1>1, <3>1, <3>2, <3>4, RunInvFire
      <4> QED
        BY <4>1, <4>2
    <3>5. CASE Assert
      BY <1>1, <2>1, <2>2, <3>1, <3>5, AssertPasses DEF Undecided, Verdict
    <3>6. ASSUME NEW c \in Copies, CopyStep(c) \/ CopyEnds(c)
          PROVE  RunInv' /\ Undecided'
      <4>1. runner' = runner
        BY <3>6 DEF CopyStep, CopyEnds, runnerVars
      <4> QED
        BY <1>1, <1>6, <2>4, <3>1, <3>2, <3>6, <4>1, RunInvMove DEF Undecided
    <3>7. CASE Pass
      <4>1. runner' = runner
        BY <3>7 DEF Pass
      <4> QED
        BY <1>1, <2>2, <2>4, <3>1, <3>2, <3>7, <4>1, RunInvPass DEF Undecided
    <3>8. CASE UNCHANGED allVars
      BY <2>4, <3>1, <3>8 DEF allVars, runnerVars, vars, Undecided, RunInv,
         SkipInv, Untried, Held, Patient, NoFailure, Trying, Left, AgeInv, Age,
         LiveInv, NotFired, Live, Claimed, Sender, Holding, Says, At, OnTime,
         SendingStill, Comes, Late, Answered
    <3> QED
      BY <3>3, <3>4, <3>5, <3>6, <3>7, <3>8 DEF RunnerNext, RunnerStep
  <2> QED
    BY <2>3, <2>4
<1> QED
  BY <1>3, <1>4, <1>5, <1>6 DEF RunnerInv

(* Where the sending outlasts a poll and three lags, and the duplicate's   *)
(* retries outlast the sending, no assertion fails unless a notify was cut *)
(* short, whatever the order of polls, steps and ticks.                    *)
THEOREM AssertionsAreRight == RunnerSpec => []AssertionsHold
<1>1. RunnerInv => AssertionsHold
  BY DEF RunnerInv, AssertionsHold, Good, Calm, Undecided, Verdict
<1> QED
  BY <1>1, RunnerInvInit, RunnerInvStep, PTL DEF RunnerSpec

=============================================================================
