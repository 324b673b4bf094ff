--------------------------- MODULE PipelineProofs ---------------------------
(***************************************************************************)
(* What ChordHeader and NotifyLock promise of themselves they promise of   *)
(* each other: the proofs of NotifyLock are instantiated for the notifies  *)
(* of the header's bodies, which arrive while others run.                  *)
(***************************************************************************)
EXTENDS Pipeline, FanInProofs

LockP == INSTANCE NotifyLockProofs WITH
    Tasks <- {NotifyId}, MaxRetries <- NotifyRetries,
    TimeLimited <- TimeLimits, LossPoints <- NotifyLossPoints,
    losses <- notifyLosses

LEMMA LockConstants == LockP!NotifyLockConstants
  BY PipelineAssumption DEF Lock!NotifyLockConstants, Lock!Running, Lock!Body,
     LockP!NotifyLockConstants, LockP!Running, LockP!Body, Lock!IsFiniteSet,
     LockP!IsFiniteSet, Lock!Cardinality, LockP!Cardinality

-----------------------------------------------------------------------------
(* The steps of a pipeline as steps of its parts.                          *)

LEMMA HeaderStepIs ==
    ASSUME NEW w \in Slots, HeaderStep(w)
    PROVE  /\ Next
           /\ \/ bodies' = bodies /\ UNCHANGED notifyVars
              \/ \E new \in Copies : LockP!Arrive(NotifyId, new)
<1>1. Next
  BY DEF HeaderStep, Next
<1>2. ASSUME Publish PROVE \E new \in Copies : LockP!Arrive(NotifyId, new)
  BY <1>2 DEF Publish, LockP!Arrive, Lock!At, LockP!At, Lock!NewCopy,
     LockP!NewCopy
<1> QED
  BY <1>1, <1>2 DEF HeaderStep

LEMMA NotifyStepIs == NotifyStep => LockP!Next /\ UNCHANGED vars
<1> USE DEF Lock!At, LockP!At, Lock!Go, LockP!Go, Lock!End, LockP!End,
            Lock!Record, LockP!Record, Lock!Free, LockP!Free
<1>1. ASSUME NEW c \in Copies, Lock!Progress(c) PROVE LockP!Progress(c)
  <2>1. /\ Lock!Start(c) <=> LockP!Start(c)
        /\ Lock!Claim(c) <=> LockP!Claim(c)
        /\ Lock!Get(c) <=> LockP!Get(c)
        /\ Lock!SendEmail(c) <=> LockP!SendEmail(c)
    BY DEF Lock!Start, LockP!Start, Lock!Claim, LockP!Claim, Lock!Get,
       LockP!Get, Lock!SendEmail, LockP!SendEmail
  <2>2. /\ Lock!MarkSent(c) <=> LockP!MarkSent(c)
        /\ \A new \in Copies :
             Lock!PublishRetry(c, new) <=> LockP!PublishRetry(c, new)
        /\ Lock!Store(c) <=> LockP!Store(c)
        /\ Lock!Ack(c) <=> LockP!Ack(c)
        /\ Lock!Drop(c) <=> LockP!Drop(c)
    BY DEF Lock!MarkSent, LockP!MarkSent, Lock!PublishRetry,
       LockP!PublishRetry, Lock!NewCopy, LockP!NewCopy, Lock!Store,
       LockP!Store, Lock!Ack, LockP!Ack, Lock!Drop, LockP!Drop
  <2> QED
    BY <1>1, <2>1, <2>2 DEF Lock!Progress, LockP!Progress
<1>2. ASSUME NEW c \in Copies
      PROVE  /\ Lock!Lose(c) <=> LockP!Lose(c)
             /\ Lock!SoftLimit(c) <=> LockP!SoftLimit(c)
             /\ Lock!HardLimit(c) <=> LockP!HardLimit(c)
  BY DEF Lock!Lose, LockP!Lose, Lock!Redelivered, LockP!Redelivered,
     Lock!DeadLettered, LockP!DeadLettered, Lock!SoftLimit, LockP!SoftLimit,
     Lock!HardLimit, LockP!HardLimit, Lock!Running, LockP!Running, Lock!Body,
     LockP!Body
<1>3. Lock!Tick <=> LockP!Tick
  BY DEF Lock!Tick, LockP!Tick, Lock!Aged, LockP!Aged, Lock!Running,
     LockP!Running, Lock!Body, LockP!Body
<1> QED
  BY <1>1, <1>2, <1>3 DEF NotifyStep, LockP!Next

(* A pipeline's step is one of its header, or of a notify, or both.        *)
LEMMA PipelineStepIs ==
    ASSUME [PipelineNext]_pipelineVars
    PROVE  /\ [Next]_vars
           /\ \/ bodies' = bodies /\ [LockP!Next]_(LockP!vars)
              \/ \E new \in Copies : LockP!Arrive(NotifyId, new)
<1>1. ASSUME NEW w \in Slots, HeaderStep(w)
      PROVE  /\ [Next]_vars
             /\ \/ bodies' = bodies /\ [LockP!Next]_(LockP!vars)
                \/ \E new \in Copies : LockP!Arrive(NotifyId, new)
  BY <1>1, HeaderStepIs DEF notifyVars, LockP!vars
<1>2. CASE NotifyStep
  BY <1>2, NotifyStepIs DEF vars
<1>3. CASE UNCHANGED pipelineVars
  BY <1>3 DEF pipelineVars, notifyVars, vars, LockP!vars
<1> QED
  BY <1>1, <1>2, <1>3 DEF PipelineNext

-----------------------------------------------------------------------------
(* A pipeline's header runs as a header by itself, which is how the        *)
(* statements about the one are carried over to the other.                 *)
LEMMA HeaderOfPipeline == PipelineSpec => Spec
<1>1. PipelineInit => Init
  BY DEF PipelineInit
<1>2. [PipelineNext]_pipelineVars => [Next]_vars
  BY PipelineStepIs
<1> QED
  BY <1>1, <1>2, PTL DEF PipelineSpec, Spec

(* Where every worker is lost at a safe point, or none is, a notify that a *)
(* pipeline has published stands for one result of each document, beside   *)
(* all notifies and through time limits, unless one of these has cut a     *)
(* retry off between its publication and its end.                          *)
THEOREM PipelineBodies ==
    PipelineSpec => [](SafeLosses \/ losses = 0 => FanInComplete)
  BY HeaderOfPipeline, BodyIsComplete, PTL

-----------------------------------------------------------------------------
(* The notifies.  Until a published body has a result, a copy of its       *)
(* notify is on its way to one.                                            *)
Calm == LockP!Calm

Ample == RunTime < TTL /\ RunTime < NotifyRetries * RetryDelay

OnItsWayToResult == \E c \in Copies : copy[c].pc \notin {"free", "ack"}

Pending == bodies # <<>> => result[NotifyId] # "none" \/ OnItsWayToResult

LockInv ==
    /\ LockP!TypeOK
    /\ RunTime < TTL => LockP!ClaimInv /\ LockP!SendsInv
    /\ LockP!SentInv
    /\ Ample /\ Calm => LockP!SkipInv /\ Pending

LEMMA LockInvInit == PipelineInit => LockInv
<1> SUFFICES ASSUME PipelineInit PROVE LockInv
  OBVIOUS
<1>1. /\ copy = [c \in Copies |-> LockP!Free]
      /\ key = "absent" /\ ttl = 0 /\ result = [t \in {NotifyId} |-> "none"]
      /\ sends = 0 /\ contended = FALSE /\ notifyLosses = 0 /\ limits = 0
      /\ bodies = <<>>
  BY DEF PipelineInit, Init, Lock!Free, LockP!Free
<1>2. \A c \in Copies : /\ copy[c] \in LockP!Copy /\ copy[c].pc = "free"
                        /\ copy[c].retries = 0
  BY <1>1, LockP!FreeType, LockConstants DEF LockP!Free
<1>3. LockP!CopiesOK
  BY <1>1, <1>2 DEF LockP!CopiesOK
<1>4. ttl \in 0..TTL
  BY <1>1, LockConstants DEF LockP!NotifyLockConstants
<1>5. LockP!TypeOK
  BY <1>1, <1>3, <1>4 DEF LockP!TypeOK, LockP!KeyState, LockP!Outcome
<1>6. LockP!ClaimInv
  BY <1>1, <1>2 DEF LockP!ClaimInv, LockP!Holding, LockP!Running, LockP!Body
<1>7. LockP!SendsInv
  BY <1>1 DEF LockP!SendsInv
<1>8. LockP!SentInv
  BY <1>1, <1>2 DEF LockP!SentInv, LockP!Silent, LockP!Says, LockP!At
<1>9. LockP!SkipInv
  BY <1>1, <1>2 DEF LockP!SkipInv, LockP!Untried, LockP!Held, LockP!Patient,
     LockP!NoFailure, LockP!Holding, LockP!At
<1> QED
  BY <1>1, <1>5, <1>6, <1>7, <1>8, <1>9 DEF LockInv, Pending

(* Undisturbed, only the copy that stores a result, or has published a     *)
(* retry, leaves the way to one.                                           *)
LEMMA PendingStep ==
    ASSUME LockP!TypeOK, LockP!SkipInv, LockP!SkipInv', Calm, Calm', Pending,
           bodies' = bodies, [LockP!Next]_(LockP!vars)
    PROVE  Pending'
<1> SUFFICES ASSUME bodies # <<>>
             PROVE  result'[NotifyId] # "none" \/ OnItsWayToResult'
  BY DEF Pending
<1>0. /\ copy \in [Copies -> LockP!Copy]
      /\ result \in [{NotifyId} -> LockP!Outcome \cup {"none"}]
      /\ \A c \in Copies : copy[c].pc # "free" => copy[c].task = NotifyId
      /\ notifyLosses \in Nat /\ limits \in Nat
  BY DEF LockP!TypeOK, LockP!CopiesOK
<1>1. result[NotifyId] # "none" => result'[NotifyId] # "none"
  <2>1. ASSUME NEW c \in Copies, LockP!Store(c)
        PROVE  result[NotifyId] # "none" => result'[NotifyId] # "none"
    <3>1. copy[c].task = NotifyId /\ copy[c].out \in {"sent", "skipped"}
      BY <1>0, <2>1 DEF LockP!Store, LockP!At, LockP!SkipInv, LockP!NoFailure
    <3> QED
      BY <1>0, <2>1, <3>1 DEF LockP!Store, LockP!Record
  <2>2. ASSUME NEW c \in Copies, LockP!HardLimit(c) PROVE FALSE
    BY <1>0, <2>2 DEF LockP!HardLimit, Calm, LockP!Calm
  <2> QED
    BY <2>1, <2>2 DEF LockP!Next, LockP!Progress, LockP!Start, LockP!Claim,
       LockP!Get, LockP!SendEmail, LockP!MarkSent, LockP!PublishRetry,
       LockP!Ack, LockP!Drop, LockP!Lose, LockP!SoftLimit, LockP!Tick,
       LockP!Rest, LockP!vars
<1> SUFFICES ASSUME NEW c \in Copies, copy[c].pc \notin {"free", "ack"}
             PROVE  result'[NotifyId] # "none" \/ OnItsWayToResult'
  BY <1>1 DEF Pending, OnItsWayToResult
<1>2. ASSUME NEW e \in Copies,
             \/ LockP!Start(e) \/ LockP!Claim(e) \/ LockP!Get(e)
             \/ LockP!SendEmail(e) \/ LockP!MarkSent(e)
      PROVE  OnItsWayToResult'
  <2>1. copy'[e].pc \in {"claim", "send", "get", "store", "retry", "mark"}
    BY <1>0, <1>2 DEF LockP!Start, LockP!Claim, LockP!Get, LockP!SendEmail,
       LockP!MarkSent, LockP!Go, LockP!End, LockP!Copy
  <2> QED
    BY <2>1 DEF OnItsWayToResult
<1>3. ASSUME NEW e \in Copies, NEW new \in Copies, LockP!PublishRetry(e, new)
      PROVE  OnItsWayToResult'
  <2>1. copy'[new].pc = "queued"
    BY <1>0, <1>3, LockP!PublishShape, LockConstants
  <2> QED
    BY <2>1 DEF OnItsWayToResult
<1>4. ASSUME NEW e \in Copies, LockP!Store(e) PROVE result'[NotifyId] # "none"
  <2>1. copy[e].task = NotifyId /\ copy[e].out \in {"sent", "skipped"}
    BY <1>0, <1>4 DEF LockP!Store, LockP!At, LockP!SkipInv, LockP!NoFailure
  <2> QED
    BY <1>0, <1>4, <2>1 DEF LockP!Store, LockP!Record
<1>5. ASSUME NEW e \in Copies, LockP!Ack(e) PROVE OnItsWayToResult'
  <2>1. c # e /\ copy'[c] = copy[c]
    BY <1>0, <1>5 DEF LockP!Ack, LockP!At
  <2> QED
    BY <2>1 DEF OnItsWayToResult
<1>6. ASSUME NEW e \in Copies,
             \/ LockP!Drop(e) \/ LockP!Lose(e) \/ LockP!SoftLimit(e)
             \/ LockP!HardLimit(e)
      PROVE  FALSE
  BY <1>0, <1>6 DEF LockP!Drop, LockP!Lose, LockP!SoftLimit, LockP!HardLimit,
     Calm, LockP!Calm, LockP!SkipInv, LockP!NoFailure
<1>7. CASE LockP!Tick
  <2>1. copy'[c].pc = copy[c].pc
    BY <1>0, <1>7 DEF LockP!Tick, LockP!Aged, LockP!Copy
  <2> QED
    BY <2>1 DEF OnItsWayToResult
<1>8. CASE LockP!Rest \/ UNCHANGED LockP!vars
  BY <1>8 DEF LockP!Rest, LockP!vars, OnItsWayToResult
<1> QED
  BY <1>2, <1>3, <1>4, <1>5, <1>6, <1>7, <1>8 DEF LockP!Next, LockP!Progress

LEMMA LockInvStep == LockInv /\ [PipelineNext]_pipelineVars => LockInv'
<1> SUFFICES ASSUME LockInv, [PipelineNext]_pipelineVars PROVE LockInv'
  OBVIOUS
<1>1. CASE bodies' = bodies /\ [LockP!Next]_(LockP!vars)
  <2>1. LockP!TypeOK'
    BY <1>1, LockP!TypeStep, LockConstants DEF LockInv
  <2>2. RunTime < TTL => LockP!ClaimInv' /\ LockP!SendsInv'
    BY <1>1, <2>1, LockP!ClaimInvStep, LockP!SendsInvStep, LockConstants
       DEF LockInv
  <2>3. LockP!SentInv'
    BY <1>1, LockP!SentInvStep, LockConstants DEF LockInv
  <2>4. ASSUME Ample, Calm' PROVE LockP!SkipInv' /\ Pending'
    <3>1. Calm
      BY <1>1, <2>4, LockP!CalmStep, LockConstants DEF LockInv, Calm
    <3>2. LockP!ClaimInv /\ LockP!SkipInv /\ Pending
      BY <2>4, <3>1 DEF LockInv, Ample
    <3>3. LockP!InTime
      <4>1. ASSUME NEW h \in Copies, LockP!Holding(h)
            PROVE  copy[h].timer < NotifyRetries * RetryDelay
        <5>1. copy[h].timer \in Nat /\ copy[h].timer <= RunTime
          BY <3>2, <4>1, LockP!Facts, LockConstants
             DEF LockInv, LockP!ClaimInv, LockP!Holding, LockP!Running,
                 LockP!Body
        <5> QED
          BY <2>4, <5>1, LockConstants
             DEF Ample, LockP!NotifyLockConstants
      <4> QED
        BY <4>1 DEF LockP!InTime
    <3>4. LockP!SkipInv'
      BY <1>1, <2>4, <3>2, <3>3, LockP!SkipInvStep, LockConstants
         DEF LockInv, Ample, Calm
    <3> QED
      BY <1>1, <2>4, <3>1, <3>2, <3>4, PendingStep DEF LockInv
  <2> QED
    BY <2>1, <2>2, <2>3, <2>4 DEF LockInv, Ample
<1>2. ASSUME NEW new \in Copies, LockP!Arrive(NotifyId, new) PROVE LockInv'
  <2>1. copy'[new].pc = "queued"
    BY <1>2, LockP!Facts, LockConstants
       DEF LockInv, LockP!Arrive, LockP!NewCopy
  <2>2. Pending'
    BY <2>1 DEF Pending, OnItsWayToResult
  <2>3. Calm' => Calm
    BY <1>2 DEF LockP!Arrive, Calm, LockP!Calm
  <2>4. NotifyId \in {NotifyId}
    OBVIOUS
  <2>5. /\ LockP!TypeOK'
        /\ LockP!ClaimInv => LockP!ClaimInv'
        /\ LockP!SendsInv => LockP!SendsInv'
        /\ LockP!SentInv => LockP!SentInv'
        /\ LockP!SkipInv => LockP!SkipInv'
    BY <1>2, <2>4, LockP!ArriveKeeps, LockConstants DEF LockInv
  <2> QED
    BY <2>2, <2>3, <2>5 DEF LockInv, Ample
<1> QED
  BY <1>1, <1>2, PipelineStepIs

LEMMA LockInvariance == PipelineSpec => []LockInv
  BY LockInvInit, LockInvStep, PTL DEF PipelineSpec

(* However often the header publishes its body, the user gets no second    *)
(* e-mail but for an execution of notify that was cut short.               *)
THEOREM EmailsAreBounded == PipelineSpec => []EmailsBounded
<1>1. LockInv => EmailsBounded
  BY DEF LockInv, LockP!TypeOK, LockP!SendsInv, EmailsBounded
<1> QED
  BY <1>1, LockInvariance, PTL

(* At the end a published body has been notified of exactly once, and no   *)
(* copy of notify has failed.                                              *)
THEOREM DeliveredExactlyOnce == PipelineSpec => []DeliveredOnce
<1>1. ASSUME LockInv PROVE DeliveredOnce
  <2> SUFFICES ASSUME Ample, Calm, AllAtRest, bodies # <<>>
               PROVE  sends = 1 /\ result[NotifyId] \in {"sent", "skipped"}
    BY DEF DeliveredOnce, Ample, Calm, LockP!Calm
  <2>1. \A c \in Copies : copy[c].pc = "free"
    BY DEF AllAtRest, Lock!AtRest, Lock!At
  <2>2. result[NotifyId] \in {"sent", "skipped"}
    BY <1>1, <2>1 DEF LockInv, Pending, OnItsWayToResult, LockP!SkipInv,
       LockP!NoFailure
  <2>3. sends >= 1
    BY <1>1, <2>2 DEF LockInv, LockP!SentInv, LockP!Silent
  <2>4. sends \in Nat /\ sends <= 1
    BY <1>1 DEF LockInv, LockP!TypeOK, LockP!SendsInv, Ample, Calm, LockP!Calm
  <2> QED
    BY <2>2, <2>3, <2>4
<1>2. LockInv => DeliveredOnce
  BY <1>1
<1> QED
  BY <1>2, LockInvariance, PTL

=============================================================================
