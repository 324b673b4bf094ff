------------------------- MODULE ChordHeaderProofs -------------------------
(***************************************************************************)
(* Proofs about ChordHeader for any documents, schedule, delivery limit,   *)
(* number of slots, losses and time limits, wherever they strike.          *)
(***************************************************************************)
EXTENDS ChordHeader, SequenceTheorems, FiniteSetTheorems, TLAPS

-----------------------------------------------------------------------------
(* The shapes of messages, queues, results and slots.                      *)

LEMMA ConstantTypes ==
    /\ MaxRetries \in Nat
    /\ DeliveryLimit \in Nat /\ DeliveryLimit > 0
    /\ Unknown \notin Docs
  BY TaskExitAssumption, ChordHeaderAssumption
     DEF TaskExitAssumption, ChordHeaderAssumption

LEMMA PutType ==
    ASSUME NEW q \in [Message -> Nat], NEW m \in Message
    PROVE  Put(q, m) \in [Message -> Nat]
  BY DEF Put

LEMMA TakeType ==
    ASSUME NEW q \in [Message -> Nat], NEW m \in Message, q[m] > 0
    PROVE  Take(q, m) \in [Message -> Nat]
<1>1. q[m] - 1 \in Nat
  OBVIOUS
<1> QED
  BY <1>1 DEF Take

LEMMA FreshMessageType ==
    ASSUME NEW d \in Docs
    PROVE  /\ FetchMessage(d) \in Message
           /\ \A status \in {"SUCCESS", "FAILURE"} :
                ParseMessage(d, status) \in Message
  BY ConstantTypes DEF FetchMessage, ParseMessage, Message

(* What a message becomes when it is retried, redelivered, dead-lettered.  *)
LEMMA NextMessageType ==
    ASSUME NEW m \in Message
    PROVE  /\ m.retries < MaxRetries =>
                [m EXCEPT !.retries = @ + 1, !.deliveries = 0] \in Message
           /\ m.deliveries < DeliveryLimit =>
                [m EXCEPT !.deliveries = @ + 1] \in Message
           /\ [m EXCEPT !.deliveries = 0] \in Message
<1>1. ASSUME m.retries < MaxRetries
      PROVE  [m EXCEPT !.retries = @ + 1, !.deliveries = 0] \in Message
  <2>1. m.retries + 1 \in 0..MaxRetries /\ 0 \in 0..DeliveryLimit
    BY <1>1, ConstantTypes DEF Message
  <2> QED
    BY <2>1 DEF Message
<1>2. ASSUME m.deliveries < DeliveryLimit
      PROVE  [m EXCEPT !.deliveries = @ + 1] \in Message
  <2>1. m.deliveries + 1 \in 0..DeliveryLimit
    BY <1>2, ConstantTypes DEF Message
  <2> QED
    BY <2>1 DEF Message
<1>3. [m EXCEPT !.deliveries = 0] \in Message
  BY ConstantTypes DEF Message
<1> QED
  BY <1>1, <1>2, <1>3

LEMMA PartForType ==
    ASSUME NEW m \in Message, NEW reason \in Reason, NEW n \in Nat
    PROVE  /\ PartFor(m, reason, n) \in Part
           /\ PartFor(m, reason, n).state = CeleryState(reason)
           /\ PartFor(m, reason, n).status = Status(reason)
           /\ PartFor(m, reason, n).doc = m.doc
<1>1. /\ CeleryState(reason) \in {"SUCCESS", "FAILURE"}
      /\ Status(reason) \in {"SUCCESS", "FAILURE"}
  BY DEF CeleryState, Status
<1>2. m.doc \in Docs /\ m.retries + 1 \in Nat
  BY ConstantTypes DEF Message
<1> QED
  BY <1>1, <1>2 DEF PartFor, Part

LEMMA OutcomeType ==
    ASSUME NEW m \in Message, Outcome(m) # "kill"
    PROVE  Outcome(m) \in Reason
<1>1. ASSUME NEW e, NEW n, ParseOutcome(e, n) # "kill"
      PROVE  ParseOutcome(e, n) \in Reason
  BY <1>1 DEF ParseOutcome, Reason, BodyOutcome
<1> QED
  BY <1>1 DEF Outcome, Reason, BodyOutcome

LEMMA AttemptType ==
    ASSUME TypeOK, NEW m \in Message
    PROVE  DocId(m) \in Docs \cup {Unknown} /\ Attempt(m) \in Nat
  BY DEF TypeOK, DocId, Attempt, Message

-----------------------------------------------------------------------------
LEMMA StepType ==
    ASSUME SlotsOK, NEW w \in Slots, ~Holds(w, "idle"),
           NEW pc \in Busy, NEW out \in Part \cup {NoPart},
           pc \in {"chain", "part"} => out \in Part,
           pc = "retry" => slot[w].msg.retries < MaxRetries,
           pc \in {"retry", "published"} => slot[w].msg.task = "parse",
           Step(w, pc, out)
    PROVE  SlotsOK'
<1> DEFINE s == [slot[w] EXCEPT !.pc = pc, !.out = out]
<1>1. slot[w] \in Slot /\ slot[w].msg \in Message
  BY DEF SlotsOK
<1>2. s \in Slot /\ s.pc = pc /\ s.out = out /\ s.msg = slot[w].msg
  BY <1>1 DEF Slot
<1>3. slot' = [slot EXCEPT ![w] = s]
  BY DEF Step, SlotsOK
<1> QED
  BY <1>1, <1>2, <1>3 DEF SlotsOK, Holds

LEMMA IdleType == Idle \in Slot /\ Idle.pc = "idle"
  BY DEF Idle, Slot

LEMMA ReleaseType ==
    ASSUME SlotsOK, NEW w \in Slots, Release(w)
    PROVE  SlotsOK'
  BY IdleType DEF Release, SlotsOK, Holds

LEMMA TakeOnType ==
    ASSUME SlotsOK, NEW w \in Slots, NEW m \in Message,
           NEW pc \in {"body", "finalize"}, NEW mode \in {"task", "drain"},
           slot' = [slot EXCEPT ![w] = [pc |-> pc, msg |-> m,
                                        out |-> NoPart, mode |-> mode]]
    PROVE  SlotsOK'
<1> DEFINE s == [pc |-> pc, msg |-> m, out |-> NoPart, mode |-> mode]
<1>1. s \in Slot /\ s.pc = pc /\ s.msg = m
  BY DEF Slot, Busy
<1> QED
  BY <1>1 DEF SlotsOK, Holds

LEMMA RequeueType ==
    ASSUME ready \in [Message -> Nat], dlq \in [Message -> Nat],
           NEW m \in Message, Requeue(m)
    PROVE  ready' \in [Message -> Nat] /\ dlq' \in [Message -> Nat]
  BY PutType, NextMessageType DEF Requeue

LEMMA DetachType ==
    ASSUME SlotsOK, NEW w \in Slots,
           slot' = [slot EXCEPT ![w].mode = "detached"]
    PROVE  SlotsOK'
<1> DEFINE s == [slot[w] EXCEPT !.mode = "detached"]
<1>1. slot[w] \in Slot
  BY DEF SlotsOK
<1>2. s \in Slot /\ s.pc = slot[w].pc /\ s.out = slot[w].out /\ s.msg = slot[w].msg
  BY <1>1 DEF Slot
<1>3. slot' = [slot EXCEPT ![w] = s]
  BY DEF SlotsOK
<1> QED
  BY <1>2, <1>3 DEF SlotsOK, Holds

LEMMA LoseTaskType ==
    ASSUME TypeOK, NEW w \in Slots, ~Holds(w, "idle"), LoseTask(w)
    PROVE  /\ ready' \in [Message -> Nat] /\ dlq' \in [Message -> Nat]
           /\ SlotsOK'
<1>1. /\ slot[w].msg \in Message /\ SlotsOK
      /\ ready \in [Message -> Nat] /\ dlq \in [Message -> Nat]
  BY DEF TypeOK, SlotsOK
<1>2. CASE Release(w)
  <2>1. SlotsOK'
    BY <1>1, <1>2, ReleaseType
  <2> QED
    BY <1>1, <2>1, PutType, RequeueType DEF LoseTask
<1>3. CASE /\ Step(w, "part", PartFor(slot[w].msg, "lost", 0))
           /\ UNCHANGED <<ready, dlq>>
  <2>1. PartFor(slot[w].msg, "lost", 0) \in Part
    BY <1>1, PartForType DEF Reason
  <2>2. SlotsOK'
    BY <1>1, <1>3, <2>1, StepType DEF Busy
  <2> QED
    BY <1>1, <1>3, <2>2
<1> QED
  BY <1>2, <1>3 DEF LoseTask

-----------------------------------------------------------------------------
LEMMA InitType == Init => TypeOK
<1> SUFFICES ASSUME Init PROVE TypeOK
  OBVIOUS
<1>1. slot = [w \in Slots |-> Idle]
  BY DEF Init
<1>2. SlotsOK
  BY <1>1, IdleType DEF SlotsOK, Holds
<1>3. /\ ready \in [Message -> Nat] /\ dlq \in [Message -> Nat]
      /\ attempts \in [Docs \cup {Unknown} -> Nat]
      /\ losses \in Nat /\ timeouts \in Nat /\ hits = {}
  BY DEF Init
<1>4. bodies \in Seq(SUBSET Part)
  BY DEF Init
<1>5. /\ join \subseteq Part /\ dropped \subseteq Docs
      /\ sized \in BOOLEAN /\ chordFailed \in BOOLEAN
  BY DEF Init
<1> QED
  BY <1>2, <1>3, <1>4, <1>5 DEF TypeOK

(* The variables a step leaves alone keep their types.                     *)
LEMMA FrameType ==
    ASSUME TypeOK,
           ready' \in [Message -> Nat], dlq' \in [Message -> Nat], SlotsOK',
           join' \subseteq Part, sized' \in BOOLEAN,
           bodies' \in Seq(SUBSET Part), chordFailed' \in BOOLEAN,
           attempts' \in [Docs \cup {Unknown} -> Nat],
           dropped' \subseteq Docs, losses' \in Nat, timeouts' \in Nat,
           hits' \subseteq {"published", "escape"}, timeouts' = 0 => hits' = {}
    PROVE  TypeOK'
  BY DEF TypeOK

LEMMA StepPreservesType ==
    ASSUME TypeOK, [Next]_vars
    PROVE  TypeOK'
<1>0. /\ ready \in [Message -> Nat] /\ dlq \in [Message -> Nat] /\ SlotsOK
      /\ join \subseteq Part /\ sized \in BOOLEAN
      /\ bodies \in Seq(SUBSET Part) /\ chordFailed \in BOOLEAN
      /\ attempts \in [Docs \cup {Unknown} -> Nat]
      /\ dropped \subseteq Docs /\ losses \in Nat /\ timeouts \in Nat
      /\ hits \subseteq {"published", "escape"} /\ (timeouts = 0 => hits = {})
  BY DEF TypeOK
<1>a. ASSUME NEW w \in Slots, ~Holds(w, "idle")
      PROVE  slot[w].msg \in Message
  BY <1>0, <1>a DEF SlotsOK
<1>b. NoPart \in Part \cup {NoPart}
  OBVIOUS
<1>1. ASSUME NEW w \in Slots, NEW m \in Message, Deliver(w, m)
      PROVE  TypeOK'
  <2>1. SlotsOK'
    BY <1>0, <1>1, TakeOnType DEF Deliver
  <2> QED
    BY <1>0, <1>1, <2>1, TakeType, FrameType DEF Deliver
<1>2. ASSUME NEW w \in Slots, RunFetch(w) PROVE TypeOK'
  <2>1. slot[w].msg \in Message /\ ~Holds(w, "idle")
    BY <1>2, <1>a DEF RunFetch, Holds
  <2>2. PartFor(slot[w].msg, "return", 1) \in Part
    BY <2>1, PartForType DEF Reason, BodyOutcome
  <2>3. SlotsOK'
    BY <1>0, <1>2, <2>1, <2>2, StepType DEF RunFetch, Busy
  <2> QED
    BY <1>0, <1>2, <2>3, FrameType DEF RunFetch
<1>3. ASSUME NEW w \in Slots, EnterParse(w), SlotsOK',
             ready' \in [Message -> Nat], dlq' \in [Message -> Nat]
      PROVE  TypeOK'
  <2>1. attempts' \in [Docs \cup {Unknown} -> Nat]
    BY <1>0, <1>3, <1>a, AttemptType DEF EnterParse, Holds
  <2> QED
    BY <1>0, <1>3, <2>1, FrameType DEF EnterParse
<1>4. ASSUME NEW w \in Slots, ParseEnds(w) PROVE TypeOK'
  <2>1. slot[w].msg \in Message /\ ~Holds(w, "idle")
    BY <1>4, <1>a DEF ParseEnds, EnterParse, Holds
  <2>2. PartFor(slot[w].msg, Outcome(slot[w].msg), Attempt(slot[w].msg)) \in Part
    BY <1>4, <2>1, PartForType, OutcomeType, AttemptType DEF ParseEnds
  <2>3. SlotsOK'
    BY <1>0, <1>4, <2>1, <2>2, StepType DEF ParseEnds, Busy
  <2> QED
    BY <1>0, <1>3, <1>4, <2>3 DEF ParseEnds
<1>5. ASSUME NEW w \in Slots, ParseRetries(w) PROVE TypeOK'
  <2>1. /\ ~Holds(w, "idle") /\ slot[w].msg.retries < MaxRetries
        /\ slot[w].msg.task = "parse"
    BY <1>5 DEF ParseRetries, EnterParse, Holds, Retries
  <2>2. SlotsOK'
    BY <1>0, <1>5, <1>b, <2>1, StepType DEF ParseRetries, Busy
  <2> QED
    BY <1>0, <1>3, <1>5, <2>2 DEF ParseRetries
<1>6. ASSUME NEW w \in Slots, ParseKilled(w) PROVE TypeOK'
  <2>1. ~Holds(w, "idle")
    BY <1>6 DEF ParseKilled, EnterParse, Holds
  <2> QED
    BY <1>3, <1>6, <2>1, LoseTaskType DEF ParseKilled
<1>7. ASSUME NEW w \in Slots, Lose(w) PROVE TypeOK'
  <2>1. ~Holds(w, "idle")
    BY <1>7, ChordHeaderAssumption
       DEF Lose, Holds, Busy, ChordHeaderAssumption
  <2>2. /\ ready' \in [Message -> Nat] /\ dlq' \in [Message -> Nat]
        /\ SlotsOK'
    BY <1>7, <2>1, LoseTaskType DEF Lose
  <2>3. losses' \in Nat
    BY <1>0, <1>7 DEF Lose
  <2> QED
    BY <1>0, <1>7, <2>2, <2>3, FrameType DEF Lose
<1>8. ASSUME NEW w \in Slots, slot[w].msg \in Message, MayHaveEntered(w)
      PROVE  attempts' \in [Docs \cup {Unknown} -> Nat]
  <2>1. DocId(slot[w].msg) \in Docs \cup {Unknown}
    BY <1>8, AttemptType
  <2>2. \/ attempts' = attempts
        \/ attempts' = [attempts EXCEPT ![DocId(slot[w].msg)] = @ + 1]
    BY <1>8 DEF MayHaveEntered
  <2>3. attempts \in [Docs \cup {Unknown} -> Nat]
    BY <1>0
  <2> QED
    BY <2>1, <2>2, <2>3
<1>20. ASSUME NEW w \in Slots, SoftLimit(w) PROVE TypeOK'
  <2>1. slot[w].msg \in Message /\ ~Holds(w, "idle")
    BY <1>20, <1>a DEF SoftLimit, Holds
  <2>2. PartFor(slot[w].msg, "soft", 0) \in Part
    BY <2>1, PartForType DEF Reason, BodyOutcome
  <2>3. SlotsOK'
    BY <1>0, <1>20, <2>1, <2>2, StepType DEF SoftLimit, Busy
  <2>4. attempts' \in [Docs \cup {Unknown} -> Nat]
    BY <1>8, <1>20, <2>1 DEF SoftLimit
  <2>5. /\ timeouts' \in Nat /\ timeouts' # 0
        /\ hits' \subseteq {"published", "escape"}
    BY <1>0, <1>20 DEF SoftLimit
  <2> QED
    BY <1>0, <1>20, <2>3, <2>4, <2>5, FrameType DEF SoftLimit
<1>21. ASSUME NEW w \in Slots, LimitEscapes(w) PROVE TypeOK'
  <2>1. slot[w].msg \in Message /\ ~Holds(w, "idle")
    BY <1>21, <1>a DEF LimitEscapes, Holds, SafePoints
  <2>2. PartFor(slot[w].msg, "limit", 0) \in Part
    BY <2>1, PartForType DEF Reason
  <2>3. SlotsOK'
    BY <1>0, <1>21, <2>1, <2>2, StepType DEF LimitEscapes, Busy
  <2>4. attempts' \in [Docs \cup {Unknown} -> Nat]
    BY <1>8, <1>21, <2>1 DEF LimitEscapes
  <2>5. /\ timeouts' \in Nat /\ timeouts' # 0
        /\ hits' \subseteq {"published", "escape"}
    BY <1>0, <1>21 DEF LimitEscapes
  <2> QED
    BY <1>0, <1>21, <2>3, <2>4, <2>5, FrameType DEF LimitEscapes
<1>9. ASSUME NEW w \in Slots, PublishRetry(w) PROVE TypeOK'
  <2>1. /\ slot[w].msg \in Message /\ ~Holds(w, "idle")
        /\ slot[w].msg.retries < MaxRetries /\ slot[w].msg.task = "parse"
    BY <1>0, <1>9, <1>a DEF PublishRetry, Holds, SlotsOK
  <2>2. ready' \in [Message -> Nat]
    BY <1>0, <1>9, <2>1, NextMessageType, PutType DEF PublishRetry
  <2>3. SlotsOK'
    BY <1>0, <1>9, <1>b, <2>1, StepType DEF PublishRetry, Busy
  <2> QED
    BY <1>0, <1>9, <2>2, <2>3, FrameType DEF PublishRetry
<1>22. ASSUME NEW w \in Slots, RaiseRetry(w) PROVE TypeOK'
  <2>1. ~Holds(w, "idle")
    BY <1>22 DEF RaiseRetry, Holds
  <2>2. SlotsOK'
    BY <1>0, <1>22, <1>b, <2>1, StepType DEF RaiseRetry, Busy
  <2> QED
    BY <1>0, <1>22, <2>2, FrameType DEF RaiseRetry
<1>10. ASSUME NEW w \in Slots, PublishParse(w) PROVE TypeOK'
  <2>1. /\ slot[w].msg \in Message /\ ~Holds(w, "idle")
        /\ slot[w].out \in Part
    BY <1>0, <1>10, <1>a DEF PublishParse, Holds, SlotsOK
  <2>2. slot[w].msg.doc \in Docs /\ slot[w].out.status \in {"SUCCESS", "FAILURE"}
    BY <2>1 DEF Message, Part
  <2>3. ready' \in [Message -> Nat]
    BY <1>0, <1>10, <2>2, FreshMessageType, PutType DEF PublishParse
  <2>4. SlotsOK'
    BY <1>0, <1>10, <1>b, <2>1, StepType DEF PublishParse, Busy
  <2> QED
    BY <1>0, <1>10, <2>3, <2>4, FrameType DEF PublishParse
<1>11. ASSUME NEW w \in Slots, PartReturn(w) PROVE TypeOK'
  <2>1. ~Holds(w, "idle") /\ slot[w].out \in Part
    BY <1>0, <1>11 DEF PartReturn, Holds, SlotsOK
  <2>2. join' \subseteq Part
    BY <1>0, <1>11, <2>1 DEF PartReturn
  <2>3. PICK pc \in {"fire", "ack"} : Step(w, pc, NoPart)
    BY <1>11 DEF PartReturn
  <2>4. SlotsOK'
    BY <1>0, <1>b, <2>1, <2>3, StepType DEF Busy
  <2> QED
    BY <1>0, <1>11, <2>2, <2>4, FrameType DEF PartReturn
<1>12. ASSUME NEW w \in Slots, FireBody(w) PROVE TypeOK'
  <2>1. ~Holds(w, "idle")
    BY <1>12 DEF FireBody, Holds
  <2>2. PICK pc \in {"ack", "cleanup"} : Step(w, pc, NoPart)
    BY <1>12 DEF FireBody
  <2>3. SlotsOK'
    BY <1>0, <1>b, <2>1, <2>2, StepType DEF Busy
  <2>4. Append(bodies, join) \in Seq(SUBSET Part)
    BY <1>0, AppendProperties
  <2>5. bodies' \in Seq(SUBSET Part) /\ chordFailed' \in BOOLEAN
    BY <1>0, <1>12, <2>4 DEF FireBody
  <2> QED
    BY <1>0, <1>12, <2>3, <2>5, FrameType DEF FireBody
<1>13. ASSUME NEW w \in Slots, DeleteKeys(w) PROVE TypeOK'
  <2>1. ~Holds(w, "idle")
    BY <1>13 DEF DeleteKeys, Holds
  <2>2. SlotsOK'
    BY <1>0, <1>13, <1>b, <2>1, StepType DEF DeleteKeys, Busy
  <2> QED
    BY <1>0, <1>13, <2>2, FrameType DEF DeleteKeys
<1>14. ASSUME NEW w \in Slots, Ack(w) PROVE TypeOK'
  BY <1>0, <1>14, ReleaseType, FrameType DEF Ack
<1>15. ASSUME NEW w \in Slots, NEW m \in Message, DrainGet(w, m)
       PROVE  TypeOK'
  <2>1. SlotsOK'
    BY <1>0, <1>15, TakeOnType DEF DrainGet
  <2> QED
    BY <1>0, <1>15, <2>1, TakeType, FrameType DEF DrainGet
<1>16. ASSUME NEW w \in Slots, FinalizeDlq(w) PROVE TypeOK'
  <2>1. slot[w].msg \in Message /\ ~Holds(w, "idle")
    BY <1>16, <1>a DEF FinalizeDlq, Holds
  <2>2. PartFor(slot[w].msg, "dlq", 0) \in Part
    BY <2>1, PartForType DEF Reason
  <2>3. SlotsOK'
    BY <1>0, <1>16, <2>1, <2>2, StepType, ReleaseType DEF FinalizeDlq, Busy
  <2>4. dropped' \subseteq Docs
    BY <1>0, <1>16, <2>1 DEF FinalizeDlq, Message
  <2> QED
    BY <1>0, <1>16, <2>3, <2>4, FrameType DEF FinalizeDlq
<1>18. ASSUME NEW w \in Slots, Disconnect(w) PROVE TypeOK'
  <2>1. slot[w].msg \in Message
    BY <1>18, <1>a, ChordHeaderAssumption
       DEF Disconnect, Holds, Busy, ChordHeaderAssumption
  <2>2. ready' \in [Message -> Nat] /\ dlq' \in [Message -> Nat]
    BY <1>0, <1>18, <2>1, RequeueType DEF Disconnect
  <2>3. SlotsOK'
    BY <1>0, <1>18, DetachType DEF Disconnect
  <2>4. losses' \in Nat
    BY <1>0, <1>18 DEF Disconnect
  <2> QED
    BY <1>0, <1>18, <2>2, <2>3, <2>4, FrameType DEF Disconnect
<1>19. ASSUME NEW w \in Slots, Cancelled(w) PROVE TypeOK'
  BY <1>0, <1>19, ReleaseType, FrameType DEF Cancelled
<1>17. CASE Rest \/ UNCHANGED vars
  <2>1. SlotsOK'
    BY <1>0, <1>17 DEF Rest, vars, SlotsOK, Holds
  <2> QED
    BY <1>0, <1>17, <2>1, FrameType DEF Rest, vars
<1> QED
  BY <1>1, <1>2, <1>4, <1>5, <1>6, <1>7, <1>8, <1>9, <1>10, <1>11, <1>12,
     <1>13, <1>14, <1>15, <1>16, <1>17, <1>18, <1>19, <1>20, <1>21, <1>22
     DEF Next, Progress, Dispatch

(* Every variable keeps its type, wherever a slot is lost.                 *)
THEOREM TypeCorrect == Spec => []TypeOK
  BY InitType, StepPreservesType, PTL DEF Spec

-----------------------------------------------------------------------------
(* What a limit has met is not forgotten.                                  *)
LEMMA HitsGrow ==
    ASSUME [Next]_vars
    PROVE  hits \subseteq hits'
<1>1. ASSUME NEW w \in Slots, Progress(w)
      PROVE  hits' = hits
  BY <1>1 DEF Progress, RunFetch, ParseEnds, ParseRetries, ParseKilled,
     EnterParse, PublishRetry, RaiseRetry, PublishParse, PartReturn, FireBody,
     DeleteKeys, Ack, FinalizeDlq
<1>2. ASSUME NEW w \in Slots, Dispatch(w)
      PROVE  hits' = hits
  BY <1>2 DEF Dispatch, Deliver, DrainGet
<1>3. ASSUME NEW w \in Slots, SoftLimit(w) \/ LimitEscapes(w)
      PROVE  hits \subseteq hits'
  BY <1>3 DEF SoftLimit, LimitEscapes
<1>4. ASSUME NEW w \in Slots, Lose(w) \/ Disconnect(w) \/ Cancelled(w)
      PROVE  hits' = hits
  BY <1>4 DEF Lose, Disconnect, Cancelled
<1>5. Rest \/ UNCHANGED vars => hits' = hits
  BY DEF Rest, vars
<1> QED
  BY <1>1, <1>2, <1>3, <1>4, <1>5 DEF Next

(* No FAILURE state.  Inductively: none in the slots, none among the chord *)
(* parts.                                                                  *)
Covered ==
    Enveloped /\ (AcksLate \/ losses = 0) /\ "escape" \notin hits

StateInv ==
    Covered =>
        /\ ~chordFailed
        /\ \A p \in join : p.state = "SUCCESS"
        /\ \A w \in Slots : slot[w].out.state = "SUCCESS"

LEMMA StateOfPart ==
    ASSUME Enveloped, NEW m \in Message, NEW reason \in Reason \ {"lost", "limit"},
           NEW n \in Nat
    PROVE  PartFor(m, reason, n).state = "SUCCESS"
  BY PartForType DEF CeleryState

(* Before fm2 no schedule has an entry that kills the worker.              *)
LEMMA NoKillBeforeAcksLate ==
    ASSUME ~AcksLate, NEW m \in Message
    PROVE  Outcome(m) # "kill"
<1>1. ~DeadLetters /\ ~Retryable /\ ~TimeLimits
  BY TaskExitAssumption
     DEF TaskExitAssumption, AcksLate, DeadLetters, Retryable, TimeLimits
<1>2. m.doc \in Docs
  BY DEF Message
<1>3. Schedule[m.doc].kind \in {"NONE", "FAIL"}
  BY <1>1, <1>2, ChordHeaderAssumption DEF ChordHeaderAssumption, KnownKinds
<1>4. ParseOutcome(Schedule[m.doc], Attempt(m)) # "kill"
  BY <1>3 DEF ParseOutcome, IsKilled, IsTransient
<1> QED
  BY <1>4 DEF Outcome

LEMMA OutStep ==
    ASSUME TypeOK, NEW w \in Slots, NEW pc, NEW out,
           \/ Step(w, pc, out) /\ out.state = "SUCCESS"
           \/ Release(w)
           \/ slot' = [slot EXCEPT ![w].mode = "detached"]
           \/ \E m, c, b : slot' = [slot EXCEPT ![w] =
                   [pc |-> c, msg |-> m, out |-> NoPart, mode |-> b]],
           \A v \in Slots : slot[v].out.state = "SUCCESS"
    PROVE  \A v \in Slots : slot'[v].out.state = "SUCCESS"
<1>1. slot \in [Slots -> Slot]
  BY DEF TypeOK, SlotsOK
<1>2. slot'[w].out.state = "SUCCESS"
  BY <1>1 DEF Step, Release, Idle, NoPart, Slot
<1>3. \A v \in Slots \ {w} : slot'[v] = slot[v]
  BY <1>1 DEF Step, Release
<1> QED
  BY <1>2, <1>3

LEMMA StateInvStep ==
    ASSUME TypeOK, StateInv, [Next]_vars
    PROVE  StateInv'
<1>0. losses \in Nat /\ slot \in [Slots -> Slot]
  BY DEF TypeOK, SlotsOK
<1> SUFFICES ASSUME Covered'
             PROVE  /\ ~chordFailed'
                    /\ \A p \in join' : p.state = "SUCCESS"
                    /\ \A w \in Slots : slot'[w].out.state = "SUCCESS"
  BY DEF StateInv
<1>a. "escape" \notin hits
  BY HitsGrow DEF Covered
<1>b. NoPart.state = "SUCCESS"
  BY DEF NoPart
<1>c. ASSUME losses' = losses
      PROVE  /\ Enveloped /\ ~chordFailed
             /\ \A p \in join : p.state = "SUCCESS"
             /\ \A w \in Slots : slot[w].out.state = "SUCCESS"
  BY <1>a, <1>c DEF StateInv, Covered, Enveloped, AcksLate
<1>d. ASSUME NEW w \in Slots, ~Holds(w, "idle")
      PROVE  slot[w].msg \in Message
  BY <1>d DEF TypeOK, SlotsOK
(* What most steps do: store nothing, and give one slot a good result.     *)
<1>e. ASSUME NEW w \in Slots, NEW pc, NEW out,
             Step(w, pc, out) \/ Release(w), out.state = "SUCCESS",
             UNCHANGED <<join, chordFailed, losses>>
      PROVE  /\ ~chordFailed'
             /\ \A p \in join' : p.state = "SUCCESS"
             /\ \A v \in Slots : slot'[v].out.state = "SUCCESS"
  BY <1>c, <1>e, OutStep
<1>1. ASSUME NEW w \in Slots, NEW m \in Message,
             Deliver(w, m) \/ DrainGet(w, m)
      PROVE  StateInv'
  <2>1. UNCHANGED <<join, chordFailed, losses>>
    BY <1>1 DEF Deliver, DrainGet
  <2>2. \E n, c, b : slot' = [slot EXCEPT ![w] =
                   [pc |-> c, msg |-> n, out |-> NoPart, mode |-> b]]
    BY <1>1 DEF Deliver, DrainGet
  <2>3. \A v \in Slots : slot'[v].out.state = "SUCCESS"
    BY <1>c, <2>1, <2>2, OutStep
  <2> QED
    BY <1>c, <2>1, <2>3 DEF StateInv
<1>2. ASSUME NEW w \in Slots, RunFetch(w) PROVE StateInv'
  <2>1. slot[w].msg \in Message /\ Enveloped
    BY <1>2, <1>c, <1>d DEF RunFetch, Holds
  <2>2. PartFor(slot[w].msg, "return", 1).state = "SUCCESS"
    BY <2>1, StateOfPart DEF Reason, BodyOutcome
  <2> QED
    BY <1>2, <1>e, <2>2 DEF RunFetch, StateInv
<1>3. ASSUME NEW w \in Slots, ParseEnds(w) PROVE StateInv'
  <2>1. slot[w].msg \in Message /\ Enveloped
    BY <1>3, <1>c, <1>d DEF ParseEnds, EnterParse, Holds
  <2>2. Outcome(slot[w].msg) \in Reason \ {"lost", "limit"}
    <3>1. Outcome(slot[w].msg) \notin {"lost", "limit"}
      BY DEF Outcome, ParseOutcome
    <3> QED
      BY <1>3, <2>1, <3>1, OutcomeType DEF ParseEnds
  <2>3. Attempt(slot[w].msg) \in Nat
    BY <2>1, AttemptType
  <2>4. PartFor(slot[w].msg, Outcome(slot[w].msg),
                Attempt(slot[w].msg)).state = "SUCCESS"
    BY <2>1, <2>2, <2>3, StateOfPart
  <2> QED
    BY <1>3, <1>e, <2>4 DEF ParseEnds, EnterParse, StateInv
<1>4. ASSUME NEW w \in Slots,
             \/ ParseRetries(w) \/ PublishRetry(w) \/ RaiseRetry(w)
             \/ PublishParse(w) \/ Ack(w)
      PROVE  StateInv'
  BY <1>4, <1>b, <1>e
     DEF ParseRetries, EnterParse, PublishRetry, RaiseRetry, PublishParse, Ack,
         StateInv
<1>5. ASSUME NEW w \in Slots, LoseTask(w), AcksLate,
             UNCHANGED <<join, chordFailed>>
      PROVE  StateInv'
  <2>1. Release(w)
    BY <1>5 DEF LoseTask
  <2>2. /\ ~chordFailed /\ \A p \in join : p.state = "SUCCESS"
        /\ \A v \in Slots : slot[v].out.state = "SUCCESS"
    BY <1>a, <1>5 DEF StateInv, Covered, Enveloped, AcksLate
  <2> QED
    BY <1>5, <2>1, <2>2, OutStep DEF StateInv
<1>6. ASSUME NEW w \in Slots, ParseKilled(w) PROVE StateInv'
  <2>1. AcksLate
    BY <1>6, <1>d, NoKillBeforeAcksLate DEF ParseKilled, EnterParse, Holds
  <2> QED
    BY <1>5, <1>6, <2>1 DEF ParseKilled, EnterParse
<1>7. ASSUME NEW w \in Slots, Lose(w) PROVE StateInv'
  <2>1. losses' # 0
    BY <1>0, <1>7 DEF Lose
  <2>2. AcksLate
    BY <2>1 DEF Covered
  <2> QED
    BY <1>5, <1>7, <2>2 DEF Lose
<1>8. ASSUME NEW w \in Slots, SoftLimit(w) PROVE StateInv'
  <2>1. slot[w].msg \in Message /\ Enveloped
    BY <1>8, <1>c, <1>d DEF SoftLimit, Holds
  <2>2. PartFor(slot[w].msg, "soft", 0).state = "SUCCESS"
    BY <2>1, StateOfPart DEF Reason, BodyOutcome
  <2> QED
    BY <1>8, <1>e, <2>2 DEF SoftLimit, StateInv
<1>16. ASSUME NEW w \in Slots, LimitEscapes(w) PROVE StateInv'
  BY <1>16 DEF LimitEscapes, StateInv, Covered
<1>9. ASSUME NEW w \in Slots, PartReturn(w) PROVE StateInv'
  <2>1. PICK pc : Step(w, pc, NoPart)
    BY <1>9 DEF PartReturn
  <2>2. losses' = losses /\ chordFailed' = chordFailed
        /\ join' = join \cup {slot[w].out}
    BY <1>9 DEF PartReturn
  <2> QED
    BY <1>b, <1>c, <2>1, <2>2, OutStep DEF StateInv
<1>10. ASSUME NEW w \in Slots, FireBody(w) PROVE StateInv'
  <2>1. losses' = losses /\ join' = join
    BY <1>10 DEF FireBody
  <2>2. chordFailed' = chordFailed
    BY <1>10, <1>c, <2>1 DEF FireBody
  <2>3. PICK pc : Step(w, pc, NoPart)
    BY <1>10 DEF FireBody
  <2> QED
    BY <1>b, <1>e, <2>1, <2>2, <2>3 DEF StateInv
<1>11. ASSUME NEW w \in Slots, DeleteKeys(w) PROVE StateInv'
  <2>1. /\ losses' = losses /\ join' = {} /\ chordFailed' = chordFailed
        /\ Step(w, "ack", NoPart)
    BY <1>11 DEF DeleteKeys
  <2> QED
    BY <1>b, <1>c, <2>1, OutStep DEF StateInv
<1>12. ASSUME NEW w \in Slots, FinalizeDlq(w) PROVE StateInv'
  <2>1. slot[w].msg \in Message /\ Enveloped
    BY <1>12, <1>c, <1>d DEF FinalizeDlq, Holds
  <2>2. PartFor(slot[w].msg, "dlq", 0).state = "SUCCESS"
    BY <2>1, StateOfPart DEF Reason
  <2> QED
    BY <1>b, <1>12, <1>e, <2>2 DEF FinalizeDlq, StateInv
<1>14. ASSUME NEW w \in Slots, Cancelled(w) PROVE StateInv'
  BY <1>14, <1>b, <1>e DEF Cancelled, StateInv
<1>15. ASSUME NEW w \in Slots, Disconnect(w) PROVE StateInv'
  <2>1. /\ AcksLate /\ UNCHANGED <<join, chordFailed>>
        /\ slot' = [slot EXCEPT ![w].mode = "detached"]
    BY <1>15 DEF Disconnect
  <2>2. /\ ~chordFailed /\ \A p \in join : p.state = "SUCCESS"
        /\ \A v \in Slots : slot[v].out.state = "SUCCESS"
    BY <1>a, <2>1 DEF StateInv, Covered, Enveloped, AcksLate
  <2> QED
    BY <2>1, <2>2, OutStep DEF StateInv
<1>13. CASE Rest \/ UNCHANGED vars
  BY <1>c, <1>13 DEF Rest, vars, StateInv
<1> QED
  BY <1>1, <1>2, <1>3, <1>4, <1>6, <1>7, <1>8, <1>9, <1>10, <1>11, <1>12,
     <1>13, <1>14, <1>15, <1>16 DEF Next, Progress, Dispatch, StateInv

(* ChordError takes the place of notify only after a loss, acknowledged    *)
(* early, or a limit of which no envelope was made.                        *)
THEOREM ChordFailsByLimit == Spec => []NoChordError
<1>1. Init => StateInv
  BY DEF Init, StateInv, Idle, NoPart
<1>2. StateInv => NoChordError
  BY DEF StateInv, Covered, NoChordError
<1> QED
  BY <1>1, <1>2, StateInvStep, TypeCorrect, PTL DEF Spec

-----------------------------------------------------------------------------
(* No document is lost track of.  The invariant adds that a result to be   *)
(* stored is the one of the slot's own document, and that the chord's keys *)
(* are deleted only after notify was published.                            *)
TrackInv ==
    /\ \A w \in Slots : Holds(w, "part") => slot[w].out.doc = slot[w].msg.doc
    /\ \A w \in Slots : Holds(w, "cleanup") => bodies # <<>>
    /\ Accounted

LEMMA PutGrows ==
    ASSUME NEW q \in [Message -> Nat], NEW m \in Message
    PROVE  Put(q, m)[m] > 0 /\ \A n \in Message : q[n] > 0 => Put(q, m)[n] > 0
  BY DEF Put

(* A step of slot w that keeps what is queued, joined and dropped keeps    *)
(* every document in sight but the one it holds, for which the caller has  *)
(* to answer.                                                              *)
LEMMA TrackedStep ==
    ASSUME TypeOK, NEW w \in Slots, NEW d \in Docs, Tracked(d),
           \A v \in Slots \ {w} : slot'[v] = slot[v],
           \A m \in Message : ready[m] > 0 => ready'[m] > 0,
           \A m \in Message : dlq[m] > 0 => dlq'[m] > 0,
           join \subseteq join', dropped \subseteq dropped',
           Carries(w, d) => Tracked(d)'
    PROVE  Tracked(d)'
<1>1. CASE Queued(d)
  BY <1>1 DEF Tracked, Queued
<1>2. CASE InHand(d)
  BY <1>2 DEF Tracked, InHand, Carries
<1>3. CASE Joined(d) \/ d \in dropped
  BY <1>3 DEF Tracked, Joined
<1> QED
  BY <1>1, <1>2, <1>3 DEF Tracked

(* The same for a slot that takes a message on.                            *)
LEMMA TrackedTakeOn ==
    ASSUME TypeOK, NEW w \in Slots, NEW m \in Message, NEW d \in Docs,
           Tracked(d), Holds(w, "idle"),
           slot'[w].pc \in SafePoints, slot'[w].msg = m,
           slot'[w].mode # "detached",
           \A v \in Slots \ {w} : slot'[v] = slot[v],
           \A n \in Message \ {m} : ready'[n] = ready[n] /\ dlq'[n] = dlq[n],
           join' = join, dropped' = dropped
    PROVE  Tracked(d)'
<1>1. CASE m.doc = d
  BY <1>1 DEF Tracked, InHand, Carries
<1>2. CASE m.doc # d /\ Queued(d)
  BY <1>2 DEF Tracked, Queued
<1>3. CASE InHand(d)
  <2>1. PICK v \in Slots : Carries(v, d)
    BY <1>3 DEF InHand
  <2>2. v # w
    BY <2>1 DEF Carries, Holds, SafePoints
  <2> QED
    BY <2>1, <2>2 DEF Tracked, InHand, Carries
<1>4. CASE Joined(d) \/ d \in dropped
  BY <1>4 DEF Tracked, Joined
<1> QED
  BY <1>1, <1>2, <1>3, <1>4 DEF Tracked

LEMMA StepEffect ==
    ASSUME TypeOK, NEW w \in Slots, NEW pc, NEW out, Step(w, pc, out)
    PROVE  /\ slot'[w].pc = pc /\ slot'[w].out = out
           /\ slot'[w].msg = slot[w].msg /\ slot'[w].mode = slot[w].mode
           /\ \A v \in Slots \ {w} : slot'[v] = slot[v]
<1>1. slot \in [Slots -> Slot]
  BY DEF TypeOK, SlotsOK
<1> QED
  BY <1>1 DEF Step, Slot

LEMMA ReleaseEffect ==
    ASSUME TypeOK, NEW w \in Slots, Release(w)
    PROVE  /\ slot'[w].pc = "idle"
           /\ \A v \in Slots \ {w} : slot'[v] = slot[v]
<1>1. slot \in [Slots -> Slot]
  BY DEF TypeOK, SlotsOK
<1> QED
  BY <1>1 DEF Release, Idle

(* A message the broker takes back is in one of the queues.                *)
LEMMA RequeueKeeps ==
    ASSUME TypeOK, NEW m \in Message, Requeue(m), NEW d, m.doc = d
    PROVE  /\ \A n \in Message : ready[n] > 0 => ready'[n] > 0
           /\ \A n \in Message : dlq[n] > 0 => dlq'[n] > 0
           /\ Queued(d)'
<1>0. ready \in [Message -> Nat] /\ dlq \in [Message -> Nat]
  BY DEF TypeOK
<1>2. CASE ready' = Put(ready, m) /\ UNCHANGED dlq
  BY <1>0, <1>2, PutGrows DEF Queued
<1>4. CASE /\ m.deliveries < DeliveryLimit
           /\ ready' = Put(ready, [m EXCEPT !.deliveries = @ + 1])
           /\ UNCHANGED dlq
  <2> DEFINE n == [m EXCEPT !.deliveries = @ + 1]
  <2>1. n \in Message /\ n.doc = d
    <3>1. n \in Message
      BY <1>4, NextMessageType
    <3>2. n.doc = d
      BY DEF Message
    <3> QED
      BY <3>1, <3>2
  <2> HIDE DEF n
  <2>2. ready' = Put(ready, n)
    BY <1>4 DEF n
  <2>3. ready'[n] > 0 /\ \A k \in Message : ready[k] > 0 => ready'[k] > 0
    BY <1>0, <2>1, <2>2, PutGrows
  <2>4. Queued(d)'
    BY <2>1, <2>3 DEF Queued
  <2> QED
    BY <1>4, <2>3, <2>4
<1>5. CASE dlq' = Put(dlq, [m EXCEPT !.deliveries = 0]) /\ UNCHANGED ready
  <2> DEFINE n == [m EXCEPT !.deliveries = 0]
  <2>1. n \in Message /\ n.doc = d
    <3>1. n \in Message
      BY NextMessageType
    <3>2. n.doc = d
      BY DEF Message
    <3> QED
      BY <3>1, <3>2
  <2> HIDE DEF n
  <2>2. dlq' = Put(dlq, n)
    BY <1>5 DEF n
  <2>3. dlq'[n] > 0 /\ \A k \in Message : dlq[k] > 0 => dlq'[k] > 0
    BY <1>0, <2>1, <2>2, PutGrows
  <2>4. Queued(d)'
    BY <2>1, <2>3 DEF Queued
  <2> QED
    BY <1>5, <2>3, <2>4
<1> QED
  BY <1>2, <1>4, <1>5 DEF Requeue

(* A lost task is back in a queue, unless its message was before.          *)
LEMMA LoseTaskKeeps ==
    ASSUME TypeOK, AcksLate, NEW w \in Slots, NEW m \in Message,
           slot[w].msg = m, LoseTask(w), NEW d, m.doc = d
    PROVE  /\ Release(w)
           /\ \A n \in Message : ready[n] > 0 => ready'[n] > 0
           /\ \A n \in Message : dlq[n] > 0 => dlq'[n] > 0
           /\ slot[w].mode # "detached" => Queued(d)'
<1>0. ready \in [Message -> Nat] /\ dlq \in [Message -> Nat]
  BY DEF TypeOK
<1>1. Release(w)
  BY DEF LoseTask
<1>2. CASE dlq' = Put(dlq, m) /\ UNCHANGED ready
  BY <1>0, <1>1, <1>2, PutGrows DEF Queued
<1>3. CASE Requeue(m)
  BY <1>1, <1>3, RequeueKeeps
<1>4. CASE slot[w].mode = "detached" /\ UNCHANGED <<ready, dlq>>
  BY <1>1, <1>4
<1> QED
  BY <1>2, <1>3, <1>4 DEF LoseTask

LEMMA TrackInvFrom ==
    ASSUME TypeOK, TrackInv, NEW w \in Slots,
           \A v \in Slots \ {w} : slot'[v] = slot[v],
           slot'[w].pc = "part" => slot'[w].out.doc = slot'[w].msg.doc,
           bodies # <<>> => bodies' # <<>>,
           slot'[w].pc = "cleanup" => bodies' # <<>>,
           AcksLate /\ bodies = <<>> =>
             bodies' # <<>> \/ \A d \in Docs : Tracked(d) => Tracked(d)'
    PROVE  TrackInv'
<1>1. ASSUME NEW v \in Slots, Holds(v, "part")'
      PROVE  slot'[v].out.doc = slot'[v].msg.doc
  BY <1>1 DEF TrackInv, Holds
<1>2. ASSUME NEW v \in Slots, Holds(v, "cleanup")'
      PROVE  bodies' # <<>>
  BY <1>2 DEF TrackInv, Holds
<1>3. Accounted'
  BY DEF TrackInv, Accounted, AcksLate
<1> QED
  BY <1>1, <1>2, <1>3 DEF TrackInv

LEMMA TrackInvStep ==
    ASSUME TypeOK, TrackInv, [Next]_vars
    PROVE  TrackInv'
<1>0. /\ slot \in [Slots -> Slot] /\ ready \in [Message -> Nat]
      /\ dlq \in [Message -> Nat] /\ bodies \in Seq(SUBSET Part)
  BY DEF TypeOK, SlotsOK
<1>a. ASSUME NEW w \in Slots, ~Holds(w, "idle")
      PROVE  slot[w].msg \in Message /\ slot[w].msg.doc \in Docs
  BY <1>a DEF TypeOK, SlotsOK, Message
(* A step that changes one slot only, and does not leave the safe points   *)
(* with it.                                                                *)
<1>b. ASSUME NEW w \in Slots, NEW pc \in SafePoints, NEW out,
             Step(w, pc, out), pc = "part" => out.doc = slot[w].msg.doc,
             UNCHANGED <<ready, dlq, join, bodies, dropped>>
      PROVE  TrackInv'
  <2>1. /\ slot'[w].pc = pc /\ slot'[w].out = out
        /\ slot'[w].msg = slot[w].msg /\ slot'[w].mode = slot[w].mode
        /\ \A v \in Slots \ {w} : slot'[v] = slot[v]
    BY <1>b, StepEffect
  <2>2. ASSUME NEW d \in Docs, Tracked(d)
        PROVE  Tracked(d)'
    <3>1. Carries(w, d) => Tracked(d)'
      BY <2>1, <1>b DEF Tracked, InHand, Carries
    <3> QED
      BY <1>b, <2>1, <2>2, <3>1, TrackedStep
  <2> QED
    BY <1>b, <2>1, <2>2, TrackInvFrom DEF SafePoints
<1>1. ASSUME NEW w \in Slots, NEW m \in Message,
             Deliver(w, m) \/ DrainGet(w, m)
      PROVE  TrackInv'
  <2>1. /\ slot'[w].pc \in {"body", "finalize"} /\ slot'[w].msg = m
        /\ slot'[w].mode # "detached"
        /\ \A v \in Slots \ {w} : slot'[v] = slot[v]
        /\ \A n \in Message \ {m} : ready'[n] = ready[n] /\ dlq'[n] = dlq[n]
    BY <1>0, <1>1 DEF Deliver, DrainGet, Take
  <2>2. Holds(w, "idle") /\ UNCHANGED <<join, dropped, bodies>>
    BY <1>1 DEF Deliver, DrainGet
  <2>3. ASSUME NEW d \in Docs, Tracked(d)
        PROVE  Tracked(d)'
    BY <2>1, <2>2, <2>3, TrackedTakeOn DEF SafePoints
  <2> QED
    BY <2>1, <2>2, <2>3, TrackInvFrom
<1>2. ASSUME NEW w \in Slots, RunFetch(w) PROVE TrackInv'
  BY <1>b, <1>2 DEF RunFetch, SafePoints
<1>3. ASSUME NEW w \in Slots, ParseEnds(w) PROVE TrackInv'
  <2>1. PartFor(slot[w].msg, Outcome(slot[w].msg),
                Attempt(slot[w].msg)).doc = slot[w].msg.doc
    BY DEF PartFor
  <2> QED
    BY <1>b, <1>3, <2>1 DEF ParseEnds, EnterParse, SafePoints
<1>4. ASSUME NEW w \in Slots, ParseRetries(w) PROVE TrackInv'
  BY <1>b, <1>4 DEF ParseRetries, EnterParse, SafePoints
(* A limit makes a part of the document, or sends its envelope on.         *)
<1>5. ASSUME NEW w \in Slots, NEW pc \in {"chain", "part"}, NEW reason,
             Step(w, pc, PartFor(slot[w].msg, reason, 0)),
             UNCHANGED <<ready, dlq, join, bodies, dropped>>
      PROVE  TrackInv'
  <2>1. PartFor(slot[w].msg, reason, 0).doc = slot[w].msg.doc
    BY DEF PartFor
  <2> QED
    BY <1>b, <1>5, <2>1 DEF SafePoints
<1>20. ASSUME NEW w \in Slots, SoftLimit(w) \/ LimitEscapes(w)
       PROVE  TrackInv'
  BY <1>5, <1>20 DEF SoftLimit, LimitEscapes
<1>6. ASSUME NEW w \in Slots, ~Holds(w, "idle"), LoseTask(w),
             UNCHANGED <<join, bodies, dropped>>
      PROVE  TrackInv'
  <2>1. CASE AcksLate
    <3>1. /\ Release(w)
          /\ \A m \in Message : ready[m] > 0 => ready'[m] > 0
          /\ \A m \in Message : dlq[m] > 0 => dlq'[m] > 0
      BY <1>6, <1>a, <2>1, LoseTaskKeeps
    <3>2. ASSUME NEW d \in Docs, Carries(w, d)
          PROVE  Queued(d)'
      BY <1>6, <1>a, <2>1, <3>2, LoseTaskKeeps DEF Carries
    <3>3. /\ slot'[w].pc = "idle"
          /\ \A v \in Slots \ {w} : slot'[v] = slot[v]
      BY <3>1, ReleaseEffect
    <3>4. ASSUME NEW d \in Docs, Tracked(d)
          PROVE  Tracked(d)'
      <4>1. Carries(w, d) => Tracked(d)'
        BY <3>2 DEF Tracked
      <4> QED
        BY <1>6, <3>1, <3>3, <3>4, <4>1, TrackedStep
    <3> QED
      BY <1>6, <3>3, <3>4, TrackInvFrom
  <2>2. CASE ~AcksLate
    <3>1. CASE Release(w)
      BY <1>6, <2>2, <3>1, ReleaseEffect, TrackInvFrom
    <3>2. CASE Step(w, "part", PartFor(slot[w].msg, "lost", 0))
      <4>1. PartFor(slot[w].msg, "lost", 0).doc = slot[w].msg.doc
        BY DEF PartFor
      <4> QED
        BY <1>6, <2>2, <3>2, <4>1, StepEffect, TrackInvFrom
    <3> QED
      BY <1>6, <3>1, <3>2 DEF LoseTask
  <2> QED
    BY <2>1, <2>2
<1>7. ASSUME NEW w \in Slots, ParseKilled(w) \/ Lose(w) PROVE TrackInv'
  <2>1. ~Holds(w, "idle")
    BY <1>7, ChordHeaderAssumption
       DEF ParseKilled, EnterParse, Lose, Holds, Busy, ChordHeaderAssumption
  <2> QED
    BY <1>6, <1>7, <2>1 DEF ParseKilled, EnterParse, Lose
(* Publishing: the document is in the queue instead.                       *)
<1>8. ASSUME NEW w \in Slots, NEW m \in Message, m.doc = slot[w].msg.doc,
             NEW pc \in {"ack", "published"},
             ready' = Put(ready, m), Step(w, pc, NoPart),
             UNCHANGED <<dlq, join, bodies, dropped>>
      PROVE  TrackInv'
  <2>1. ready'[m] > 0 /\ \A n \in Message : ready[n] > 0 => ready'[n] > 0
    BY <1>0, <1>8, PutGrows
  <2>2. /\ slot'[w].pc = pc
        /\ \A v \in Slots \ {w} : slot'[v] = slot[v]
    BY <1>8, StepEffect
  <2>3. ASSUME NEW d \in Docs, Tracked(d)
        PROVE  Tracked(d)'
    <3>1. Carries(w, d) => Tracked(d)'
      BY <1>8, <2>1 DEF Tracked, Queued, Carries
    <3> QED
      BY <1>8, <2>1, <2>2, <2>3, <3>1, TrackedStep
  <2> QED
    BY <1>8, <2>2, <2>3, TrackInvFrom
<1>9. ASSUME NEW w \in Slots, PublishRetry(w) PROVE TrackInv'
  <2> DEFINE m == [slot[w].msg EXCEPT !.retries = @ + 1, !.deliveries = 0]
  <2>1. slot[w].msg \in Message /\ slot[w].msg.retries < MaxRetries
    BY <1>9 DEF PublishRetry, Holds, TypeOK, SlotsOK
  <2>2. m \in Message
    BY <2>1, NextMessageType
  <2>3. m.doc = slot[w].msg.doc
    BY <2>1 DEF Message
  <2> QED
    BY <1>8, <1>9, <2>2, <2>3 DEF PublishRetry
<1>10. ASSUME NEW w \in Slots, PublishParse(w) PROVE TrackInv'
  <2> DEFINE m == ParseMessage(slot[w].msg.doc, slot[w].out.status)
  <2>1. slot[w].msg \in Message /\ slot[w].out \in Part
    BY <1>10 DEF PublishParse, Holds, TypeOK, SlotsOK
  <2>2. slot[w].msg.doc \in Docs /\ slot[w].out.status \in {"SUCCESS", "FAILURE"}
    BY <2>1 DEF Message, Part
  <2>3. m \in Message
    BY <2>2, FreshMessageType
  <2>4. m.doc = slot[w].msg.doc
    BY DEF ParseMessage
  <2> QED
    BY <1>8, <1>10, <2>3, <2>4 DEF PublishParse
<1>11. ASSUME NEW w \in Slots, PartReturn(w) PROVE TrackInv'
  <2>1. /\ slot[w].out.doc = slot[w].msg.doc
        /\ join' = join \cup {slot[w].out}
        /\ UNCHANGED <<ready, dlq, bodies, dropped>>
    BY <1>11 DEF PartReturn, TrackInv
  <2>2. PICK pc \in {"fire", "ack"} : Step(w, pc, NoPart)
    BY <1>11 DEF PartReturn
  <2>3. /\ slot'[w].pc = pc
        /\ \A v \in Slots \ {w} : slot'[v] = slot[v]
    BY <2>2, StepEffect
  <2>4. ASSUME NEW d \in Docs, Tracked(d)
        PROVE  Tracked(d)'
    <3>1. Carries(w, d) => Tracked(d)'
      BY <2>1 DEF Tracked, Joined, Carries
    <3> QED
      BY <2>1, <2>3, <2>4, <3>1, TrackedStep
  <2> QED
    BY <2>1, <2>3, <2>4, TrackInvFrom
(* A step from outside the safe points that keeps what it found.           *)
<1>12. ASSUME NEW w \in Slots, slot[w].pc \notin SafePoints,
              slot'[w].pc \in {"idle", "ack"},
              \A v \in Slots \ {w} : slot'[v] = slot[v],
              UNCHANGED <<ready, dlq, join, bodies, dropped>>
       PROVE  TrackInv'
  <2>1. ASSUME NEW d \in Docs, Tracked(d)
        PROVE  Tracked(d)'
    BY <1>12, <2>1, TrackedStep DEF Carries
  <2> QED
    BY <1>12, <2>1, TrackInvFrom
<1>21. ASSUME NEW w \in Slots, RaiseRetry(w) PROVE TrackInv'
  BY <1>12, <1>21, StepEffect DEF RaiseRetry, Holds, SafePoints
<1>13. ASSUME NEW w \in Slots, FireBody(w) PROVE TrackInv'
  <2>1. slot[w].pc = "fire" /\ UNCHANGED <<ready, dlq, join, dropped>>
    BY <1>13 DEF FireBody, Holds
  <2>2. CASE Step(w, "ack", NoPart) /\ UNCHANGED bodies
    BY <1>12, <2>1, <2>2, StepEffect DEF SafePoints
  <2>3. CASE bodies' = Append(bodies, join) /\ Step(w, "cleanup", NoPart)
    <3>1. bodies' # <<>>
      <4>1. join \in SUBSET Part
        BY DEF TypeOK
      <4> QED
        BY <1>0, <2>3, <4>1, AppendProperties
    <3>2. /\ slot'[w].pc = "cleanup"
          /\ \A v \in Slots \ {w} : slot'[v] = slot[v]
      BY <2>3, StepEffect
    <3> QED
      BY <3>1, <3>2, TrackInvFrom
  <2> QED
    BY <1>13, <2>2, <2>3 DEF FireBody
<1>14. ASSUME NEW w \in Slots, DeleteKeys(w) PROVE TrackInv'
  <2>1. bodies # <<>> /\ bodies' = bodies /\ Step(w, "ack", NoPart)
    BY <1>14 DEF DeleteKeys, TrackInv
  <2> QED
    BY <2>1, StepEffect, TrackInvFrom
<1>15. ASSUME NEW w \in Slots, Ack(w) PROVE TrackInv'
  BY <1>12, <1>15, ReleaseEffect DEF Ack, Holds, SafePoints
<1>16. ASSUME NEW w \in Slots, FinalizeDlq(w) PROVE TrackInv'
  <2>1. CASE Step(w, "part", PartFor(slot[w].msg, "dlq", 0)) /\ UNCHANGED dropped
    <3>1. PartFor(slot[w].msg, "dlq", 0).doc = slot[w].msg.doc
      BY DEF PartFor
    <3> QED
      BY <1>b, <1>16, <2>1, <3>1 DEF FinalizeDlq, SafePoints
  <2>2. CASE dropped' = dropped \cup {slot[w].msg.doc} /\ Release(w)
    <3>1. UNCHANGED <<ready, dlq, join, bodies>>
      BY <1>16 DEF FinalizeDlq
    <3>2. /\ slot'[w].pc = "idle"
          /\ \A v \in Slots \ {w} : slot'[v] = slot[v]
      BY <2>2, ReleaseEffect
    <3>3. ASSUME NEW d \in Docs, Tracked(d)
          PROVE  Tracked(d)'
      <4>1. Carries(w, d) => Tracked(d)'
        BY <2>2 DEF Tracked, Carries
      <4> QED
        BY <2>2, <3>1, <3>2, <3>3, <4>1, TrackedStep
    <3> QED
      BY <3>1, <3>2, <3>3, TrackInvFrom
  <2> QED
    BY <1>16, <2>1, <2>2 DEF FinalizeDlq
(* A detached task's document is queued again; where the task goes from    *)
(* there does not matter.                                                  *)
<1>18. ASSUME NEW w \in Slots, Disconnect(w) PROVE TrackInv'
  <2>1. slot[w].msg \in Message
    BY <1>18, <1>a, ChordHeaderAssumption
       DEF Disconnect, Holds, Busy, ChordHeaderAssumption
  <2>2. /\ slot'[w] = [slot[w] EXCEPT !.mode = "detached"]
        /\ \A v \in Slots \ {w} : slot'[v] = slot[v]
        /\ Requeue(slot[w].msg) /\ UNCHANGED <<join, bodies, dropped>>
    BY <1>0, <1>18 DEF Disconnect
  <2>3. slot'[w].pc = slot[w].pc /\ slot'[w].out = slot[w].out
        /\ slot'[w].msg = slot[w].msg
    BY <1>0, <2>2 DEF Slot
  <2>4. /\ \A n \in Message : ready[n] > 0 => ready'[n] > 0
        /\ \A n \in Message : dlq[n] > 0 => dlq'[n] > 0
    BY <2>1, <2>2, RequeueKeeps
  <2>5. ASSUME NEW d \in Docs, Tracked(d)
        PROVE  Tracked(d)'
    <3>1. Carries(w, d) => Tracked(d)'
      BY <2>1, <2>2, RequeueKeeps DEF Carries, Tracked
    <3> QED
      BY <2>2, <2>4, <2>5, <3>1, TrackedStep
  <2> QED
    BY <2>2, <2>3, <2>5, TrackInvFrom DEF TrackInv, Holds
<1>19. ASSUME NEW w \in Slots, Cancelled(w) PROVE TrackInv'
  <2>1. /\ slot[w].mode = "detached" /\ Release(w)
        /\ UNCHANGED <<ready, dlq, join, bodies, dropped>>
    BY <1>19 DEF Cancelled
  <2>2. ASSUME NEW d \in Docs, Tracked(d)
        PROVE  Tracked(d)'
    BY <2>1, <2>2, ReleaseEffect, TrackedStep DEF Carries
  <2> QED
    BY <2>1, <2>2, ReleaseEffect, TrackInvFrom
<1>17. CASE Rest \/ UNCHANGED vars
  BY <1>17 DEF Rest, vars, TrackInv, Accounted, Tracked, Queued, InHand,
     Carries, Joined, Holds, AcksLate
<1> QED
  BY <1>1, <1>2, <1>3, <1>4, <1>7, <1>9, <1>10, <1>11, <1>13, <1>14,
     <1>15, <1>16, <1>17, <1>18, <1>19, <1>20, <1>21
     DEF Next, Progress, Dispatch

LEMMA TrackInvInit == Init => TrackInv
<1> SUFFICES ASSUME Init PROVE TrackInv
  OBVIOUS
<1>1. ASSUME NEW d \in Docs PROVE Queued(d)
  <2>1. FetchMessage(d) \in Message /\ FetchMessage(d).doc = d
    BY FreshMessageType DEF FetchMessage
  <2>2. ready[FetchMessage(d)] = 1
    BY <2>1 DEF Init
  <2> QED
    BY <2>1, <2>2 DEF Queued
<1>2. \A w \in Slots : slot[w].pc = "idle"
  BY DEF Init, Idle
<1> QED
  BY <1>1, <1>2 DEF TrackInv, Accounted, Tracked, Holds

(* Until notify is published, every document is somewhere.                 *)
THEOREM EveryDocumentAccounted == Spec => []Accounted
<1>1. TrackInv => Accounted
  BY DEF TrackInv
<1> QED
  BY <1>1, TrackInvInit, TrackInvStep, TypeCorrect, PTL DEF Spec

-----------------------------------------------------------------------------
(* What is queued and in hand, weighed.  A bound on a sum over messages    *)
(* and slots is a bound on the cardinality of a set that has as many       *)
(* elements for each of them as it weighs.                                 *)
Stock(queue, weight) ==
    UNION {{<<m, k, j>> : k \in 1..queue[m], j \in 1..weight[m]} :
             m \in Message}

Hands(weight) == UNION {{<<w, j>> : j \in 1..weight[w]} : w \in Slots}

LEMMA InStock ==
    ASSUME NEW queue \in [Message -> Nat], NEW weight \in [Message -> Nat]
    PROVE  \A t : t \in Stock(queue, weight) <=>
             \E m \in Message, k \in Nat, j \in Nat :
               k \in 1..queue[m] /\ j \in 1..weight[m] /\ t = <<m, k, j>>
  BY DEF Stock

LEMMA InHands ==
    ASSUME NEW weight \in [Slots -> Nat]
    PROVE  \A t : t \in Hands(weight) <=>
             \E w \in Slots, j \in Nat : j \in 1..weight[w] /\ t = <<w, j>>
  BY DEF Hands

(* The elements for one message, or for one slot.                          *)
LEMMA OfSize ==
    ASSUME NEW B, NEW n \in Nat, NEW f \in [1..n -> B],
           \A i, j \in 1..n : f[i] = f[j] => i = j,
           \A t \in B : \E j \in 1..n : f[j] = t
    PROVE  IsFiniteSet(B) /\ Cardinality(B) = n
<1>1. f \in Bijection(1..n, B)
  BY DEF Bijection, Injection, Surjection, IsInjective
<1>2. IsFiniteSet(1..n) /\ Cardinality(1..n) = n
  BY FS_Interval
<1> QED
  BY <1>1, <1>2, FS_Bijection DEF ExistsBijection

LEMMA StockOf ==
    ASSUME NEW x, NEW k, NEW n \in Nat, NEW B,
           \A t : t \in B <=> \E j \in 1..n : t = <<x, k, j>>
    PROVE  IsFiniteSet(B) /\ Cardinality(B) = n
<1> DEFINE f == [j \in 1..n |-> <<x, k, j>>]
<1>1. /\ f \in [1..n -> B]
      /\ \A i, j \in 1..n : f[i] = f[j] => i = j
      /\ \A t \in B : \E j \in 1..n : f[j] = t
  OBVIOUS
<1> HIDE DEF f
<1> QED
  BY <1>1, OfSize

LEMMA HandOf ==
    ASSUME NEW x, NEW n \in Nat, NEW B,
           \A t : t \in B <=> \E j \in 1..n : t = <<x, j>>
    PROVE  IsFiniteSet(B) /\ Cardinality(B) = n
<1> DEFINE f == [j \in 1..n |-> <<x, j>>]
<1>1. /\ f \in [1..n -> B]
      /\ \A i, j \in 1..n : f[i] = f[j] => i = j
      /\ \A t \in B : \E j \in 1..n : f[j] = t
  OBVIOUS
<1> HIDE DEF f
<1> QED
  BY <1>1, OfSize

LEMMA Adding ==
    ASSUME NEW S, NEW B, IsFiniteSet(S), IsFiniteSet(B), S \cap B = {}
    PROVE  /\ IsFiniteSet(S \cup B)
           /\ Cardinality(S \cup B) = Cardinality(S) + Cardinality(B)
<1>1. Cardinality(S \cap B) = 0
  BY FS_EmptySet
<1>2. Cardinality(S) \in Nat /\ Cardinality(B) \in Nat
  BY FS_CardinalityType
<1>3. /\ IsFiniteSet(S \cup B)
      /\ Cardinality(S \cup B)
           = Cardinality(S) + Cardinality(B) - Cardinality(S \cap B)
  BY FS_Union, Zenon
<1> QED
  BY <1>1, <1>2, <1>3

LEMMA StockPut ==
    ASSUME NEW q \in [Message -> Nat], NEW weight \in [Message -> Nat],
           NEW m \in Message, IsFiniteSet(Stock(q, weight))
    PROVE  /\ IsFiniteSet(Stock(Put(q, m), weight))
           /\ Cardinality(Stock(Put(q, m), weight))
                = Cardinality(Stock(q, weight)) + weight[m]
<1> DEFINE B == {<<m, q[m] + 1, j>> : j \in 1..weight[m]}
<1>0. q[m] \in Nat /\ Put(q, m) \in [Message -> Nat] /\ weight[m] \in Nat
  BY PutType
<1>1. Stock(Put(q, m), weight) = Stock(q, weight) \cup B
  <2>1. /\ Put(q, m)[m] = q[m] + 1
        /\ \A n \in Message \ {m} : Put(q, m)[n] = q[n]
    BY DEF Put
  <2>2. ASSUME NEW t \in Stock(Put(q, m), weight)
        PROVE  t \in Stock(q, weight) \cup B
    <3>1. PICK n \in Message, k \in Nat, j \in Nat :
            k \in 1..Put(q, m)[n] /\ j \in 1..weight[n] /\ t = <<n, k, j>>
      BY <1>0, <2>2, InStock
    <3>2. CASE n = m /\ k = q[m] + 1
      BY <3>1, <3>2
    <3>3. CASE ~(n = m /\ k = q[m] + 1)
      <4>1. k \in 1..q[n]
        BY <1>0, <2>1, <3>1, <3>3
      <4> QED
        BY <3>1, <4>1, InStock
    <3> QED
      BY <3>2, <3>3
  <2>3. ASSUME NEW t \in B PROVE t \in Stock(Put(q, m), weight)
    <3>1. q[m] + 1 \in 1..Put(q, m)[m] /\ q[m] + 1 \in Nat
      BY <1>0, <2>1
    <3>2. PICK j \in 1..weight[m] : t = <<m, q[m] + 1, j>>
      BY <2>3
    <3>3. j \in Nat
      OBVIOUS
    <3> QED
      BY <1>0, <3>1, <3>2, <3>3, InStock
  <2>4. ASSUME NEW t \in Stock(q, weight)
        PROVE  t \in Stock(Put(q, m), weight)
    <3>1. PICK n \in Message, k \in Nat, j \in Nat :
            k \in 1..q[n] /\ j \in 1..weight[n] /\ t = <<n, k, j>>
      BY <2>4, InStock
    <3>2. k \in 1..Put(q, m)[n]
      BY <1>0, <2>1, <3>1
    <3> QED
      BY <1>0, <3>1, <3>2, InStock
  <2> HIDE DEF B
  <2> QED
    BY <2>2, <2>3, <2>4
<1>2. Stock(q, weight) \cap B = {}
  <2> SUFFICES ASSUME NEW t \in Stock(q, weight), t \in B PROVE FALSE
    OBVIOUS
  <2>1. PICK n \in Message, k \in Nat, j \in Nat :
            k \in 1..q[n] /\ j \in 1..weight[n] /\ t = <<n, k, j>>
    BY InStock
  <2>2. n = m /\ k = q[m] + 1
    BY <2>1
  <2> QED
    BY <1>0, <2>1, <2>2
<1>3. IsFiniteSet(B) /\ Cardinality(B) = weight[m]
  <2>1. \A t : t \in B <=> \E j \in 1..weight[m] : t = <<m, q[m] + 1, j>>
    OBVIOUS
  <2> HIDE DEF B
  <2> QED
    BY <1>0, <2>1, StockOf
<1> HIDE DEF B
<1> QED
  BY <1>1, <1>2, <1>3, Adding

LEMMA StockTake ==
    ASSUME NEW q \in [Message -> Nat], NEW weight \in [Message -> Nat],
           NEW m \in Message, q[m] > 0, IsFiniteSet(Stock(q, weight))
    PROVE  /\ IsFiniteSet(Stock(Take(q, m), weight))
           /\ Cardinality(Stock(Take(q, m), weight)) + weight[m]
                = Cardinality(Stock(q, weight))
<1>1. PICK p : p = Take(q, m)
  OBVIOUS
<1>2. p \in [Message -> Nat] /\ q = Put(p, m)
  <2>1. p \in [Message -> Nat]
    BY <1>1, TakeType
  <2>2. p = [q EXCEPT ![m] = q[m] - 1]
    BY <1>1 DEF Take
  <2>3. /\ DOMAIN Put(p, m) = Message
        /\ Put(p, m)[m] = q[m]
        /\ \A n \in Message \ {m} : Put(p, m)[n] = q[n]
    BY <2>1, <2>2 DEF Put
  <2>4. Put(p, m) = [n \in Message |-> Put(p, m)[n]]
    BY <2>1 DEF Put
  <2> QED
    BY <2>1, <2>3, <2>4
<1>3. IsFiniteSet(Stock(p, weight))
  <2>1. Stock(p, weight) \subseteq Stock(q, weight)
    <3> SUFFICES ASSUME NEW t \in Stock(p, weight)
                 PROVE  t \in Stock(q, weight)
      OBVIOUS
    <3>1. PICK n \in Message, k \in Nat, j \in Nat :
            k \in 1..p[n] /\ j \in 1..weight[n] /\ t = <<n, k, j>>
      BY <1>2, InStock
    <3>2. k \in 1..q[n]
      BY <1>2, <3>1 DEF Put
    <3> QED
      BY <3>1, <3>2, InStock
  <2> QED
    BY <2>1, FS_Subset
<1> QED
  BY <1>1, <1>2, <1>3, StockPut

LEMMA StockLess ==
    ASSUME NEW q \in [Message -> Nat],
           NEW weight \in [Message -> Nat], NEW lower \in [Message -> Nat],
           \A m \in Message : lower[m] <= weight[m],
           IsFiniteSet(Stock(q, weight))
    PROVE  /\ IsFiniteSet(Stock(q, lower))
           /\ Cardinality(Stock(q, lower)) <= Cardinality(Stock(q, weight))
<1>1. Stock(q, lower) \subseteq Stock(q, weight)
  <2> SUFFICES ASSUME NEW t \in Stock(q, lower) PROVE t \in Stock(q, weight)
    OBVIOUS
  <2>1. PICK n \in Message, k \in Nat, j \in Nat :
            k \in 1..q[n] /\ j \in 1..lower[n] /\ t = <<n, k, j>>
    BY InStock
  <2>2. j \in 1..weight[n]
    BY <2>1
  <2> QED
    BY <2>1, <2>2, InStock
<1> QED
  BY <1>1, FS_Subset

(* Only slot w weighs something else.                                      *)
LEMMA HandsMove ==
    ASSUME NEW V \in [Slots -> Nat], NEW X \in [Slots -> Nat], NEW w \in Slots,
           \A v \in Slots \ {w} : X[v] <= V[v], IsFiniteSet(Hands(V))
    PROVE  /\ IsFiniteSet(Hands(X))
           /\ Cardinality(Hands(X)) + V[w] <= Cardinality(Hands(V)) + X[w]
<1> DEFINE B == {<<w, j>> : j \in 1..V[w]}
           D == {<<w, j>> : j \in 1..X[w]}
           R == Hands(V) \ B
<1>1. /\ IsFiniteSet(B) /\ Cardinality(B) = V[w]
      /\ IsFiniteSet(D) /\ Cardinality(D) = X[w]
  <2>1. /\ \A t : t \in B <=> \E j \in 1..V[w] : t = <<w, j>>
        /\ \A t : t \in D <=> \E j \in 1..X[w] : t = <<w, j>>
    OBVIOUS
  <2> HIDE DEF B, D
  <2> QED
    BY <2>1, HandOf
<1>2. B \subseteq Hands(V)
  BY InHands
<1>3. Hands(X) \subseteq R \cup D
  <2> SUFFICES ASSUME NEW t \in Hands(X), t \notin D PROVE t \in R
    OBVIOUS
  <2>1. PICK v \in Slots, j \in Nat : j \in 1..X[v] /\ t = <<v, j>>
    BY InHands
  <2>2. v # w
    BY <2>1
  <2>3. j \in 1..V[v]
    BY <2>1, <2>2
  <2>4. t \in Hands(V)
    BY <2>1, <2>3, InHands
  <2>5. t \notin B
    BY <2>1, <2>2
  <2> QED
    BY <2>4, <2>5
<1>4. /\ IsFiniteSet(R)
      /\ Cardinality(R) = Cardinality(Hands(V)) - V[w]
  <2> HIDE DEF B
  <2>1. Hands(V) \cap B = B
    BY <1>2
  <2>2. /\ IsFiniteSet(Hands(V) \ B)
        /\ Cardinality(Hands(V) \ B)
             = Cardinality(Hands(V)) - Cardinality(Hands(V) \cap B)
    BY FS_Difference, Zenon
  <2> QED
    BY <1>1, <2>1, <2>2
<1>5. /\ IsFiniteSet(R \cup D)
      /\ Cardinality(R \cup D) <= Cardinality(R) + Cardinality(D)
  <2> HIDE DEF R, D
  <2>1. IsFiniteSet(R) /\ IsFiniteSet(D)
    BY <1>1, <1>4
  <2>2. IsFiniteSet(R \cap D)
    BY <2>1, FS_Intersection, Zenon
  <2>3. /\ Cardinality(R \cap D) \in Nat
        /\ Cardinality(R) \in Nat /\ Cardinality(D) \in Nat
    BY <2>1, <2>2, FS_CardinalityType
  <2>4. /\ IsFiniteSet(R \cup D)
        /\ Cardinality(R \cup D)
             = Cardinality(R) + Cardinality(D) - Cardinality(R \cap D)
    BY <2>1, FS_Union, Zenon
  <2> QED
    BY <2>3, <2>4
<1> HIDE DEF B, D, R
<1>6. IsFiniteSet(Hands(X)) /\ Cardinality(Hands(X)) <= Cardinality(R \cup D)
  BY <1>3, <1>5, FS_Subset
<1>7. /\ Cardinality(Hands(X)) \in Nat /\ Cardinality(Hands(V)) \in Nat
      /\ Cardinality(R \cup D) \in Nat /\ Cardinality(R) \in Nat
  BY <1>4, <1>5, <1>6, FS_CardinalityType
<1> QED
  BY <1>1, <1>4, <1>5, <1>6, <1>7

-----------------------------------------------------------------------------
(* BodiesBounded.  Each document is one token, and each loss makes one     *)
(* more of some document at most; what has fired the body before its time  *)
(* is one that a loss has made.                                            *)
One == [m \in Message |-> 1]

Fires(w) == slot[w].pc \in SafePoints \cup {"fire"}

Load == [w \in Slots |-> IF Fires(w) THEN 1 ELSE 0]

Finite ==
    /\ IsFiniteSet(Stock(ready, One)) /\ IsFiniteSet(Stock(dlq, One))
    /\ IsFiniteSet(Hands(Load))

Alive ==
    Cardinality(Stock(ready, One)) + Cardinality(Stock(dlq, One))
      + Cardinality(Hands(Load))

(* Until the body is fired a document has a token, or a part in the set.   *)
Unfired ==
    /\ bodies = <<>> /\ \A w \in Slots : ~Holds(w, "fire")
    /\ Alive + Cardinality(join) <= Cardinality(Docs) + losses

BodiesInv ==
    /\ Finite /\ IsFiniteSet(join)
    /\ Unfired \/ Len(bodies) + Alive <= 1 + losses

(* A step's net gain of queued messages.                                   *)
Queues(n) ==
    \/ n = 0 /\ UNCHANGED <<ready, dlq>>
    \/ /\ n = 1
       /\ \E m \in Message : \/ ready' = Put(ready, m) /\ dlq' = dlq
                             \/ dlq' = Put(dlq, m) /\ ready' = ready
    \/ /\ n = -1
       /\ \E m \in Message :
            \/ ready[m] > 0 /\ ready' = Take(ready, m) /\ dlq' = dlq
            \/ dlq[m] > 0 /\ dlq' = Take(dlq, m) /\ ready' = ready

LEMMA AliveType ==
    ASSUME TypeOK, Finite
    PROVE  /\ One \in [Message -> Nat] /\ Load \in [Slots -> Nat]
           /\ Cardinality(Stock(ready, One)) \in Nat
           /\ Cardinality(Stock(dlq, One)) \in Nat
           /\ Cardinality(Hands(Load)) \in Nat
           /\ Alive \in Nat
<1>1. One \in [Message -> Nat] /\ Load \in [Slots -> Nat]
  BY DEF One, Load
<1>2. /\ Cardinality(Stock(ready, One)) \in Nat
      /\ Cardinality(Stock(dlq, One)) \in Nat
      /\ Cardinality(Hands(Load)) \in Nat
  BY FS_CardinalityType DEF Finite
<1> QED
  BY <1>1, <1>2 DEF Alive

LEMMA QueuesMove ==
    ASSUME TypeOK, Finite, NEW n \in {-1, 0, 1}, Queues(n)
    PROVE  /\ IsFiniteSet(Stock(ready', One)) /\ IsFiniteSet(Stock(dlq', One))
           /\ Cardinality(Stock(ready', One)) + Cardinality(Stock(dlq', One))
                = Cardinality(Stock(ready, One)) + Cardinality(Stock(dlq, One)) + n
<1>0. /\ ready \in [Message -> Nat] /\ dlq \in [Message -> Nat]
      /\ One \in [Message -> Nat] /\ \A m \in Message : One[m] = 1
      /\ IsFiniteSet(Stock(ready, One)) /\ IsFiniteSet(Stock(dlq, One))
  BY DEF TypeOK, Finite, One
<1>1. /\ Cardinality(Stock(ready, One)) \in Nat
      /\ Cardinality(Stock(dlq, One)) \in Nat
  BY <1>0, FS_CardinalityType
<1>2. CASE n = 0
  BY <1>0, <1>1, <1>2 DEF Queues
<1>3. CASE n = 1
  <2>1. PICK m \in Message : \/ ready' = Put(ready, m) /\ dlq' = dlq
                             \/ dlq' = Put(dlq, m) /\ ready' = ready
    BY <1>3 DEF Queues
  <2>2. /\ IsFiniteSet(Stock(Put(ready, m), One))
        /\ Cardinality(Stock(Put(ready, m), One)) = Cardinality(Stock(ready, One)) + 1
        /\ IsFiniteSet(Stock(Put(dlq, m), One))
        /\ Cardinality(Stock(Put(dlq, m), One)) = Cardinality(Stock(dlq, One)) + 1
    BY <1>0, StockPut
  <2> QED
    BY <1>0, <1>1, <1>3, <2>1, <2>2
<1>4. CASE n = -1
  <2>1. PICK m \in Message :
          \/ ready[m] > 0 /\ ready' = Take(ready, m) /\ dlq' = dlq
          \/ dlq[m] > 0 /\ dlq' = Take(dlq, m) /\ ready' = ready
    BY <1>4 DEF Queues
  <2>2. ASSUME NEW q \in [Message -> Nat], q[m] > 0, IsFiniteSet(Stock(q, One))
        PROVE  /\ IsFiniteSet(Stock(Take(q, m), One))
               /\ Cardinality(Stock(Take(q, m), One)) \in Nat
               /\ Cardinality(Stock(Take(q, m), One)) + 1 = Cardinality(Stock(q, One))
    BY <1>0, <2>2, StockTake, FS_CardinalityType
  <2> QED
    BY <1>0, <1>1, <1>4, <2>1, <2>2
<1> QED
  BY <1>2, <1>3, <1>4

LEMMA AliveMoves ==
    ASSUME TypeOK, TypeOK', Finite, NEW n \in {-1, 0, 1}, Queues(n), NEW w \in Slots,
           \A v \in Slots \ {w} : slot'[v] = slot[v]
    PROVE  /\ Finite' /\ Alive \in Nat /\ Alive' \in Nat
           /\ Alive' + Load[w] <= Alive + n + Load'[w]
           /\ Load[w] = (IF Fires(w) THEN 1 ELSE 0)
           /\ Load'[w] = (IF Fires(w)' THEN 1 ELSE 0)
<1>1. /\ Load \in [Slots -> Nat] /\ Load' \in [Slots -> Nat]
      /\ \A v \in Slots \ {w} : Load'[v] <= Load[v]
      /\ Load[w] = (IF Fires(w) THEN 1 ELSE 0)
      /\ Load'[w] = (IF Fires(w)' THEN 1 ELSE 0)
  BY DEF Load, Fires
<1>2. /\ IsFiniteSet(Hands(Load'))
      /\ Cardinality(Hands(Load')) + Load[w] <= Cardinality(Hands(Load)) + Load'[w]
  <2>1. IsFiniteSet(Hands(Load))
    BY DEF Finite
  <2>2. PICK V, X : V = Load /\ X = Load'
    OBVIOUS
  <2>3. /\ V \in [Slots -> Nat] /\ X \in [Slots -> Nat] /\ IsFiniteSet(Hands(V))
        /\ \A v \in Slots \ {w} : X[v] <= V[v]
    BY <1>1, <2>1, <2>2
  <2>4. /\ IsFiniteSet(Hands(X))
        /\ Cardinality(Hands(X)) + V[w] <= Cardinality(Hands(V)) + X[w]
    BY <2>3, HandsMove
  <2> QED
    BY <2>2, <2>4
<1>3. Hands(Load)' = Hands(Load') /\ Stock(ready, One)' = Stock(ready', One)
      /\ Stock(dlq, One)' = Stock(dlq', One)
  BY DEF Hands, Stock, One
<1>4. Finite'
  BY <1>2, <1>3, QueuesMove DEF Finite
<1>5. /\ Cardinality(Stock(ready', One)) \in Nat
      /\ Cardinality(Stock(dlq', One)) \in Nat
      /\ Cardinality(Hands(Load')) \in Nat
  BY <1>2, QueuesMove, FS_CardinalityType
<1>6. /\ Alive = Cardinality(Stock(ready, One)) + Cardinality(Stock(dlq, One))
                   + Cardinality(Hands(Load))
      /\ Alive' = Cardinality(Stock(ready', One)) + Cardinality(Stock(dlq', One))
                   + Cardinality(Hands(Load'))
  BY <1>3 DEF Alive
<1>7. /\ Alive \in Nat /\ Alive' \in Nat
      /\ Alive' + Load[w] <= Alive + n + Load'[w]
  BY <1>1, <1>2, <1>5, <1>6, AliveType, QueuesMove
<1> QED
  BY <1>1, <1>4, <1>7

(* A step of slot w that publishes no body.                                *)
LEMMA BodiesKept ==
    ASSUME TypeOK, TypeOK', BodiesInv,
           NEW n \in {-1, 0, 1}, Queues(n), NEW w \in Slots,
           \A v \in Slots \ {w} : slot'[v] = slot[v],
           IsFiniteSet(join'), Cardinality(join') <= Cardinality(join),
           bodies' = bodies, Holds(w, "fire")' => Holds(w, "fire"),
           n + Load'[w] <= losses' - losses + Load[w]
    PROVE  BodiesInv'
<1>1. /\ Finite' /\ Alive \in Nat /\ Alive' \in Nat
      /\ Alive' + Load[w] <= Alive + n + Load'[w]
      /\ Load[w] \in {0, 1} /\ Load'[w] \in {0, 1}
  BY AliveMoves DEF BodiesInv
<1>2. /\ losses \in Nat /\ losses' \in Nat /\ Len(bodies) \in Nat
      /\ Cardinality(join) \in Nat /\ Cardinality(join') \in Nat
      /\ Cardinality(Docs) \in Nat
  BY FS_CardinalityType, ChordHeaderAssumption, LenProperties
     DEF TypeOK, BodiesInv, ChordHeaderAssumption
<1>3. Alive' <= Alive + losses' - losses
  <2>1. \A a, b, i, j, p, q \in Nat :
          (b + i <= a + n + j /\ n + j <= q - p + i) => b <= a + q - p
    OBVIOUS
  <2>2. Load[w] \in Nat /\ Load'[w] \in Nat
    BY <1>1
  <2> QED
    BY <1>1, <1>2, <2>1, <2>2, Zenon
<1>4. CASE Unfired
  <2>1. \A v \in Slots : ~Holds(v, "fire")'
    BY <1>4 DEF Unfired, Holds
  <2>2. Alive' + Cardinality(join') <= Cardinality(Docs) + losses'
    BY <1>1, <1>2, <1>3, <1>4 DEF Unfired
  <2> QED
    BY <1>1, <1>4, <2>1, <2>2 DEF BodiesInv, Unfired
<1>5. CASE Len(bodies) + Alive <= 1 + losses
  <2>1. \A a, b, c, p, q \in Nat :
          (b <= a + q - p /\ c + a <= 1 + p) => c + b <= 1 + q
    OBVIOUS
  <2>2. Len(bodies) + Alive' <= 1 + losses'
    BY <1>1, <1>2, <1>3, <1>5, <2>1, Zenon
  <2>3. Len(bodies') + Alive' <= 1 + losses'
    BY <2>2, Zenon
  <2> QED
    BY <1>1, <2>3 DEF BodiesInv
<1> QED
  BY <1>4, <1>5 DEF BodiesInv

(* The same for a step of a slot to another point of its task.             *)
LEMMA BodiesGoOn ==
    ASSUME TypeOK, TypeOK', BodiesInv,
           NEW n \in {-1, 0, 1}, Queues(n), NEW w \in Slots,
           NEW pc \in (Busy \cup {"idle"}) \ {"fire"}, slot'[w].pc = pc,
           \A v \in Slots \ {w} : slot'[v] = slot[v],
           UNCHANGED <<join, bodies, losses>>,
           pc \in SafePoints => n + 1 <= Load[w],
           pc \notin SafePoints => n <= Load[w]
    PROVE  BodiesInv'
<1>1. /\ Load[w] \in {0, 1}
      /\ Load'[w] = (IF pc \in SafePoints THEN 1 ELSE 0)
  BY DEF Load, Fires
<1>2. losses \in Nat /\ IsFiniteSet(join) /\ Cardinality(join) \in Nat
  BY FS_CardinalityType DEF TypeOK, BodiesInv
<1>3. n + Load'[w] <= losses' - losses + Load[w]
  BY <1>1, <1>2
<1>4. ~Holds(w, "fire")'
  BY DEF Holds
<1> QED
  BY <1>2, <1>3, <1>4, BodiesKept

(* A message taken back is one more.                                       *)
LEMMA RequeueQueues ==
    ASSUME NEW m \in Message, Requeue(m)
    PROVE  Queues(1)
<1>1. /\ m.deliveries < DeliveryLimit => [m EXCEPT !.deliveries = @ + 1] \in Message
      /\ [m EXCEPT !.deliveries = 0] \in Message
  BY NextMessageType
<1> QED
  BY <1>1 DEF Requeue, Queues

LEMMA LoseTaskQueues ==
    ASSUME TypeOK, NEW w \in Slots, ~Holds(w, "idle"), LoseTask(w)
    PROVE  /\ \A v \in Slots \ {w} : slot'[v] = slot[v]
           /\ \/ slot'[w].pc = "idle" /\ (Queues(0) \/ Queues(1))
              \/ slot'[w].pc = "part" /\ Queues(0)
<1>1. slot[w].msg \in Message
  BY DEF TypeOK, SlotsOK
<1>2. CASE Release(w) /\ dlq' = Put(dlq, slot[w].msg) /\ UNCHANGED ready
  <2>1. Queues(1)
    BY <1>1, <1>2 DEF Queues
  <2> QED
    BY <1>2, <2>1, ReleaseEffect
<1>3. CASE Release(w) /\ Requeue(slot[w].msg)
  BY <1>1, <1>3, ReleaseEffect, RequeueQueues
<1>4. CASE Release(w) /\ UNCHANGED <<ready, dlq>>
  BY <1>4, ReleaseEffect DEF Queues
<1>5. CASE /\ Step(w, "part", PartFor(slot[w].msg, "lost", 0))
           /\ UNCHANGED <<ready, dlq>>
  BY <1>5, StepEffect DEF Queues
<1> QED
  BY <1>2, <1>3, <1>4, <1>5 DEF LoseTask

LEMMA BodiesPart ==
    ASSUME TypeOK, TypeOK', BodiesInv, NEW w \in Slots, PartReturn(w)
    PROVE  BodiesInv'
<1>0. PICK pc \in {"fire", "ack"} :
        /\ Step(w, pc, NoPart)
        /\ pc = "fire" => Cardinality(join') = Cardinality(Docs)
  BY DEF PartReturn
<1>1. /\ slot'[w].pc = pc /\ \A v \in Slots \ {w} : slot'[v] = slot[v]
      /\ Queues(0) /\ UNCHANGED <<bodies, losses>> /\ Holds(w, "part")
  BY <1>0, StepEffect DEF PartReturn, Queues
<1>2. /\ IsFiniteSet(join') /\ Cardinality(join') <= Cardinality(join) + 1
      /\ Cardinality(join) \in Nat /\ Cardinality(join') \in Nat
  <2>1. PICK p : join' = join \cup {p}
    BY DEF PartReturn
  <2>2. IsFiniteSet(join) /\ Cardinality(join) \in Nat
    BY FS_CardinalityType DEF BodiesInv
  <2>3. /\ IsFiniteSet(join \cup {p})
        /\ Cardinality(join \cup {p}) =
             IF p \in join THEN Cardinality(join) ELSE Cardinality(join) + 1
    BY <2>2, FS_AddElement, Zenon
  <2> QED
    BY <2>1, <2>2, <2>3
<1>3. /\ Finite' /\ Alive \in Nat /\ Alive' \in Nat
      /\ pc = "fire" => Alive' <= Alive
      /\ pc = "ack" => Alive' + 1 <= Alive
  <2>1. /\ Finite' /\ Alive \in Nat /\ Alive' \in Nat
        /\ Alive' + Load[w] <= Alive + 0 + Load'[w]
        /\ Load[w] = (IF Fires(w) THEN 1 ELSE 0)
        /\ Load'[w] = (IF Fires(w)' THEN 1 ELSE 0)
    BY <1>1, AliveMoves DEF BodiesInv
  <2>2. Fires(w) /\ (Fires(w)' <=> pc = "fire")
    BY <1>1 DEF Fires, Holds, SafePoints
  <2>3. /\ \A a, b \in Nat : b + 1 <= a + 0 + 1 => b <= a
        /\ \A a, b \in Nat : b + 1 <= a + 0 + 0 => b + 1 <= a
    OBVIOUS
  <2>4. Alive \in Nat /\ Alive' \in Nat
    BY <2>1
  <2>5. CASE pc = "fire"
    <3>1. Load[w] = 1 /\ Load'[w] = 1
      BY <2>1, <2>2, <2>5
    <3>2. Alive' + 1 <= Alive + 0 + 1
      BY <2>1, <3>1, Zenon
    <3>3. Alive' <= Alive
      BY <2>3, <2>4, <3>2, Zenon
    <3> QED
      BY <2>1, <2>5, <3>3, Zenon
  <2>6. CASE pc = "ack"
    <3>1. Load[w] = 1 /\ Load'[w] = 0
      BY <2>1, <2>2, <2>6
    <3>2. Alive' + 1 <= Alive + 0 + 0
      BY <2>1, <3>1, Zenon
    <3>3. Alive' + 1 <= Alive
      BY <2>3, <2>4, <3>2, Zenon
    <3> QED
      BY <2>1, <2>6, <3>3, Zenon
  <2> QED
    BY <1>0, <2>5, <2>6
<1>4. /\ losses \in Nat /\ Len(bodies) \in Nat /\ Cardinality(Docs) \in Nat
      /\ losses' = losses /\ Len(bodies') = Len(bodies)
  BY <1>1, FS_CardinalityType, ChordHeaderAssumption, LenProperties
     DEF TypeOK, ChordHeaderAssumption
<1>5. CASE Len(bodies) + Alive <= 1 + losses
  <2>1. Alive' <= Alive
    <3>1. CASE pc = "fire"
      BY <1>3, <3>1, Zenon
    <3>2. CASE pc = "ack"
      <4>1. Alive' + 1 <= Alive
        BY <1>3, <3>2
      <4>2. \A a, b \in Nat : b + 1 <= a => b <= a
        OBVIOUS
      <4> QED
        BY <1>3, <4>1, <4>2, Zenon
    <3> QED
      BY <1>0, <3>1, <3>2
  <2>2. Len(bodies) + Alive' <= 1 + losses
    BY <1>3, <1>4, <1>5, <2>1
  <2>3. Len(bodies') + Alive' <= 1 + losses'
    BY <1>4, <2>2
  <2> QED
    BY <1>2, <1>3, <2>3 DEF BodiesInv
<1>6. CASE Unfired /\ pc = "fire"
  <2>1. Len(bodies) = 0 /\ Cardinality(join') = Cardinality(Docs)
    BY <1>0, <1>6 DEF Unfired
  <2>2. Alive + Cardinality(join) <= Cardinality(Docs) + losses
    BY <1>6 DEF Unfired
  <2>3. Len(bodies') + Alive' <= 1 + losses'
    <3>1. Alive' <= Alive
      BY <1>3, <1>6
    <3>2. Cardinality(Docs) <= Cardinality(join) + 1
      BY <1>2, <2>1
    <3>3. Alive' <= 1 + losses
      BY <1>2, <1>3, <1>4, <2>2, <3>1, <3>2
    <3>4. Len(bodies') = 0 /\ losses' = losses
      BY <1>4, <2>1
    <3> QED
      BY <1>3, <3>3, <3>4
  <2> QED
    BY <1>2, <1>3, <2>3 DEF BodiesInv
<1>7. CASE Unfired /\ pc = "ack"
  <2>1. Alive' + Cardinality(join') <= Cardinality(Docs) + losses'
    <3>1. Alive + Cardinality(join) <= Cardinality(Docs) + losses
      BY <1>7 DEF Unfired
    <3> QED
      BY <1>1, <1>2, <1>3, <1>4, <1>7, <3>1
  <2>2. \A v \in Slots : ~Holds(v, "fire")'
    BY <1>1, <1>7 DEF Unfired, Holds
  <2> QED
    BY <1>1, <1>2, <1>3, <1>7, <2>1, <2>2 DEF BodiesInv, Unfired
<1> QED
  BY <1>5, <1>6, <1>7 DEF BodiesInv

LEMMA BodiesFire ==
    ASSUME TypeOK, TypeOK', BodiesInv, NEW w \in Slots, FireBody(w)
    PROVE  BodiesInv'
<1>0. PICK pc \in {"ack", "cleanup"} : Step(w, pc, NoPart)
  BY DEF FireBody
<1>1. /\ slot'[w].pc = pc /\ \A v \in Slots \ {w} : slot'[v] = slot[v]
      /\ Queues(0) /\ UNCHANGED <<join, losses>> /\ Holds(w, "fire")
  BY <1>0, StepEffect DEF FireBody, Queues
<1>2. Len(bodies') <= Len(bodies) + 1 /\ Len(bodies) \in Nat /\ Len(bodies') \in Nat
  <2>1. bodies \in Seq(SUBSET Part) /\ join \in SUBSET Part
    BY DEF TypeOK
  <2> QED
    BY <2>1, AppendProperties, LenProperties DEF FireBody
<1>3. /\ Finite' /\ Alive \in Nat /\ Alive' \in Nat /\ Alive' + 1 <= Alive
  <2>1. /\ Finite' /\ Alive \in Nat /\ Alive' \in Nat
        /\ Alive' + Load[w] <= Alive + 0 + Load'[w]
        /\ Load[w] = (IF Fires(w) THEN 1 ELSE 0)
        /\ Load'[w] = (IF Fires(w)' THEN 1 ELSE 0)
    BY <1>1, AliveMoves DEF BodiesInv
  <2>2. Fires(w) /\ ~Fires(w)'
    BY <1>1 DEF Fires, Holds, SafePoints
  <2>3. Load[w] = 1 /\ Load'[w] = 0
    BY <2>1, <2>2
  <2>4. \A a, b \in Nat : b + 1 <= a + 0 + 0 => b + 1 <= a
    OBVIOUS
  <2>5. Alive' + 1 <= Alive + 0 + 0
    BY <2>1, <2>3, Zenon
  <2> QED
    BY <2>1, <2>4, <2>5, Zenon
<1>4. /\ Len(bodies) + Alive <= 1 + losses
      /\ losses \in Nat /\ losses' = losses
  BY <1>1 DEF BodiesInv, Unfired, TypeOK
<1>5. Len(bodies') + Alive' <= 1 + losses'
  <2>1. \A a, b, c, d, e \in Nat :
          (c <= a + 1 /\ d + 1 <= b /\ a + b <= 1 + e) => c + d <= 1 + e
    OBVIOUS
  <2>2. /\ Len(bodies) \in Nat /\ Len(bodies') \in Nat
        /\ Alive \in Nat /\ Alive' \in Nat /\ losses \in Nat
    BY <1>2, <1>3, <1>4
  <2>3. /\ Len(bodies') <= Len(bodies) + 1
        /\ Alive' + 1 <= Alive
        /\ Len(bodies) + Alive <= 1 + losses
    BY <1>2, <1>3, <1>4
  <2>4. Len(bodies') + Alive' <= 1 + losses
    BY <2>1, <2>2, <2>3
  <2> QED
    BY <2>4, <1>4
<1> QED
  BY <1>1, <1>3, <1>5 DEF BodiesInv

LEMMA BodiesLost ==
    ASSUME TypeOK, TypeOK', BodiesInv, NEW w \in Slots, ~Holds(w, "idle"),
           LoseTask(w), UNCHANGED <<join, bodies>>,
           \/ losses' = losses + 1
           \/ losses' = losses /\ Holds(w, "body")
    PROVE  BodiesInv'
<1>1. PICK n \in {0, 1} :
        /\ Queues(n) /\ \A v \in Slots \ {w} : slot'[v] = slot[v]
        /\ \/ slot'[w].pc = "idle"
           \/ slot'[w].pc = "part" /\ n = 0
  BY LoseTaskQueues
<1>2. /\ Load[w] \in {0, 1} /\ (Holds(w, "body") => Load[w] = 1)
      /\ Load'[w] = (IF slot'[w].pc = "part" THEN 1 ELSE 0)
  BY <1>1 DEF Load, Fires, Holds, SafePoints
<1>3. /\ losses \in Nat /\ ~Holds(w, "fire")'
      /\ IsFiniteSet(join) /\ Cardinality(join) \in Nat
  BY <1>1, FS_CardinalityType DEF TypeOK, Holds, BodiesInv
<1>4. n + Load'[w] <= losses' - losses + Load[w]
  BY <1>1, <1>2, <1>3
<1> QED
  BY <1>1, <1>3, <1>4, BodiesKept

LEMMA BodiesStep ==
    ASSUME TypeOK, TypeOK', BodiesInv, [Next]_vars, "published" \notin hits'
    PROVE  BodiesInv'
<1>0. \A w \in Slots :
        /\ Load[w] = (IF Fires(w) THEN 1 ELSE 0)
        /\ slot[w].pc \in Busy \cup {"idle"}
        /\ ~Holds(w, "idle") => slot[w].msg \in Message
  BY DEF Load, TypeOK, SlotsOK, Slot
<1>1. ASSUME NEW w \in Slots, NEW m \in Message, Deliver(w, m) \/ DrainGet(w, m)
      PROVE  BodiesInv'
  <2>1. PICK pc \in {"body", "finalize"} :
          slot'[w].pc = pc /\ \A v \in Slots \ {w} : slot'[v] = slot[v]
    BY <1>1 DEF Deliver, DrainGet, TypeOK, SlotsOK
  <2>2. Queues(-1) /\ Load[w] = 0 /\ UNCHANGED <<join, bodies, losses>>
    BY <1>0, <1>1 DEF Deliver, DrainGet, Queues, Fires, Holds, SafePoints
  <2> QED
    BY <2>1, <2>2, BodiesGoOn DEF Busy
<1>2. ASSUME NEW w \in Slots, NEW pc \in {"chain", "retry", "part"}, NEW out,
             Step(w, pc, out), slot[w].pc \in SafePoints,
             UNCHANGED <<ready, dlq, join, bodies, losses>>
      PROVE  BodiesInv'
  <2>1. slot'[w].pc = pc /\ \A v \in Slots \ {w} : slot'[v] = slot[v]
    BY <1>2, StepEffect
  <2>2. Queues(0) /\ Load[w] = 1
    BY <1>0, <1>2 DEF Queues, Fires
  <2> QED
    BY <1>2, <2>1, <2>2, BodiesGoOn DEF Busy
<1>3. ASSUME NEW w \in Slots, RunFetch(w) \/ ParseEnds(w) \/ ParseRetries(w)
      PROVE  BodiesInv'
  BY <1>2, <1>3
     DEF RunFetch, ParseEnds, ParseRetries, EnterParse, Holds, SafePoints
<1>4. ASSUME NEW w \in Slots, ParseKilled(w) PROVE BodiesInv'
  BY <1>4, BodiesLost DEF ParseKilled, EnterParse, Holds
<1>5. ASSUME NEW w \in Slots, SoftLimit(w) \/ LimitEscapes(w)
      PROVE  BodiesInv'
  <2>1. \E pc \in {"chain", "part"}, reason \in {"soft", "limit"} :
          Step(w, pc, PartFor(slot[w].msg, reason, 0))
    BY <1>5 DEF SoftLimit, LimitEscapes
  <2>2. slot[w].pc # "published"
    BY <1>5 DEF SoftLimit, LimitEscapes
  <2>3. /\ slot[w].pc \in SafePoints
        /\ UNCHANGED <<ready, dlq, join, bodies, losses>>
    BY <1>5, <2>2 DEF SoftLimit, LimitEscapes, SafePoints
  <2> QED
    BY <1>2, <2>1, <2>3
<1>6. ASSUME NEW w \in Slots, PublishRetry(w) \/ PublishParse(w)
      PROVE  BodiesInv'
  <2>1. PICK pc \in {"ack", "published"} : slot'[w].pc = pc
    BY <1>6, StepEffect DEF PublishRetry, PublishParse
  <2>4. /\ \A v \in Slots \ {w} : slot'[v] = slot[v]
        /\ UNCHANGED <<join, bodies, losses>>
    BY <1>6, StepEffect DEF PublishRetry, PublishParse
  <2>2. Queues(1)
    <3>1. PICK m \in Message : ready' = Put(ready, m) /\ dlq' = dlq
      <4>1. CASE PublishRetry(w)
        <5>1. slot[w].msg \in Message /\ slot[w].msg.retries < MaxRetries
          BY <4>1 DEF PublishRetry, Holds, TypeOK, SlotsOK
        <5> QED
          BY <4>1, <5>1, NextMessageType DEF PublishRetry
      <4>2. CASE PublishParse(w)
        <5>1. slot[w].msg.doc \in Docs /\ slot[w].out.status \in {"SUCCESS", "FAILURE"}
          BY <4>2 DEF PublishParse, Holds, TypeOK, SlotsOK, Message, Part
        <5> QED
          BY <4>2, <5>1, FreshMessageType DEF PublishParse
      <4> QED
        BY <1>6, <4>1, <4>2
    <3> QED
      BY <3>1 DEF Queues
  <2>3. Load[w] = 1
    BY <1>0, <1>6 DEF PublishRetry, PublishParse, Fires, Holds, SafePoints
  <2> QED
    BY <2>1, <2>2, <2>3, <2>4, BodiesGoOn DEF Busy, SafePoints
<1>16. ASSUME NEW w \in Slots, RaiseRetry(w) PROVE BodiesInv'
  <2>1. /\ slot'[w].pc = "ack" /\ \A v \in Slots \ {w} : slot'[v] = slot[v]
        /\ Queues(0) /\ UNCHANGED <<join, bodies, losses>>
    BY <1>16, StepEffect DEF RaiseRetry, Queues
  <2>2. 0 <= Load[w]
    BY <1>0
  <2> QED
    BY <2>1, <2>2, BodiesGoOn DEF Busy, SafePoints
<1>7. ASSUME NEW w \in Slots, PartReturn(w) PROVE BodiesInv'
  BY <1>7, BodiesPart
<1>8. ASSUME NEW w \in Slots, FireBody(w) PROVE BodiesInv'
  BY <1>8, BodiesFire
<1>9. ASSUME NEW w \in Slots, DeleteKeys(w) PROVE BodiesInv'
  <2>1. /\ slot'[w].pc = "ack" /\ \A v \in Slots \ {w} : slot'[v] = slot[v]
        /\ Queues(0) /\ join' = {} /\ UNCHANGED <<bodies, losses>>
    BY <1>9, StepEffect DEF DeleteKeys, Queues
  <2>2. /\ IsFiniteSet(join') /\ Cardinality(join') <= Cardinality(join)
        /\ losses \in Nat
    BY <2>1, FS_EmptySet, FS_CardinalityType DEF BodiesInv, TypeOK
  <2>3. ~Holds(w, "fire")' /\ Load'[w] = 0 /\ Load[w] \in {0, 1}
    BY <2>1, <1>0 DEF Holds, Load, Fires, SafePoints
  <2>4. 0 + Load'[w] <= losses' - losses + Load[w]
    BY <2>1, <2>2, <2>3
  <2> QED
    BY <2>1, <2>2, <2>3, <2>4, BodiesKept
<1>10. ASSUME NEW w \in Slots, Release(w),
              UNCHANGED <<ready, dlq, join, bodies, losses>>
       PROVE  BodiesInv'
  <2>1. slot'[w].pc = "idle" /\ \A v \in Slots \ {w} : slot'[v] = slot[v]
    BY <1>10, ReleaseEffect
  <2>2. Queues(0) /\ Load[w] \in {0, 1}
    BY <1>0, <1>10 DEF Queues
  <2> QED
    BY <1>10, <2>1, <2>2, BodiesGoOn DEF SafePoints
<1>11. ASSUME NEW w \in Slots, Ack(w) \/ Cancelled(w) PROVE BodiesInv'
  BY <1>10, <1>11 DEF Ack, Cancelled
<1>12. ASSUME NEW w \in Slots, FinalizeDlq(w) PROVE BodiesInv'
  BY <1>2, <1>10, <1>12 DEF FinalizeDlq, Holds, SafePoints
<1>13. ASSUME NEW w \in Slots, Lose(w) PROVE BodiesInv'
  <2>1. ~Holds(w, "idle")
    BY <1>13, ChordHeaderAssumption DEF Lose, ChordHeaderAssumption, Busy, Holds
  <2> QED
    BY <1>13, <2>1, BodiesLost DEF Lose
<1>14. ASSUME NEW w \in Slots, Disconnect(w) PROVE BodiesInv'
  <2>1. /\ slot'[w].pc = slot[w].pc /\ \A v \in Slots \ {w} : slot'[v] = slot[v]
        /\ losses' = losses + 1 /\ UNCHANGED <<join, bodies>>
    BY <1>14 DEF Disconnect, TypeOK, SlotsOK, Slot
  <2>2. Queues(1)
    <3>1. slot[w].msg \in Message
      BY <1>0, <1>14, ChordHeaderAssumption
         DEF Disconnect, ChordHeaderAssumption, Busy, Holds
    <3> QED
      BY <1>14, <3>1, RequeueQueues DEF Disconnect
  <2>3. Load'[w] = Load[w] /\ Load[w] \in {0, 1} /\ (Holds(w, "fire")' => Holds(w, "fire"))
    BY <2>1 DEF Load, Fires, Holds
  <2>4. /\ losses \in Nat /\ IsFiniteSet(join) /\ Cardinality(join) \in Nat
    BY FS_CardinalityType DEF TypeOK, BodiesInv
  <2>5. 1 + Load'[w] <= losses' - losses + Load[w]
    BY <2>1, <2>3, <2>4
  <2> QED
    BY <2>1, <2>2, <2>3, <2>4, <2>5, BodiesKept
<1>15. CASE Rest \/ UNCHANGED vars
  <2>1. UNCHANGED vars
    BY <1>15 DEF Rest
  <2>2. /\ Stock(ready, One)' = Stock(ready, One)
        /\ Stock(dlq, One)' = Stock(dlq, One)
        /\ Hands(Load)' = Hands(Load)
    BY <2>1 DEF vars, Stock, One, Hands, Load, Fires
  <2>3. Alive' = Alive /\ (Finite => Finite')
    BY <2>2 DEF Alive, Finite
  <2> QED
    BY <2>1, <2>3 DEF vars, BodiesInv, Unfired, Holds
<1> QED
  BY <1>1, <1>3, <1>4, <1>5, <1>6, <1>7, <1>8, <1>9, <1>11, <1>12, <1>13,
     <1>14, <1>15, <1>16 DEF Next, Progress, Dispatch

LEMMA BodiesInit == Init => BodiesInv
<1> SUFFICES ASSUME Init PROVE BodiesInv
  OBVIOUS
<1>1. /\ \A m \in Message :
           ready[m] = (IF \E d \in Docs : m = FetchMessage(d) THEN 1 ELSE 0)
      /\ ready \in [Message -> Nat]
      /\ dlq = [m \in Message |-> 0] /\ dlq \in [Message -> Nat]
      /\ join = {} /\ bodies = <<>> /\ losses = 0
      /\ \A w \in Slots : ~Fires(w) /\ ~Holds(w, "fire")
      /\ One \in [Message -> Nat] /\ Load \in [Slots -> Nat]
      /\ \A m \in Message : One[m] = 1
      /\ \A w \in Slots : Load[w] = 0
  BY DEF Init, Idle, Fires, Holds, SafePoints, One, Load
<1>2. Stock(dlq, One) = {} /\ Hands(Load) = {}
  BY <1>1, InStock, InHands
<1>3. /\ IsFiniteSet(Stock(ready, One))
      /\ Cardinality(Stock(ready, One)) <= Cardinality(Docs)
  <2> DEFINE f == [d \in Docs |-> <<FetchMessage(d), 1, 1>>]
  <2>1. f \in [Docs -> Stock(ready, One)]
    <3> SUFFICES ASSUME NEW d \in Docs
                 PROVE  <<FetchMessage(d), 1, 1>> \in Stock(ready, One)
      OBVIOUS
    <3>1. FetchMessage(d) \in Message /\ ready[FetchMessage(d)] = 1
      BY <1>1, FreshMessageType
    <3> QED
      BY <1>1, <3>1, InStock
  <2>2. ASSUME NEW t \in Stock(ready, One) PROVE \E d \in Docs : f[d] = t
    <3>1. PICK m \in Message, k \in Nat, j \in Nat :
            k \in 1..ready[m] /\ j \in 1..One[m] /\ t = <<m, k, j>>
      BY <1>1, InStock
    <3>2. PICK d \in Docs : m = FetchMessage(d)
      BY <1>1, <3>1
    <3>3. k = 1 /\ j = 1
      BY <1>1, <3>1
    <3> QED
      BY <3>1, <3>2, <3>3
  <2>3. f \in Surjection(Docs, Stock(ready, One)) /\ IsFiniteSet(Docs)
    BY <2>1, <2>2, ChordHeaderAssumption DEF Surjection, ChordHeaderAssumption
  <2> HIDE DEF f
  <2> QED
    BY <2>3, FS_Surjection
<1>4. /\ Cardinality({}) = 0 /\ IsFiniteSet({})
      /\ Cardinality(Stock(ready, One)) \in Nat /\ Cardinality(Docs) \in Nat
  BY <1>3, FS_EmptySet, FS_CardinalityType, ChordHeaderAssumption
     DEF ChordHeaderAssumption
<1>5. Alive + Cardinality(join) <= Cardinality(Docs) + losses
  <2>1. /\ Alive = Cardinality(Stock(ready, One)) + 0 + 0
        /\ Cardinality(join) = 0 /\ losses = 0
    BY <1>1, <1>2, <1>4 DEF Alive
  <2> QED
    BY <1>3, <1>4, <2>1
<1> QED
  BY <1>1, <1>2, <1>3, <1>4, <1>5 DEF BodiesInv, Finite, Unfired

(* Until a limit hits beside a published retry, notify is published once,  *)
(* and once more for each loss at most, wherever the losses and the other  *)
(* limits strike, for any number of documents, slots and retries.          *)
THEOREM BodiesAreBounded == Spec => []BodiesBounded
<1> DEFINE Inv == "published" \notin hits => BodiesInv
<1>1. Init => TypeOK /\ Inv
  BY InitType, BodiesInit
<1>2. TypeOK /\ Inv /\ [Next]_vars => TypeOK' /\ Inv'
  <2> SUFFICES ASSUME TypeOK, Inv, [Next]_vars PROVE TypeOK' /\ Inv'
    OBVIOUS
  <2>1. TypeOK'
    BY StepPreservesType
  <2>2. ASSUME "published" \notin hits' PROVE BodiesInv'
    <3>1. BodiesInv
      BY <2>2, HitsGrow
    <3> QED
      BY <2>1, <2>2, <3>1, BodiesStep
  <2> QED
    BY <2>1, <2>2
<1>3. TypeOK /\ Inv => BodiesBounded
  <2> SUFFICES ASSUME TypeOK, BodiesInv PROVE Len(bodies) <= 1 + losses
    BY DEF BodiesBounded
  <2>1. Alive \in Nat /\ losses \in Nat /\ Len(bodies) \in Nat
    BY AliveType, LenProperties DEF BodiesInv, TypeOK
  <2>2. CASE Unfired
    BY <2>1, <2>2 DEF Unfired
  <2>3. CASE Len(bodies) + Alive <= 1 + losses
    BY <2>1, <2>3
  <2> QED
    BY <2>2, <2>3 DEF BodiesInv
<1> HIDE DEF Inv
<1> QED
  BY <1>1, <1>2, <1>3, PTL DEF Spec

-----------------------------------------------------------------------------
(* AttemptsBounded.  What the messages and slots of one document may still *)
(* add to its counter, each weighed by the executions left to it.          *)
Worth(m, counted) ==
    IF m.task = "fetch" THEN MostAttempts(m.doc)
    ELSE IF Schedule[m.doc].kind = "POISON"
         THEN DeliveryLimit + 1 - m.deliveries
    ELSE IF Schedule[m.doc].kind = "CRASH_ONCE"
         THEN IF counted[m.doc] = 0 THEN 2 ELSE 1
    ELSE MaxRetries + 1 - m.retries

Retried(m) == [m EXCEPT !.retries = @ + 1, !.deliveries = 0]

SlotWorth(s, counted) ==
    IF s.pc = "body" THEN Worth(s.msg, counted)
    ELSE IF s.pc = "chain" THEN MostAttempts(s.msg.doc)
    ELSE IF s.pc = "retry" THEN Worth(Retried(s.msg), counted)
    ELSE 0

QueuedWorth(d, counted) ==
    [m \in Message |-> IF m.doc = d THEN Worth(m, counted) ELSE 0]
HeldWorth(d) ==
    [w \in Slots |->
        IF slot[w].msg.doc = d THEN SlotWorth(slot[w], attempts) ELSE 0]

AttemptsOf(d) ==
    /\ IsFiniteSet(Stock(ready, QueuedWorth(d, attempts)))
    /\ IsFiniteSet(Hands(HeldWorth(d)))
    /\ attempts[d] + Cardinality(Stock(ready, QueuedWorth(d, attempts)))
         + Cardinality(Hands(HeldWorth(d))) <= (1 + losses) * MostAttempts(d)

AttemptsInv == \A d \in Docs : AttemptsOf(d)

(* What a step adds to the worth that is queued for d.                     *)
Gains(d, g) ==
    \/ g = 0 /\ ready' = ready
    \/ \E m \in Message : ready' = Put(ready, m) /\ g = QueuedWorth(d, attempts')[m]
    \/ \E m \in Message : /\ ready[m] > 0 /\ ready' = Take(ready, m)
                          /\ g = 0 - QueuedWorth(d, attempts)[m]

LEMMA MostType ==
    ASSUME NEW d \in Docs
    PROVE  /\ MostAttempts(d) \in Nat /\ MostAttempts(d) >= 1
           /\ Schedule[d].kind = "POISON" => MostAttempts(d) = DeliveryLimit + 1
           /\ Schedule[d].kind = "CRASH_ONCE" => MostAttempts(d) = 2
           /\ Schedule[d].kind \notin {"POISON", "CRASH_ONCE"} =>
                MostAttempts(d) = MaxRetries + 1
<1>1. /\ Schedule[d].kind = "POISON" => MostAttempts(d) = DeliveryLimit + 1
      /\ Schedule[d].kind = "CRASH_ONCE" => MostAttempts(d) = 2
      /\ Schedule[d].kind \notin {"POISON", "CRASH_ONCE"} =>
           MostAttempts(d) = MaxRetries + 1
  BY DEF MostAttempts
<1>2. /\ DeliveryLimit + 1 \in Nat /\ DeliveryLimit + 1 >= 1
      /\ MaxRetries + 1 \in Nat /\ MaxRetries + 1 >= 1
      /\ 2 \in Nat /\ 2 >= 1
  BY ConstantTypes
<1>3. MostAttempts(d) \in Nat /\ MostAttempts(d) >= 1
  <2>1. CASE Schedule[d].kind = "POISON"
    BY <1>1, <1>2, <2>1, Zenon
  <2>2. CASE Schedule[d].kind = "CRASH_ONCE"
    BY <1>1, <1>2, <2>2, Zenon
  <2>3. CASE Schedule[d].kind \notin {"POISON", "CRASH_ONCE"}
    BY <1>1, <1>2, <2>3, Zenon
  <2> QED
    BY <2>1, <2>2, <2>3
<1> QED
  BY <1>1, <1>3

LEMMA WorthType ==
    ASSUME NEW m \in Message, NEW f \in [Docs \cup {Unknown} -> Nat]
    PROVE  /\ Worth(m, f) \in Nat /\ Worth(m, f) >= 1
           /\ Worth(m, f) <= MostAttempts(m.doc)
<1>1. /\ m.doc \in Docs /\ m.deliveries \in 0..DeliveryLimit
      /\ m.retries \in 0..MaxRetries /\ m.task \in {"fetch", "parse"}
  BY DEF Message
<1>2. PICK k : k = MostAttempts(m.doc)
  OBVIOUS
<1>3. /\ k \in Nat /\ k >= 1
      /\ Schedule[m.doc].kind = "POISON" => k = DeliveryLimit + 1
      /\ Schedule[m.doc].kind = "CRASH_ONCE" => k = 2
      /\ Schedule[m.doc].kind \notin {"POISON", "CRASH_ONCE"} => k = MaxRetries + 1
  BY <1>1, <1>2, MostType
<1>4. Worth(m, f) \in Nat /\ Worth(m, f) >= 1 /\ Worth(m, f) <= k
  <2>1. CASE m.task = "fetch"
    BY <1>2, <1>3, <2>1 DEF Worth
  <2>2. CASE m.task # "fetch" /\ Schedule[m.doc].kind = "POISON"
    <3>1. Worth(m, f) = DeliveryLimit + 1 - m.deliveries
      BY <2>2 DEF Worth
    <3> QED
      BY <1>1, <1>3, <2>2, <3>1, ConstantTypes
  <2>3. CASE m.task # "fetch" /\ Schedule[m.doc].kind = "CRASH_ONCE"
    <3>1. Worth(m, f) \in {1, 2}
      BY <2>3 DEF Worth
    <3> QED
      BY <1>3, <2>3, <3>1
  <2>4. CASE m.task # "fetch" /\ Schedule[m.doc].kind \notin {"POISON", "CRASH_ONCE"}
    <3>1. Worth(m, f) = MaxRetries + 1 - m.retries
      BY <2>4 DEF Worth
    <3> QED
      BY <1>1, <1>3, <2>4, <3>1, ConstantTypes
  <2> QED
    BY <2>1, <2>2, <2>3, <2>4
<1> QED
  BY <1>2, <1>4

(* It never grows as the counter does.                                     *)
LEMMA WorthFalls ==
    ASSUME NEW m \in Message,
           NEW f \in [Docs \cup {Unknown} -> Nat],
           NEW g \in [Docs \cup {Unknown} -> Nat], g[m.doc] >= f[m.doc]
    PROVE  Worth(m, g) <= Worth(m, f)
<1>1. f[m.doc] \in Nat /\ g[m.doc] \in Nat
  BY DEF Message
<1>2. Worth(m, f) \in Nat
  BY WorthType
<1>3. CASE m.task # "fetch" /\ Schedule[m.doc].kind = "CRASH_ONCE"
             /\ Schedule[m.doc].kind # "POISON"
  <2>1. /\ Worth(m, f) = (IF f[m.doc] = 0 THEN 2 ELSE 1)
        /\ Worth(m, g) = (IF g[m.doc] = 0 THEN 2 ELSE 1)
    BY <1>3 DEF Worth
  <2> QED
    BY <1>1, <2>1
<1>4. CASE ~(m.task # "fetch" /\ Schedule[m.doc].kind = "CRASH_ONCE"
               /\ Schedule[m.doc].kind # "POISON")
  <2>1. Worth(m, g) = Worth(m, f)
    BY <1>4, Zenon DEF Worth
  <2> QED
    BY <1>2, <2>1
<1> QED
  BY <1>3, <1>4

LEMMA RetriedType ==
    ASSUME NEW m \in Message, m.retries < MaxRetries
    PROVE  /\ Retried(m) \in Message /\ Retried(m).doc = m.doc
           /\ Retried(m).task = m.task /\ Retried(m).retries = m.retries + 1
<1>1. Retried(m) \in Message
  BY NextMessageType DEF Retried
<1> QED
  BY <1>1 DEF Retried, Message

LEMMA SlotWorthType ==
    ASSUME NEW s, NEW f \in [Docs \cup {Unknown} -> Nat],
           s.pc # "idle" => s.msg \in Message,
           s.pc = "retry" => s.msg.retries < MaxRetries
    PROVE  /\ SlotWorth(s, f) \in Nat
           /\ s.msg \in Message => SlotWorth(s, f) <= MostAttempts(s.msg.doc)
<1>1. \A m \in Message : m.doc \in Docs
  BY DEF Message
<1>2. CASE s.pc = "body"
  BY <1>2, WorthType DEF SlotWorth
<1>3. CASE s.pc = "chain"
  BY <1>1, <1>3, MostType DEF SlotWorth
<1>4. CASE s.pc = "retry"
  <2>1. SlotWorth(s, f) = Worth(Retried(s.msg), f)
    BY <1>4 DEF SlotWorth
  <2> QED
    BY <1>4, <2>1, RetriedType, WorthType
<1>5. CASE s.pc \notin {"body", "chain", "retry"}
  <2>1. SlotWorth(s, f) = 0
    BY <1>5 DEF SlotWorth
  <2>2. s.msg \in Message => MostAttempts(s.msg.doc) \in Nat
    BY <1>1, MostType
  <2> QED
    BY <2>1, <2>2
<1> QED
  BY <1>2, <1>3, <1>4, <1>5

(* The slots and the counter of a state, as the lemmas above want them.    *)
LEMMA SlotShape ==
    TypeOK => /\ attempts \in [Docs \cup {Unknown} -> Nat]
              /\ \A w \in Slots :
                   /\ slot[w].pc # "idle" => slot[w].msg \in Message
                   /\ slot[w].pc = "retry" => slot[w].msg.retries < MaxRetries
  BY DEF TypeOK, SlotsOK, Holds

LEMMA SlotShapeNext ==
    TypeOK' => /\ attempts' \in [Docs \cup {Unknown} -> Nat]
               /\ \A w \in Slots :
                    /\ slot'[w].pc # "idle" => slot'[w].msg \in Message
                    /\ slot'[w].pc = "retry" => slot'[w].msg.retries < MaxRetries
  BY DEF TypeOK, SlotsOK, Holds

LEMMA WeightsType ==
    ASSUME TypeOK, TypeOK', NEW d \in Docs
    PROVE  /\ QueuedWorth(d, attempts) \in [Message -> Nat]
           /\ QueuedWorth(d, attempts') \in [Message -> Nat]
           /\ HeldWorth(d) \in [Slots -> Nat]
           /\ HeldWorth(d)' \in [Slots -> Nat]
<1>1. /\ \A m \in Message : Worth(m, attempts) \in Nat
      /\ \A m \in Message : Worth(m, attempts') \in Nat
  BY WorthType, SlotShape, SlotShapeNext
<1>2. \A w \in Slots : SlotWorth(slot[w], attempts) \in Nat
  BY SlotWorthType, SlotShape
<1>3. \A w \in Slots : SlotWorth(slot'[w], attempts') \in Nat
  BY SlotWorthType, SlotShapeNext
<1> QED
  BY <1>1, <1>2, <1>3 DEF QueuedWorth, HeldWorth

LEMMA WeightsFall ==
    ASSUME TypeOK, TypeOK', NEW d \in Docs, attempts'[d] >= attempts[d],
           NEW w \in Slots, \A v \in Slots \ {w} : slot'[v] = slot[v]
    PROVE  /\ \A m \in Message :
                QueuedWorth(d, attempts')[m] <= QueuedWorth(d, attempts)[m]
           /\ \A v \in Slots \ {w} : HeldWorth(d)'[v] <= HeldWorth(d)[v]
<1>1. /\ attempts \in [Docs \cup {Unknown} -> Nat]
      /\ attempts' \in [Docs \cup {Unknown} -> Nat]
  BY SlotShape, SlotShapeNext
<1>2. ASSUME NEW m \in Message, m.doc = d
      PROVE  Worth(m, attempts') <= Worth(m, attempts)
  BY <1>1, <1>2, WorthFalls
<1>3. ASSUME NEW m \in Message
      PROVE  QueuedWorth(d, attempts')[m] <= QueuedWorth(d, attempts)[m]
  BY <1>2 DEF QueuedWorth
<1>4. ASSUME NEW v \in Slots, v # w
      PROVE  HeldWorth(d)'[v] <= HeldWorth(d)[v]
  <2>1. /\ slot'[v] = slot[v]
        /\ slot[v].pc # "idle" => slot[v].msg \in Message
        /\ slot[v].pc = "retry" => slot[v].msg.retries < MaxRetries
    BY <1>4, SlotShape
  <2>2. CASE slot[v].msg.doc # d
    BY <2>1, <2>2 DEF HeldWorth
  <2>3. CASE slot[v].msg.doc = d
    <3>1. /\ HeldWorth(d)'[v] = SlotWorth(slot[v], attempts')
          /\ HeldWorth(d)[v] = SlotWorth(slot[v], attempts)
      BY <2>1, <2>3 DEF HeldWorth
    <3>2. CASE slot[v].pc = "body"
      BY <1>2, <2>1, <2>3, <3>1, <3>2 DEF SlotWorth
    <3>3. CASE slot[v].pc = "retry"
      BY <1>2, <2>1, <2>3, <3>1, <3>3, RetriedType DEF SlotWorth
    <3>4. CASE slot[v].pc \notin {"body", "retry"}
      <4>1. SlotWorth(slot[v], attempts') = SlotWorth(slot[v], attempts)
        BY <3>4 DEF SlotWorth
      <4>2. SlotWorth(slot[v], attempts) \in Nat
        BY <1>1, <2>1, SlotWorthType
      <4> QED
        BY <3>1, <4>1, <4>2
    <3> QED
      BY <3>2, <3>3, <3>4
  <2> QED
    BY <2>2, <2>3
<1> QED
  BY <1>3, <1>4

LEMMA StockGains ==
    ASSUME TypeOK, TypeOK', NEW d \in Docs, attempts'[d] >= attempts[d],
           IsFiniteSet(Stock(ready, QueuedWorth(d, attempts))), NEW g, Gains(d, g),
           \A m \in Message : QueuedWorth(d, attempts')[m] <= QueuedWorth(d, attempts)[m]
    PROVE  /\ g \in Int
           /\ IsFiniteSet(Stock(ready', QueuedWorth(d, attempts')))
           /\ Cardinality(Stock(ready', QueuedWorth(d, attempts')))
                <= Cardinality(Stock(ready, QueuedWorth(d, attempts))) + g
<1>1. PICK W, X : W = QueuedWorth(d, attempts) /\ X = QueuedWorth(d, attempts')
  OBVIOUS
<1>2. /\ ready \in [Message -> Nat] /\ W \in [Message -> Nat]
      /\ \A m \in Message : X[m] <= W[m]
      /\ IsFiniteSet(Stock(ready, W)) /\ Cardinality(Stock(ready, W)) \in Nat
  BY <1>1, WeightsType, FS_CardinalityType DEF TypeOK
<1>3. X \in [Message -> Nat]
  BY <1>1, WeightsType
<1>4. ASSUME NEW q \in [Message -> Nat], IsFiniteSet(Stock(q, W))
      PROVE  /\ IsFiniteSet(Stock(q, X))
             /\ Cardinality(Stock(q, X)) \in Nat /\ Cardinality(Stock(q, W)) \in Nat
             /\ Cardinality(Stock(q, X)) <= Cardinality(Stock(q, W))
  BY <1>2, <1>3, <1>4, StockLess, FS_CardinalityType
<1>5. CASE g = 0 /\ ready' = ready
  BY <1>1, <1>2, <1>4, <1>5
<1>6. ASSUME NEW m \in Message, ready' = Put(ready, m), g = X[m]
      PROVE  /\ g \in Int /\ IsFiniteSet(Stock(ready', X))
             /\ Cardinality(Stock(ready', X)) <= Cardinality(Stock(ready, W)) + g
  <2>1. /\ IsFiniteSet(Stock(ready, X)) /\ Cardinality(Stock(ready, X)) \in Nat
        /\ Cardinality(Stock(ready, X)) <= Cardinality(Stock(ready, W))
    BY <1>2, <1>4
  <2>2. /\ IsFiniteSet(Stock(Put(ready, m), X))
        /\ Cardinality(Stock(Put(ready, m), X)) = Cardinality(Stock(ready, X)) + X[m]
    BY <1>2, <1>3, <2>1, StockPut
  <2>3. X[m] \in Nat
    BY <1>3
  <2> QED
    BY <1>2, <1>6, <2>1, <2>2, <2>3
<1>7. ASSUME NEW m \in Message, ready[m] > 0, ready' = Take(ready, m), g = 0 - W[m]
      PROVE  /\ g \in Int /\ IsFiniteSet(Stock(ready', X))
             /\ Cardinality(Stock(ready', X)) <= Cardinality(Stock(ready, W)) + g
  <2>1. /\ IsFiniteSet(Stock(Take(ready, m), W))
        /\ Cardinality(Stock(Take(ready, m), W)) + W[m] = Cardinality(Stock(ready, W))
    BY <1>2, <1>7, StockTake
  <2>2. Take(ready, m) \in [Message -> Nat]
    BY <1>2, <1>7, TakeType
  <2>3. /\ IsFiniteSet(Stock(Take(ready, m), X))
        /\ Cardinality(Stock(Take(ready, m), X)) \in Nat
        /\ Cardinality(Stock(Take(ready, m), W)) \in Nat
        /\ Cardinality(Stock(Take(ready, m), X)) <= Cardinality(Stock(Take(ready, m), W))
    BY <1>4, <2>1, <2>2
  <2>4. W[m] \in Nat
    BY <1>2
  <2> QED
    BY <1>2, <1>7, <2>1, <2>3, <2>4
<1> QED
  BY <1>1, <1>5, <1>6, <1>7 DEF Gains

(* A step of slot w, for the documents it concerns and the others.         *)
LEMMA AttemptsKept ==
    ASSUME TypeOK, TypeOK', NEW d \in Docs, AttemptsOf(d),
           NEW w \in Slots, \A v \in Slots \ {w} : slot'[v] = slot[v],
           attempts'[d] >= attempts[d], NEW g, Gains(d, g),
           \/ /\ losses' = losses
              /\ attempts'[d] + g + HeldWorth(d)'[w]
                   <= attempts[d] + HeldWorth(d)[w]
           \/ /\ losses' = losses + 1
              /\ attempts'[d] + g + HeldWorth(d)'[w]
                   <= attempts[d] + HeldWorth(d)[w] + MostAttempts(d)
    PROVE  AttemptsOf(d)'
<1>1. PICK V, X, n, p, a, b :
        /\ V = HeldWorth(d) /\ X = HeldWorth(d)'
        /\ n = Cardinality(Stock(ready, QueuedWorth(d, attempts)))
        /\ p = Cardinality(Stock(ready', QueuedWorth(d, attempts')))
        /\ a = attempts[d] /\ b = attempts'[d]
  OBVIOUS
<1>2. /\ V \in [Slots -> Nat] /\ X \in [Slots -> Nat]
      /\ a \in Nat /\ b \in Nat /\ losses \in Nat
  BY <1>1, WeightsType DEF TypeOK
<1>3. /\ IsFiniteSet(Hands(V)) /\ IsFiniteSet(Stock(ready, QueuedWorth(d, attempts)))
      /\ \A v \in Slots \ {w} : X[v] <= V[v]
      /\ \A m \in Message : QueuedWorth(d, attempts')[m] <= QueuedWorth(d, attempts)[m]
  BY <1>1, WeightsFall DEF AttemptsOf
<1>4. /\ IsFiniteSet(Hands(X))
      /\ Cardinality(Hands(X)) + V[w] <= Cardinality(Hands(V)) + X[w]
  BY <1>2, <1>3, HandsMove
<1>5. /\ g \in Int /\ IsFiniteSet(Stock(ready', QueuedWorth(d, attempts'))) /\ p <= n + g
  BY <1>1, <1>3, StockGains
<1>6. /\ n \in Nat /\ p \in Nat
      /\ Cardinality(Hands(X)) \in Nat /\ Cardinality(Hands(V)) \in Nat
      /\ V[w] \in Nat /\ X[w] \in Nat
  BY <1>1, <1>2, <1>3, <1>4, <1>5, FS_CardinalityType
<1>7. PICK k : k = MostAttempts(d)
  OBVIOUS
<1>8. k \in Nat /\ MostAttempts(d)' = k
  BY <1>7, MostType DEF MostAttempts
<1>9. a + n + Cardinality(Hands(V)) <= (1 + losses) * k
  BY <1>1, <1>7 DEF AttemptsOf
<1>10. b + p + Cardinality(Hands(X)) <= (1 + losses') * k
  <2>1. CASE losses' = losses /\ b + g + X[w] <= a + V[w]
    <3>1. b + p + Cardinality(Hands(X)) <= a + n + Cardinality(Hands(V))
      BY <1>2, <1>4, <1>5, <1>6, <2>1
    <3>2. (1 + losses) * k \in Nat
      BY <1>2, <1>8
    <3>3. b + p + Cardinality(Hands(X)) <= (1 + losses) * k
      BY <1>2, <1>6, <1>9, <3>1, <3>2
    <3> QED
      BY <2>1, <3>3
  <2>2. CASE losses' = losses + 1 /\ b + g + X[w] <= a + V[w] + k
    <3>1. b + p + Cardinality(Hands(X)) <= a + n + Cardinality(Hands(V)) + k
      BY <1>2, <1>4, <1>5, <1>6, <1>8, <2>2
    <3>2. /\ (1 + losses) * k \in Nat
          /\ (1 + (losses + 1)) * k = (1 + losses) * k + k
      BY <1>2, <1>8
    <3>3. b + p + Cardinality(Hands(X)) <= (1 + losses) * k + k
      BY <1>2, <1>6, <1>8, <1>9, <3>1, <3>2
    <3> QED
      BY <2>2, <3>2, <3>3
  <2> QED
    BY <1>1, <1>7, <2>1, <2>2
<1>11. /\ Stock(ready, QueuedWorth(d, attempts))' = Stock(ready', QueuedWorth(d, attempts'))
       /\ Hands(HeldWorth(d))' = Hands(HeldWorth(d)')
  BY DEF Stock, Hands
<1> QED
  BY <1>1, <1>4, <1>5, <1>8, <1>10, <1>11 DEF AttemptsOf

(* A step of a busy slot: what it publishes and goes on to do is paid for  *)
(* by what it was doing, or by a loss.                                     *)
LEMMA AttemptsStepOf ==
    ASSUME TypeOK, TypeOK', AttemptsInv, NEW w \in Slots,
           NEW m \in Message, slot[w].msg = m,
           \A v \in Slots \ {w} : slot'[v] = slot[v],
           slot'[w].pc = "idle" \/ slot'[w].msg = m,
           \A d \in Docs \ {m.doc} : attempts'[d] = attempts[d],
           attempts'[m.doc] >= attempts[m.doc], NEW g,
           \/ ready' = ready /\ g = 0
           \/ \E n \in Message : /\ n.doc = m.doc /\ ready' = Put(ready, n)
                                 /\ g = Worth(n, attempts'),
           \/ /\ losses' = losses
              /\ attempts'[m.doc] + g + SlotWorth(slot'[w], attempts')
                   <= attempts[m.doc] + SlotWorth(slot[w], attempts)
           \/ /\ losses' = losses + 1
              /\ attempts'[m.doc] + g + SlotWorth(slot'[w], attempts')
                   <= attempts[m.doc] + SlotWorth(slot[w], attempts)
                        + MostAttempts(m.doc)
    PROVE  AttemptsInv'
<1>1. /\ m.doc \in Docs /\ losses' \in {losses, losses + 1}
      /\ slot'[w].pc = "idle" => SlotWorth(slot'[w], attempts') = 0
  BY DEF Message, SlotWorth
<1>2. AttemptsOf(m.doc)'
  <2>1. Gains(m.doc, g)
    BY DEF Gains, QueuedWorth
  <2>2. HeldWorth(m.doc)[w] = SlotWorth(slot[w], attempts)
    BY DEF HeldWorth
  <2>3. \/ HeldWorth(m.doc)'[w] = SlotWorth(slot'[w], attempts')
        \/ HeldWorth(m.doc)'[w] = 0 /\ SlotWorth(slot'[w], attempts') = 0
    BY <1>1 DEF HeldWorth
  <2>4. HeldWorth(m.doc)'[w] = SlotWorth(slot'[w], attempts')
    BY <2>3, Zenon
  <2>5. AttemptsOf(m.doc)
    BY <1>1 DEF AttemptsInv
  <2> QED
    BY <1>1, <2>1, <2>2, <2>4, <2>5, AttemptsKept
<1>3. ASSUME NEW d \in Docs, d # m.doc PROVE AttemptsOf(d)'
  <2>1. Gains(d, 0)
    BY <1>3 DEF Gains, QueuedWorth
  <2>2. HeldWorth(d)'[w] = 0
    BY <1>1, <1>3 DEF HeldWorth
  <2>3. HeldWorth(d)[w] \in Nat /\ attempts[d] \in Nat /\ MostAttempts(d) \in Nat
    BY <1>3, WeightsType, SlotShape, MostType
  <2>4. attempts'[d] = attempts[d] /\ AttemptsOf(d)
    BY <1>3 DEF AttemptsInv
  <2>5. /\ attempts'[d] >= attempts[d]
        /\ attempts'[d] + 0 + HeldWorth(d)'[w] <= attempts[d] + HeldWorth(d)[w]
        /\ attempts'[d] + 0 + HeldWorth(d)'[w]
             <= attempts[d] + HeldWorth(d)[w] + MostAttempts(d)
    BY <2>2, <2>3, <2>4
  <2> QED
    BY <1>1, <1>3, <2>1, <2>4, <2>5, AttemptsKept
<1> QED
  BY <1>2, <1>3 DEF AttemptsInv

(* One that leaves the slot with nothing more to run or publish.           *)
LEMMA AttemptsIdle ==
    ASSUME TypeOK, TypeOK', AttemptsInv, NEW w \in Slots,
           \A v \in Slots \ {w} : slot'[v] = slot[v],
           slot'[w].pc \notin {"body", "chain", "retry"},
           UNCHANGED <<ready, attempts, losses>>
    PROVE  AttemptsInv'
<1> SUFFICES ASSUME NEW d \in Docs PROVE AttemptsOf(d)'
  BY DEF AttemptsInv
<1>1. PICK k, a : k = attempts[d] /\ a = HeldWorth(d)[w]
  OBVIOUS
<1>2. k \in Nat /\ a \in Nat /\ attempts'[d] = k
  BY <1>1, WeightsType, SlotShape
<1>3. Gains(d, 0) /\ HeldWorth(d)'[w] = 0
  BY DEF Gains, HeldWorth, SlotWorth
<1>4. k + 0 + 0 <= k + a /\ k >= k
  BY <1>2
<1>5. AttemptsOf(d)
  BY DEF AttemptsInv
<1> QED
  BY <1>1, <1>2, <1>3, <1>4, <1>5, AttemptsKept

(* Entering parse_document counts one execution of the message's document, *)
(* or of "unknown".                                                        *)
LEMMA EnterCounts ==
    ASSUME TypeOK, NEW w \in Slots, EnterParse(w)
    PROVE  /\ slot[w].msg \in Message /\ slot[w].msg.doc \in Docs
           /\ slot[w].msg.task = "parse"
           /\ \A d \in Docs \ {slot[w].msg.doc} : attempts'[d] = attempts[d]
           /\ attempts'[slot[w].msg.doc]
                \in {attempts[slot[w].msg.doc], attempts[slot[w].msg.doc] + 1}
           /\ SlotWorth(slot[w], attempts) = Worth(slot[w].msg, attempts)
<1>1. /\ slot[w].pc = "body" /\ slot[w].msg \in Message
      /\ slot[w].msg.doc \in Docs /\ slot[w].msg.task = "parse"
  BY SlotShape DEF EnterParse, Holds, Message
<1>2. Unknown \notin Docs /\ attempts \in [Docs \cup {Unknown} -> Nat]
  BY ConstantTypes, SlotShape
<1>3. CASE attempts' = attempts
  BY <1>1, <1>3 DEF SlotWorth
<1>4. CASE attempts' = [attempts EXCEPT ![slot[w].msg.doc] = @ + 1]
  BY <1>1, <1>2, <1>4 DEF SlotWorth
<1>5. CASE attempts' = [attempts EXCEPT ![Unknown] = @ + 1]
  BY <1>1, <1>2, <1>5 DEF SlotWorth
<1> QED
  BY <1>3, <1>4, <1>5 DEF EnterParse, DocId

(* The execution is the message's last.                                    *)
LEMMA AttemptsSpent ==
    ASSUME TypeOK, TypeOK', AttemptsInv, NEW w \in Slots, Holds(w, "body"),
           slot[w].msg.task = "parse",
           \A v \in Slots \ {w} : slot'[v] = slot[v],
           \/ slot'[w].pc = "idle"
           \/ slot'[w].msg = slot[w].msg /\ slot'[w].pc = "part",
           \A d \in Docs \ {slot[w].msg.doc} : attempts'[d] = attempts[d],
           attempts'[slot[w].msg.doc]
             \in {attempts[slot[w].msg.doc], attempts[slot[w].msg.doc] + 1},
           UNCHANGED <<ready, losses>>
    PROVE  AttemptsInv'
<1>1. PICK m, k, n : /\ m = slot[w].msg /\ k = attempts[m.doc]
                     /\ n = SlotWorth(slot[w], attempts)
  OBVIOUS
<1>2. /\ m \in Message /\ m.doc \in Docs /\ k \in Nat
  BY <1>1, SlotShape DEF Holds, Message
<1>3. n = Worth(m, attempts) /\ n \in Nat /\ n >= 1
  <2>1. n = Worth(m, attempts)
    BY <1>1 DEF SlotWorth, Holds
  <2> QED
    BY <1>2, <2>1, WorthType, SlotShape
<1>4. SlotWorth(slot'[w], attempts') = 0
  BY DEF SlotWorth
<1>5. attempts'[m.doc] \in {k, k + 1}
  BY <1>1
<1>6. /\ attempts'[m.doc] >= attempts[m.doc]
      /\ attempts'[m.doc] + 0 + 0 <= k + n
  BY <1>1, <1>2, <1>3, <1>5
<1>7. attempts'[m.doc] + 0 + SlotWorth(slot'[w], attempts')
        <= attempts[m.doc] + SlotWorth(slot[w], attempts)
  BY <1>1, <1>4, <1>6
<1>8. /\ slot'[w].pc = "idle" \/ slot'[w].msg = m
      /\ ready' = ready /\ losses' = losses
      /\ \A d \in Docs \ {m.doc} : attempts'[d] = attempts[d]
  BY <1>1
<1> QED
  BY <1>1, <1>2, <1>6, <1>7, <1>8, AttemptsStepOf

(* A retry is one execution less.                                          *)
LEMMA AttemptsRetries ==
    ASSUME TypeOK, TypeOK', AttemptsInv, NEW w \in Slots, ParseRetries(w)
    PROVE  AttemptsInv'
<1>1. PICK m, k : m = slot[w].msg /\ k = attempts[m.doc]
  OBVIOUS
<1>2. /\ m \in Message /\ m.doc \in Docs /\ m.task = "parse"
      /\ \A d \in Docs \ {m.doc} : attempts'[d] = attempts[d]
      /\ attempts'[m.doc] \in {k, k + 1}
      /\ SlotWorth(slot[w], attempts) = Worth(m, attempts)
      /\ EnterParse(w) /\ Step(w, "retry", NoPart) /\ ready' = ready
      /\ losses' = losses
  BY <1>1, EnterCounts DEF ParseRetries, EnterParse
<1>3. /\ m.retries \in Nat /\ m.retries < MaxRetries /\ k \in Nat
      /\ attempts \in [Docs \cup {Unknown} -> Nat]
      /\ attempts' \in [Docs \cup {Unknown} -> Nat]
  BY <1>1, <1>2, ConstantTypes, SlotShape, SlotShapeNext
     DEF ParseRetries, Retries, Message
<1>4. Schedule[m.doc].kind \notin {"POISON", "CRASH_ONCE"}
  <2>1. /\ Schedule[m.doc].kind = "POISON" \/ Schedule[m.doc].kind = "CRASH_ONCE" =>
             ParseOutcome(Schedule[m.doc], Attempt(m)) # "transient"
    BY DEF ParseOutcome, IsTransient
  <2>2. Outcome(m) = "transient"
    BY <1>1 DEF ParseRetries, Retries
  <2>3. ParseOutcome(Schedule[m.doc], Attempt(m)) = "transient"
    BY <2>2 DEF Outcome
  <2> QED
    BY <2>1, <2>3
<1>5. /\ slot'[w].pc = "retry" /\ slot'[w].msg = m
      /\ \A v \in Slots \ {w} : slot'[v] = slot[v]
  BY <1>1, <1>2, StepEffect
<1>6. SlotWorth(slot'[w], attempts') = MaxRetries + 1 - (m.retries + 1)
  <2>1. /\ Retried(m).doc = m.doc /\ Retried(m).task = "parse"
        /\ Retried(m).retries = m.retries + 1
    BY <1>2, <1>3, RetriedType
  <2>2. SlotWorth(slot'[w], attempts') = Worth(Retried(m), attempts')
    BY <1>5 DEF SlotWorth
  <2> QED
    BY <1>4, <2>1, <2>2 DEF Worth
<1>7. SlotWorth(slot[w], attempts) = MaxRetries + 1 - m.retries
  BY <1>2, <1>4 DEF Worth
<1>8. /\ attempts'[m.doc] >= k
      /\ attempts'[m.doc] + 0 + (MaxRetries + 1 - (m.retries + 1))
           <= k + (MaxRetries + 1 - m.retries)
  BY <1>2, <1>3, ConstantTypes
<1>9. attempts'[m.doc] + 0 + SlotWorth(slot'[w], attempts')
        <= attempts[m.doc] + SlotWorth(slot[w], attempts)
  BY <1>1, <1>6, <1>7, <1>8
<1> QED
  BY <1>1, <1>2, <1>5, <1>8, <1>9, AttemptsStepOf

(* So is a redelivery after the body killed its process.                   *)
LEMMA AttemptsKilled ==
    ASSUME TypeOK, TypeOK', AttemptsInv, NEW w \in Slots, ParseKilled(w)
    PROVE  AttemptsInv'
<1>1. PICK m, k : m = slot[w].msg /\ k = attempts[m.doc]
  OBVIOUS
<1>2. /\ m \in Message /\ m.doc \in Docs /\ m.task = "parse"
      /\ \A d \in Docs \ {m.doc} : attempts'[d] = attempts[d]
      /\ attempts'[m.doc] \in {k, k + 1}
      /\ SlotWorth(slot[w], attempts) = Worth(m, attempts)
      /\ EnterParse(w) /\ LoseTask(w) /\ losses' = losses
      /\ Holds(w, "body")
  BY <1>1, EnterCounts DEF ParseKilled, EnterParse
<1>3. CASE ready' = ready
  <2>1. /\ \A v \in Slots \ {w} : slot'[v] = slot[v]
        /\ \/ slot'[w].pc = "idle"
           \/ slot'[w].msg = slot[w].msg /\ slot'[w].pc = "part"
    BY <1>2, ReleaseEffect, StepEffect DEF LoseTask
  <2> QED
    BY <1>1, <1>2, <1>3, <2>1, AttemptsSpent
<1>4. CASE AcksLate /\ Requeue(m) /\ Release(w) /\ ready' # ready
  <2>1. slot'[w].pc = "idle" /\ \A v \in Slots \ {w} : slot'[v] = slot[v]
    BY <1>4, ReleaseEffect
  <2>2. PICK n : /\ n \in Message /\ ready' = Put(ready, n)
                 /\ n.doc = m.doc /\ n.task = "parse" /\ n.retries = m.retries
                 /\ DeadLetters => /\ m.deliveries < DeliveryLimit
                                   /\ n.deliveries = m.deliveries + 1
    <3>1. CASE ~DeadLetters /\ ready' = Put(ready, m)
      BY <1>2, <3>1
    <3>2. CASE /\ m.deliveries < DeliveryLimit
               /\ ready' = Put(ready, [m EXCEPT !.deliveries = @ + 1])
      <4>1. [m EXCEPT !.deliveries = @ + 1] \in Message
        BY <1>2, <3>2, NextMessageType
      <4>2. /\ [m EXCEPT !.deliveries = @ + 1].doc = m.doc
            /\ [m EXCEPT !.deliveries = @ + 1].task = "parse"
            /\ [m EXCEPT !.deliveries = @ + 1].retries = m.retries
            /\ [m EXCEPT !.deliveries = @ + 1].deliveries = m.deliveries + 1
        BY <1>2 DEF Message
      <4> QED
        BY <3>2, <4>1, <4>2
    <3> QED
      BY <1>4, <3>1, <3>2 DEF Requeue
  <2>3. /\ Schedule[m.doc].kind \in KnownKinds
        /\ IsKilled(Schedule[m.doc], Attempt(m)) /\ DocId(m) = m.doc
    <3>1. Outcome(m) = "kill"
      BY <1>1 DEF ParseKilled
    <3>2. DocId(m) # Unknown /\ ParseOutcome(Schedule[m.doc], Attempt(m)) = "kill"
      BY <3>1 DEF Outcome
    <3>3. IsKilled(Schedule[m.doc], Attempt(m))
      BY <3>2 DEF ParseOutcome
    <3>4. Schedule[m.doc].kind \in KnownKinds
      BY <1>2, ChordHeaderAssumption DEF ChordHeaderAssumption
    <3> QED
      BY <3>2, <3>3, <3>4 DEF DocId
  <2>4. Attempt(m) = k + 1 /\ k \in Nat /\ attempts'[m.doc] = k + 1
    <3>1. attempts \in [Docs \cup {Unknown} -> Nat]
      BY SlotShape
    <3>2. Attempt(m) = k + 1 /\ k \in Nat
      BY <1>1, <1>2, <1>4, <2>3, <3>1 DEF Attempt
    <3>3. attempts' = [attempts EXCEPT ![m.doc] = @ + 1]
      BY <1>1, <1>2, <1>4, <2>3 DEF EnterParse
    <3> QED
      BY <1>1, <1>2, <3>1, <3>2, <3>3
  <2>5. k + 1 + Worth(n, attempts') + 0 <= k + Worth(m, attempts)
    <3>1. CASE Schedule[m.doc].kind = "POISON"
      <4>1. DeadLetters
        BY <2>3, <3>1 DEF KnownKinds
      <4>2. /\ Worth(m, attempts) = DeliveryLimit + 1 - m.deliveries
            /\ Worth(n, attempts') = DeliveryLimit + 1 - (m.deliveries + 1)
        BY <1>2, <2>2, <3>1, <4>1 DEF Worth
      <4>3. m.deliveries \in Nat
        BY <1>2 DEF Message
      <4> QED
        BY <2>4, <4>2, <4>3, ConstantTypes
    <3>2. CASE Schedule[m.doc].kind # "POISON"
      <4>1. Schedule[m.doc].kind = "CRASH_ONCE" /\ k = 0
        BY <2>3, <2>4, <3>2 DEF IsKilled
      <4>2. /\ Worth(m, attempts) = 2
            /\ Worth(n, attempts') = 1
        BY <1>1, <1>2, <2>2, <2>4, <4>1 DEF Worth
      <4> QED
        BY <2>4, <4>2
    <3> QED
      BY <3>1, <3>2
  <2>6. /\ SlotWorth(slot'[w], attempts') = 0
        /\ attempts'[m.doc] >= attempts[m.doc]
    BY <1>1, <2>1, <2>4 DEF SlotWorth
  <2>7. attempts'[m.doc] + Worth(n, attempts') + SlotWorth(slot'[w], attempts')
          <= attempts[m.doc] + SlotWorth(slot[w], attempts)
    BY <1>1, <1>2, <2>4, <2>5, <2>6
  <2> QED
    BY <1>1, <1>2, <2>1, <2>2, <2>6, <2>7, AttemptsStepOf
<1> QED
  BY <1>1, <1>2, <1>3, <1>4 DEF LoseTask

(* A loss may bring back a message, worth no more than a new one.          *)
LEMMA RequeueWorth ==
    ASSUME TypeOK, TypeOK', NEW m \in Message, Requeue(m)
    PROVE  \/ ready' = ready
           \/ \E n \in Message : n.doc = m.doc /\ ready' = Put(ready, n)
<1>1. CASE ready' = Put(ready, m) \/ ready' = ready
  BY <1>1
<1>2. CASE /\ m.deliveries < DeliveryLimit
           /\ ready' = Put(ready, [m EXCEPT !.deliveries = @ + 1])
  <2>1. [m EXCEPT !.deliveries = @ + 1] \in Message
    BY <1>2, NextMessageType
  <2>2. [m EXCEPT !.deliveries = @ + 1].doc = m.doc
    BY DEF Message
  <2> QED
    BY <1>2, <2>1, <2>2
<1> QED
  BY <1>1, <1>2 DEF Requeue

LEMMA AttemptsLost ==
    ASSUME TypeOK, TypeOK', AttemptsInv, NEW w \in Slots, ~Holds(w, "idle"),
           \A v \in Slots \ {w} : slot'[v] = slot[v],
           \/ slot'[w].pc = "idle"
           \/ slot'[w].msg = slot[w].msg /\ slot'[w].pc \in {slot[w].pc, "part"},
           \/ ready' = ready
           \/ \E n \in Message : /\ n.doc = slot[w].msg.doc
                                 /\ ready' = Put(ready, n),
           attempts' = attempts, losses' = losses + 1
    PROVE  AttemptsInv'
<1>1. PICK m, k, a, b : /\ m = slot[w].msg /\ k = attempts[m.doc]
                        /\ a = SlotWorth(slot[w], attempts)
                        /\ b = SlotWorth(slot'[w], attempts')
  OBVIOUS
<1>2. /\ m \in Message /\ m.doc \in Docs /\ k \in Nat
      /\ attempts \in [Docs \cup {Unknown} -> Nat]
  BY <1>1, SlotShape DEF Holds, Message
<1>3. a \in Nat /\ b \in {0, a}
  <2>1. a \in Nat
    BY <1>1, SlotWorthType, SlotShape
  <2>2. CASE slot'[w].pc \in {"idle", "part"}
    <3>1. b = 0
      BY <1>1, <2>2 DEF SlotWorth
    <3> QED
      BY <2>1, <3>1
  <2>3. CASE slot'[w].msg = slot[w].msg /\ slot'[w].pc = slot[w].pc
    <3>1. b = a
      BY <1>1, <2>3 DEF SlotWorth
    <3> QED
      BY <2>1, <3>1
  <2> QED
    BY <2>1, <2>2, <2>3
<1>4. PICK g : /\ g \in Nat /\ g <= MostAttempts(m.doc)
               /\ \/ ready' = ready /\ g = 0
                  \/ \E n \in Message : /\ n.doc = m.doc /\ ready' = Put(ready, n)
                                        /\ g = Worth(n, attempts')
  <2>1. CASE ready' = ready
    BY <1>2, <2>1, MostType
  <2>2. ASSUME NEW n \in Message, n.doc = m.doc, ready' = Put(ready, n)
        PROVE  \E g : /\ g \in Nat /\ g <= MostAttempts(m.doc)
                      /\ \E x \in Message : /\ x.doc = m.doc /\ ready' = Put(ready, x)
                                            /\ g = Worth(x, attempts')
    <3>1. /\ Worth(n, attempts') \in Nat
          /\ Worth(n, attempts') <= MostAttempts(m.doc)
      BY <1>2, <2>2, WorthType
    <3> QED
      BY <2>2, <3>1
  <2> QED
    BY <1>1, <2>1, <2>2
<1>5. attempts'[m.doc] + g + b <= attempts[m.doc] + a + MostAttempts(m.doc)
  <2>1. PICK q : q = MostAttempts(m.doc) /\ q \in Nat
    BY <1>2, MostType
  <2>2. k + g + b <= k + a + q
    BY <1>2, <1>3, <1>4, <2>1
  <2>3. attempts[m.doc] = k /\ attempts'[m.doc] = k
    BY <1>1
  <2> QED
    BY <2>1, <2>2, <2>3
<1>6. /\ slot'[w].pc = "idle" \/ slot'[w].msg = m
      /\ attempts'[m.doc] >= attempts[m.doc]
      /\ \A d \in Docs \ {m.doc} : attempts'[d] = attempts[d]
  BY <1>1, <1>2
<1> QED
  BY <1>1, <1>2, <1>4, <1>5, <1>6, AttemptsStepOf

(* Publishing what follows hands on what is left.                          *)
LEMMA AttemptsPublish ==
    ASSUME TypeOK, TypeOK', AttemptsInv, NEW w \in Slots,
           PublishRetry(w) \/ PublishParse(w)
    PROVE  AttemptsInv'
<1>1. PICK m, k, a : /\ m = slot[w].msg /\ k = attempts[m.doc]
                     /\ a = SlotWorth(slot[w], attempts)
  OBVIOUS
<1>2. /\ m \in Message /\ m.doc \in Docs /\ k \in Nat
      /\ attempts \in [Docs \cup {Unknown} -> Nat] /\ a \in Nat
      /\ attempts' = attempts /\ losses' = losses
      /\ slot'[w].pc \in {"ack", "published"} /\ slot'[w].msg = m
      /\ \A v \in Slots \ {w} : slot'[v] = slot[v]
  <2>1. slot[w].pc # "idle"
    BY DEF PublishRetry, PublishParse, Holds
  <2>2. a \in Nat
    BY <1>1, SlotWorthType, SlotShape
  <2>3. \E pc \in {"ack", "published"} : Step(w, pc, NoPart)
    BY DEF PublishRetry, PublishParse
  <2> QED
    BY <1>1, <2>1, <2>2, <2>3, StepEffect, SlotShape
       DEF PublishRetry, PublishParse, Message
<1>3. PICK n : /\ n \in Message /\ n.doc = m.doc /\ ready' = Put(ready, n)
               /\ Worth(n, attempts) <= a
  <2>1. CASE PublishRetry(w)
    <3>1. m.retries < MaxRetries /\ slot[w].pc = "retry"
      BY <1>1, <2>1, SlotShape DEF PublishRetry, Holds
    <3>2. Retried(m) \in Message /\ Retried(m).doc = m.doc
      BY <1>2, <3>1, RetriedType
    <3>3. ready' = Put(ready, Retried(m)) /\ a = Worth(Retried(m), attempts)
      BY <1>1, <2>1, <3>1 DEF PublishRetry, Retried, SlotWorth
    <3> QED
      BY <1>2, <3>2, <3>3
  <2>2. CASE PublishParse(w)
    <3> DEFINE n == ParseMessage(m.doc, slot[w].out.status)
    <3>1. n \in Message /\ n.doc = m.doc
      <4>1. slot[w].out.status \in {"SUCCESS", "FAILURE"}
        BY <2>2 DEF PublishParse, Holds, TypeOK, SlotsOK, Part
      <4> QED
        BY <1>2, <4>1, FreshMessageType DEF ParseMessage
    <3>2. ready' = Put(ready, n) /\ a = MostAttempts(m.doc)
      BY <1>1, <2>2 DEF PublishParse, SlotWorth, Holds
    <3> HIDE DEF n
    <3>3. Worth(n, attempts) <= a
      BY <1>2, <3>1, <3>2, WorthType
    <3> QED
      BY <3>1, <3>2, <3>3
  <2> QED
    BY <2>1, <2>2
<1>4. attempts'[m.doc] + Worth(n, attempts') + SlotWorth(slot'[w], attempts')
        <= attempts[m.doc] + a
  <2>1. SlotWorth(slot'[w], attempts') = 0
    BY <1>2 DEF SlotWorth
  <2>2. Worth(n, attempts) \in Nat
    BY <1>2, <1>3, WorthType
  <2>3. k + Worth(n, attempts) + 0 <= k + a
    BY <1>2, <1>3, <2>2
  <2> QED
    BY <1>1, <1>2, <2>1, <2>3
<1>5. /\ attempts'[m.doc] >= attempts[m.doc]
      /\ \A d \in Docs \ {m.doc} : attempts'[d] = attempts[d]
  BY <1>1, <1>2
<1> QED
  BY <1>1, <1>2, <1>3, <1>4, <1>5, AttemptsStepOf

(* A delivery moves a message's worth into the slot; a dead letter weighs  *)
(* nothing.                                                                *)
LEMMA AttemptsDelivered ==
    ASSUME TypeOK, TypeOK', AttemptsInv, NEW w \in Slots, NEW m \in Message,
           Deliver(w, m) \/ DrainGet(w, m)
    PROVE  AttemptsInv'
<1>1. /\ \A v \in Slots \ {w} : slot'[v] = slot[v]
      /\ attempts' = attempts /\ losses' = losses
      /\ slot[w].pc = "idle" /\ slot'[w].msg = m
  BY DEF Deliver, DrainGet, Holds, TypeOK, SlotsOK
<1> SUFFICES ASSUME NEW d \in Docs PROVE AttemptsOf(d)'
  BY DEF AttemptsInv
<1>2. PICK k, a, b, c : /\ k = attempts[d] /\ a = HeldWorth(d)[w]
                        /\ b = HeldWorth(d)'[w]
                        /\ c = QueuedWorth(d, attempts)[m]
  OBVIOUS
<1>3. k \in Nat /\ a \in Nat /\ b \in Nat /\ c \in Nat /\ attempts'[d] = k
  BY <1>1, <1>2, WeightsType, SlotShape
<1>4. PICK g : Gains(d, g) /\ g + b = 0 /\ g \in Int
  <2>1. CASE Deliver(w, m)
    <3>1. ready[m] > 0 /\ ready' = Take(ready, m) /\ slot'[w].pc = "body"
      BY <2>1 DEF Deliver, TypeOK, SlotsOK
    <3>2. b = c
      BY <1>1, <1>2, <3>1 DEF HeldWorth, QueuedWorth, SlotWorth
    <3>3. Gains(d, 0 - c)
      BY <1>2, <3>1 DEF Gains
    <3>4. (0 - c) + b = 0 /\ 0 - c \in Int
      BY <1>3, <3>2
    <3> QED
      BY <3>3, <3>4
  <2>2. CASE DrainGet(w, m)
    <3>1. ready' = ready /\ slot'[w].pc = "finalize"
      BY <2>2 DEF DrainGet, TypeOK, SlotsOK
    <3>2. b = 0
      BY <1>2, <3>1 DEF HeldWorth, SlotWorth
    <3> QED
      BY <3>1, <3>2 DEF Gains
  <2> QED
    BY <2>1, <2>2
<1>5. k + g + b <= k + a /\ k >= k
  BY <1>3, <1>4
<1>6. AttemptsOf(d)
  BY DEF AttemptsInv
<1> QED
  BY <1>1, <1>2, <1>3, <1>4, <1>5, <1>6, AttemptsKept

LEMMA AttemptsFetched ==
    ASSUME TypeOK, TypeOK', AttemptsInv, NEW w \in Slots, Holds(w, "body"),
           slot[w].msg.task = "fetch",
           slot'[w].pc = "chain", slot'[w].msg = slot[w].msg,
           \A v \in Slots \ {w} : slot'[v] = slot[v],
           UNCHANGED <<ready, attempts, losses>>
    PROVE  AttemptsInv'
<1>1. PICK m, k, a : /\ m = slot[w].msg /\ k = attempts[m.doc]
                     /\ a = MostAttempts(m.doc)
  OBVIOUS
<1>2. m \in Message /\ m.doc \in Docs /\ k \in Nat /\ a \in Nat
  BY <1>1, SlotShape, MostType DEF Holds, Message
<1>3. SlotWorth(slot[w], attempts) = a /\ SlotWorth(slot'[w], attempts') = a
  BY <1>1 DEF SlotWorth, Worth, Holds
<1>4. k + 0 + a <= k + a /\ k >= k
  BY <1>2
<1>5. /\ attempts'[m.doc] + 0 + SlotWorth(slot'[w], attempts')
           <= attempts[m.doc] + SlotWorth(slot[w], attempts)
      /\ attempts'[m.doc] >= attempts[m.doc]
      /\ \A d \in Docs \ {m.doc} : attempts'[d] = attempts[d]
  BY <1>1, <1>3, <1>4
<1> QED
  BY <1>1, <1>2, <1>5, AttemptsStepOf

LEMMA AttemptsStep ==
    ASSUME TypeOK, TypeOK', AttemptsInv, [Next]_vars
    PROVE  AttemptsInv'
<1>1. ASSUME NEW w \in Slots, NEW m \in Message, Deliver(w, m) \/ DrainGet(w, m)
      PROVE  AttemptsInv'
  BY <1>1, AttemptsDelivered
<1>2. ASSUME NEW w \in Slots, RunFetch(w) PROVE AttemptsInv'
  <2>1. /\ slot'[w].pc = "chain" /\ slot'[w].msg = slot[w].msg
        /\ \A v \in Slots \ {w} : slot'[v] = slot[v]
    BY <1>2, StepEffect DEF RunFetch
  <2> QED
    BY <1>2, <2>1, AttemptsFetched DEF RunFetch
<1>3. ASSUME NEW w \in Slots, ParseEnds(w) PROVE AttemptsInv'
  <2>1. /\ slot'[w].pc = "part" /\ slot'[w].msg = slot[w].msg
        /\ \A v \in Slots \ {w} : slot'[v] = slot[v]
    BY <1>3, StepEffect DEF ParseEnds
  <2>2. EnterParse(w) /\ Holds(w, "body") /\ UNCHANGED <<ready, losses>>
    BY <1>3 DEF ParseEnds, EnterParse
  <2> QED
    BY <2>1, <2>2, EnterCounts, AttemptsSpent
<1>4. ASSUME NEW w \in Slots, SoftLimit(w) \/ LimitEscapes(w)
      PROVE  AttemptsInv'
  <2>0. /\ MayHaveEntered(w) /\ UNCHANGED <<ready, losses>>
        /\ slot[w].msg \in Message
    BY <1>4, SlotShape DEF SoftLimit, LimitEscapes, SafePoints
  <2>1. PICK pc \in {"chain", "part"} :
          /\ \E reason \in {"soft", "limit"} :
               Step(w, pc, PartFor(slot[w].msg, reason, 0))
          /\ pc = "chain" => /\ slot[w].msg.task = "fetch"
                             /\ slot[w].pc \in {"body", "retry", "published"}
    BY <1>4 DEF SoftLimit, LimitEscapes
  <2>2. /\ slot'[w].pc = pc /\ slot'[w].msg = slot[w].msg
        /\ \A v \in Slots \ {w} : slot'[v] = slot[v]
    BY <2>1, StepEffect
  <2>3. CASE pc = "chain"
    <3>1. slot[w].msg.task = "fetch" /\ Holds(w, "body")
      BY <2>1, <2>3 DEF TypeOK, SlotsOK, Holds
    <3>2. attempts' = attempts
      BY <2>0, <3>1 DEF MayHaveEntered
    <3> QED
      BY <2>0, <2>2, <2>3, <3>1, <3>2, AttemptsFetched
  <2>4. CASE pc = "part" /\ attempts' = attempts
    BY <2>0, <2>2, <2>4, AttemptsIdle
  <2>5. CASE pc = "part" /\ attempts' # attempts
    <3>1. /\ slot[w].msg.doc \in Docs /\ slot[w].msg.task = "parse"
          /\ Holds(w, "body")
          /\ attempts' = [attempts EXCEPT ![DocId(slot[w].msg)] = @ + 1]
      BY <2>0, <2>5 DEF MayHaveEntered, Message
    <3>2. /\ Unknown \notin Docs /\ attempts \in [Docs \cup {Unknown} -> Nat]
          /\ DocId(slot[w].msg) \in {slot[w].msg.doc, Unknown}
      BY ConstantTypes, SlotShape DEF DocId
    <3>3. /\ \A d \in Docs \ {slot[w].msg.doc} : attempts'[d] = attempts[d]
          /\ attempts'[slot[w].msg.doc]
               \in {attempts[slot[w].msg.doc], attempts[slot[w].msg.doc] + 1}
      BY <3>1, <3>2
    <3> QED
      BY <2>0, <2>2, <2>5, <3>1, <3>3, AttemptsSpent
  <2> QED
    BY <2>1, <2>3, <2>4, <2>5
<1>5. ASSUME NEW w \in Slots, PublishRetry(w) \/ PublishParse(w)
      PROVE  AttemptsInv'
  BY <1>5, AttemptsPublish
<1>6. ASSUME NEW w \in Slots, Release(w), UNCHANGED <<ready, attempts, losses>>
      PROVE  AttemptsInv'
  BY <1>6, ReleaseEffect, AttemptsIdle
<1>7. ASSUME NEW w \in Slots, NEW pc \in {"part", "fire", "cleanup", "ack"},
             NEW out, Step(w, pc, out), UNCHANGED <<ready, attempts, losses>>
      PROVE  AttemptsInv'
  BY <1>7, StepEffect, AttemptsIdle
<1>8. ASSUME NEW w \in Slots, ParseRetries(w) PROVE AttemptsInv'
  BY <1>8, AttemptsRetries
<1>9. ASSUME NEW w \in Slots, ParseKilled(w) PROVE AttemptsInv'
  BY <1>9, AttemptsKilled
<1>10. ASSUME NEW w \in Slots, Lose(w) PROVE AttemptsInv'
  <2>1. ~Holds(w, "idle") /\ slot[w].msg \in Message
    BY <1>10, SlotShape, ChordHeaderAssumption
       DEF Lose, ChordHeaderAssumption, Busy, Holds
  <2>2. /\ \A v \in Slots \ {w} : slot'[v] = slot[v]
        /\ \/ slot'[w].pc = "idle"
           \/ slot'[w].msg = slot[w].msg /\ slot'[w].pc = "part"
    BY <1>10, ReleaseEffect, StepEffect DEF Lose, LoseTask
  <2>3. \/ ready' = ready
        \/ \E n \in Message : n.doc = slot[w].msg.doc /\ ready' = Put(ready, n)
    BY <1>10, <2>1, RequeueWorth DEF Lose, LoseTask
  <2> QED
    BY <1>10, <2>1, <2>2, <2>3, AttemptsLost DEF Lose
<1>11. ASSUME NEW w \in Slots, Disconnect(w) PROVE AttemptsInv'
  <2>1. ~Holds(w, "idle") /\ slot[w].msg \in Message
    BY <1>11, SlotShape, ChordHeaderAssumption
       DEF Disconnect, ChordHeaderAssumption, Busy, Holds
  <2>2. /\ \A v \in Slots \ {w} : slot'[v] = slot[v]
        /\ slot'[w].msg = slot[w].msg /\ slot'[w].pc = slot[w].pc
    BY <1>11 DEF Disconnect, TypeOK, SlotsOK, Slot
  <2>3. \/ ready' = ready
        \/ \E n \in Message : n.doc = slot[w].msg.doc /\ ready' = Put(ready, n)
    BY <1>11, <2>1, RequeueWorth DEF Disconnect
  <2> QED
    BY <1>11, <2>1, <2>2, <2>3, AttemptsLost DEF Disconnect
<1>12. ASSUME NEW w \in Slots, PartReturn(w) PROVE AttemptsInv'
  <2>1. PICK pc \in {"fire", "ack"} : Step(w, pc, NoPart)
    BY <1>12 DEF PartReturn
  <2> QED
    BY <1>7, <1>12, <2>1 DEF PartReturn
<1>13. ASSUME NEW w \in Slots, FireBody(w) \/ DeleteKeys(w)
       PROVE  AttemptsInv'
  BY <1>7, <1>13 DEF FireBody, DeleteKeys
<1>14. ASSUME NEW w \in Slots,
              Ack(w) \/ Cancelled(w) \/ FinalizeDlq(w) \/ RaiseRetry(w)
       PROVE  AttemptsInv'
  BY <1>6, <1>7, <1>14 DEF Ack, Cancelled, FinalizeDlq, RaiseRetry
<1>15. CASE Rest \/ UNCHANGED vars
  <2>1. UNCHANGED vars
    BY <1>15 DEF Rest
  <2>2. ASSUME NEW d
        PROVE  /\ Stock(ready, QueuedWorth(d, attempts))'
                    = Stock(ready, QueuedWorth(d, attempts))
               /\ Hands(HeldWorth(d))' = Hands(HeldWorth(d))
    BY <2>1 DEF vars, Stock, Hands, HeldWorth, QueuedWorth
  <2> QED
    BY <2>1, <2>2 DEF vars, AttemptsInv, AttemptsOf
<1> QED
  BY <1>1, <1>2, <1>3, <1>4, <1>5, <1>8, <1>9, <1>10, <1>11, <1>12, <1>13,
     <1>14, <1>15 DEF Next, Progress, Dispatch

LEMMA AttemptsInit == Init => AttemptsInv
<1> SUFFICES ASSUME Init, NEW d \in Docs PROVE AttemptsOf(d)
  BY DEF AttemptsInv
<1> DEFINE W == QueuedWorth(d, attempts)
<1>1. /\ \A m \in Message :
           ready[m] = (IF \E e \in Docs : m = FetchMessage(e) THEN 1 ELSE 0)
      /\ ready \in [Message -> Nat]
      /\ attempts \in [Docs \cup {Unknown} -> Nat] /\ attempts[d] = 0
      /\ losses = 0 /\ slot = [w \in Slots |-> Idle]
  BY DEF Init
<1>2. W \in [Message -> Nat]
  BY <1>1, WorthType DEF QueuedWorth
<1>3. FetchMessage(d) \in Message /\ W[FetchMessage(d)] = MostAttempts(d)
  BY FreshMessageType DEF FetchMessage, QueuedWorth, Worth
<1>4. \A m \in Message : W[m] # 0 => m.doc = d
  BY DEF QueuedWorth
<1>5. \A t : t \in Stock(ready, W) <=>
               \E j \in 1..MostAttempts(d) : t = <<FetchMessage(d), 1, j>>
  <2> HIDE DEF W
  <2>1. ASSUME NEW t \in Stock(ready, W)
        PROVE  \E j \in 1..MostAttempts(d) : t = <<FetchMessage(d), 1, j>>
    <3>1. PICK m \in Message, k \in Nat, j \in Nat :
            k \in 1..ready[m] /\ j \in 1..W[m] /\ t = <<m, k, j>>
      BY <1>1, <1>2, InStock
    <3>2. PICK e \in Docs : m = FetchMessage(e)
      BY <1>1, <3>1
    <3>3. m.doc = d /\ m.doc = e
      BY <1>2, <1>4, <3>1, <3>2 DEF FetchMessage
    <3>4. k = 1
      BY <1>1, <3>1
    <3> QED
      BY <1>3, <3>1, <3>2, <3>3, <3>4
  <2>2. ASSUME NEW j \in 1..MostAttempts(d)
        PROVE  <<FetchMessage(d), 1, j>> \in Stock(ready, W)
    <3>1. 1 \in 1..ready[FetchMessage(d)] /\ j \in Nat
      BY <1>1, <1>3
    <3> QED
      BY <1>1, <1>2, <1>3, <3>1, InStock
  <2> QED
    BY <2>1, <2>2
<1>6. /\ IsFiniteSet(Stock(ready, W))
      /\ Cardinality(Stock(ready, W)) = MostAttempts(d)
  <2>1. MostAttempts(d) \in Nat
    BY MostType
  <2> HIDE DEF W
  <2> QED
    BY <1>5, <2>1, StockOf
<1>7. Hands(HeldWorth(d)) = {}
  <2>1. \A w \in Slots : HeldWorth(d)[w] = 0
    BY <1>1 DEF HeldWorth, SlotWorth, Idle
  <2>2. HeldWorth(d) \in [Slots -> Nat]
    BY <2>1 DEF HeldWorth
  <2> QED
    BY <2>1, <2>2, InHands
<1>8. 0 + MostAttempts(d) + 0 <= (1 + losses) * MostAttempts(d)
  BY <1>1, MostType
<1> HIDE DEF W
<1>9. /\ IsFiniteSet(Hands(HeldWorth(d)))
      /\ Cardinality(Hands(HeldWorth(d))) = 0
  BY <1>7, FS_EmptySet
<1> QED
  BY <1>1, <1>6, <1>8, <1>9 DEF AttemptsOf, W

(* A document is executed at most as often as one message of it can cause, *)
(* and as often again for each loss: neither the crash loop of a poisoned  *)
(* document nor the retries of a failing one go on, for any schedule,      *)
(* limit, budget and number of workers.                                    *)
THEOREM AttemptsAreBounded == Spec => []AttemptsBounded
<1>1. Init => TypeOK /\ AttemptsInv
  BY InitType, AttemptsInit
<1>2. TypeOK /\ AttemptsInv /\ [Next]_vars => TypeOK' /\ AttemptsInv'
  BY StepPreservesType, AttemptsStep
<1>3. TypeOK /\ AttemptsInv => AttemptsBounded
  <2> SUFFICES ASSUME TypeOK, AttemptsInv, NEW d \in Docs
               PROVE  attempts[d] <= (1 + losses) * MostAttempts(d)
    BY DEF AttemptsBounded
  <2>1. PICK a, b, c, k :
          /\ a = attempts[d] /\ k = (1 + losses) * MostAttempts(d)
          /\ b = Cardinality(Stock(ready, QueuedWorth(d, attempts)))
          /\ c = Cardinality(Hands(HeldWorth(d)))
    OBVIOUS
  <2>2. a \in Nat /\ b \in Nat /\ c \in Nat /\ k \in Nat
    <3>1. losses \in Nat /\ MostAttempts(d) \in Nat
      BY MostType DEF TypeOK
    <3>2. k \in Nat
      BY <2>1, <3>1
    <3> QED
      BY <2>1, <3>2, SlotShape, FS_CardinalityType DEF AttemptsInv, AttemptsOf
  <2>3. a + b + c <= k
    BY <2>1 DEF AttemptsInv, AttemptsOf
  <2> QED
    BY <2>1, <2>2, <2>3
<1> QED
  BY <1>1, <1>2, <1>3, PTL DEF Spec

=============================================================================
