---------------------------- MODULE FanInProofs ----------------------------
(***************************************************************************)
(* Why ChordHeader implements FanIn when losses strike only where their    *)
(* repetition does not show.  Every document is one token: a message in a  *)
(* queue, a message in a worker's hands up to the moment its part is       *)
(* counted, or a part in the sorted set; nothing makes two of it.          *)
(***************************************************************************)
EXTENDS ChordHeaderProofs, FiniteSetTheorems

(* A worker is lost only before its part is counted, and its connection    *)
(* only with it.                                                           *)
SafeLosses == LossPoints \subseteq SafePoints /\ ~Disconnects

(* Neither a loss nor a limit so far has repeated a part.                  *)
Unrepeated == (SafeLosses \/ losses = 0) /\ "published" \notin hits

InQueue(m) == ready[m] > 0 \/ dlq[m] > 0

Working(w) == slot[w].pc \in SafePoints

Firing(w) == slot[w].pc \in {"fire", "cleanup"}

-----------------------------------------------------------------------------
(* The token of a document is in one place.                                *)
OneMessage ==
    /\ \A m \in Message : ready[m] + dlq[m] <= 1
    /\ \A m, n \in Message :
         InQueue(m) /\ InQueue(n) /\ m.doc = n.doc => m = n

OneWorker ==
    /\ \A v, w \in Slots :
         Working(v) /\ Working(w) /\ slot[v].msg.doc = slot[w].msg.doc
           => v = w
    /\ \A w \in Slots, m \in Message :
         Working(w) /\ InQueue(m) => m.doc # slot[w].msg.doc

OnePart ==
    /\ \A p, q \in join : p.doc = q.doc => p = q
    /\ \A w \in Slots : Holds(w, "part") => slot[w].out.doc = slot[w].msg.doc

(* A document still on its way has no part yet, and no body is published.  *)
OnItsWay ==
    /\ \A m \in Message : InQueue(m) => ~Joined(m.doc) /\ bodies = <<>>
    /\ \A w \in Slots :
         Working(w) => ~Joined(slot[w].msg.doc) /\ bodies = <<>>

(* One worker at most fires the body, once every document is joined.       *)
OneFires ==
    /\ \A v, w \in Slots : Firing(v) /\ Firing(w) => v = w
    /\ \A w \in Slots :
         /\ Holds(w, "fire") => bodies = <<>> /\ \A d \in Docs : Joined(d)
         /\ Holds(w, "cleanup") => bodies # <<>>

AllComplete == \A i \in DOMAIN bodies : Complete(bodies[i])

OneBody == Len(bodies) <= 1 /\ AllComplete

NoneDetached == \A w \in Slots : slot[w].mode # "detached"

FanInv ==
    /\ OneMessage /\ OneWorker /\ OnePart /\ OnItsWay /\ OneFires
    /\ OneBody /\ NoneDetached

-----------------------------------------------------------------------------
LEMMA Typing ==
    ASSUME TypeOK
    PROVE  /\ slot \in [Slots -> Slot]
           /\ ready \in [Message -> Nat] /\ dlq \in [Message -> Nat]
           /\ bodies \in Seq(SUBSET Part) /\ join \in SUBSET Part
           /\ \A w \in Slots : slot[w].pc # "idle" =>
                slot[w].msg \in Message /\ slot[w].msg.doc \in Docs
  BY DEF TypeOK, SlotsOK, Holds, Message

(* A step of slot w that moves the token of document d, between a queue    *)
(* and the slot or within the slot.                                        *)
LEMMA MoveStep ==
    ASSUME TypeOK, TypeOK', FanInv, NEW w \in Slots, NEW d,
           UNCHANGED <<join, bodies>>,
           \A v \in Slots \ {w} : slot'[v] = slot[v],
           slot'[w].mode # "detached", ~Firing(w)',
           Holds(w, "part")' => slot'[w].out.doc = slot'[w].msg.doc,
           Working(w)' => slot'[w].msg.doc = d,
           \A n \in Message : n.doc # d => ready'[n] = ready[n] /\ dlq'[n] = dlq[n],
           \A n \in Message : n.doc = d => ready'[n] + dlq'[n] <= 1,
           \A m, n \in Message :
             InQueue(m)' /\ InQueue(n)' /\ m.doc = d /\ n.doc = d => m = n,
           \A n \in Message : InQueue(n)' /\ n.doc = d => ~Working(w)',
           \A v \in Slots \ {w} : Working(v) => slot[v].msg.doc # d,
           ~Joined(d), bodies = <<>>
    PROVE  FanInv'
<1>1. OneMessage'
  <2>1. \A n \in Message : n.doc # d => (InQueue(n)' <=> InQueue(n))
    BY DEF InQueue
  <2>2. ASSUME NEW m \in Message PROVE ready'[m] + dlq'[m] <= 1
    BY DEF FanInv, OneMessage
  <2>3. ASSUME NEW m \in Message, NEW n \in Message,
               InQueue(m)', InQueue(n)', m.doc = n.doc
        PROVE  m = n
    BY <2>1, <2>3 DEF FanInv, OneMessage
  <2> QED
    BY <2>2, <2>3 DEF OneMessage
<1>2. OneWorker'
  <2>1. ASSUME NEW v \in Slots, NEW u \in Slots, Working(v)', Working(u)',
               slot'[v].msg.doc = slot'[u].msg.doc
        PROVE  v = u
    BY <2>1 DEF FanInv, OneWorker, Working
  <2>2. ASSUME NEW v \in Slots, NEW m \in Message, Working(v)', InQueue(m)'
        PROVE  m.doc # slot'[v].msg.doc
    BY <2>2 DEF FanInv, OneWorker, Working, InQueue
  <2> QED
    BY <2>1, <2>2 DEF OneWorker
<1>3. OnePart'
  BY DEF FanInv, OnePart, Holds
<1>4. OnItsWay'
  <2>1. ASSUME NEW m \in Message, InQueue(m)'
        PROVE  ~Joined(m.doc)' /\ bodies' = <<>>
    BY <2>1 DEF FanInv, OnItsWay, InQueue, Joined
  <2>2. ASSUME NEW v \in Slots, Working(v)'
        PROVE  ~Joined(slot'[v].msg.doc) /\ bodies' = <<>>
    BY <2>2 DEF FanInv, OnItsWay, Working
  <2>3. \A e : Joined(e)' <=> Joined(e)
    BY DEF Joined
  <2> QED
    BY <2>1, <2>2, <2>3 DEF OnItsWay, Joined
<1>5. OneFires'
  BY DEF FanInv, OneFires, Firing, Holds, Joined
<1>6. OneBody' /\ NoneDetached'
  BY DEF FanInv, OneBody, AllComplete, NoneDetached
<1> QED
  BY <1>1, <1>2, <1>3, <1>4, <1>5, <1>6 DEF FanInv

(* A step of slot w that has no token, or gives it up.                     *)
LEMMA IdleStep ==
    ASSUME TypeOK, FanInv, NEW w \in Slots,
           UNCHANGED <<ready, dlq, join, bodies>>,
           \A v \in Slots \ {w} : slot'[v] = slot[v],
           slot'[w].pc \in {"idle", "ack"}, slot'[w].mode # "detached"
    PROVE  FanInv'
<1>1. ~Working(w)' /\ ~Firing(w)' /\ ~Holds(w, "part")'
  BY DEF Working, Firing, SafePoints, Holds
<1>2. OneMessage'
  BY DEF FanInv, OneMessage, InQueue
<1>3. OneWorker'
  BY <1>1 DEF FanInv, OneWorker, Working, InQueue
<1>4. OnePart'
  BY <1>1 DEF FanInv, OnePart, Holds
<1>5. OnItsWay'
  BY <1>1 DEF FanInv, OnItsWay, Working, InQueue, Joined
<1>6. OneFires'
  BY <1>1 DEF FanInv, OneFires, Firing, Holds, Joined
<1>7. OneBody' /\ NoneDetached'
  BY DEF FanInv, OneBody, AllComplete, NoneDetached
<1> QED
  BY <1>2, <1>3, <1>4, <1>5, <1>6, <1>7 DEF FanInv

(* A worker takes a message out of its queue.                              *)
LEMMA TakeStep ==
    ASSUME TypeOK, TypeOK', FanInv, NEW w \in Slots, NEW m \in Message,
           InQueue(m),
           \/ ready[m] > 0 /\ ready' = Take(ready, m) /\ UNCHANGED dlq
           \/ dlq[m] > 0 /\ dlq' = Take(dlq, m) /\ UNCHANGED ready,
           \A v \in Slots \ {w} : slot'[v] = slot[v],
           slot'[w].pc \in {"body", "finalize"}, slot'[w].msg = m,
           slot'[w].mode # "detached", UNCHANGED <<join, bodies>>
    PROVE  FanInv'
<1> DEFINE d == m.doc
<1>0. ready \in [Message -> Nat] /\ dlq \in [Message -> Nat]
  BY Typing
<1>1. /\ ready'[m] + dlq'[m] = 0
      /\ \A n \in Message \ {m} : ready'[n] = ready[n] /\ dlq'[n] = dlq[n]
      /\ ready'[m] \in Nat /\ dlq'[m] \in Nat
  <2>1. ready[m] + dlq[m] <= 1
    BY DEF FanInv, OneMessage
  <2>2. ready'[m] \in Nat /\ dlq'[m] \in Nat
    BY DEF TypeOK
  <2>3. CASE ready[m] > 0 /\ ready' = Take(ready, m) /\ UNCHANGED dlq
    BY <1>0, <2>1, <2>2, <2>3 DEF Take
  <2>4. CASE dlq[m] > 0 /\ dlq' = Take(dlq, m) /\ UNCHANGED ready
    BY <1>0, <2>1, <2>2, <2>4 DEF Take
  <2> QED
    BY <2>2, <2>3, <2>4
<1>2. \A n \in Message : n.doc = d => ~InQueue(n)'
  <2>1. ~InQueue(m)'
    BY <1>1 DEF InQueue
  <2>2. ASSUME NEW n \in Message \ {m}, n.doc = d PROVE ~InQueue(n)'
    BY <1>1, <2>2 DEF FanInv, OneMessage, InQueue
  <2> QED
    BY <2>1, <2>2
<1>3. \A n \in Message : n.doc = d => ready'[n] + dlq'[n] <= 1
  BY <1>1 DEF FanInv, OneMessage
<1>4. \A n \in Message : n.doc # d => ready'[n] = ready[n] /\ dlq'[n] = dlq[n]
  BY <1>1
<1>5. \A v \in Slots \ {w} : Working(v) => slot[v].msg.doc # d
  BY DEF FanInv, OneWorker
<1>6. ~Joined(d) /\ bodies = <<>>
  BY DEF FanInv, OnItsWay
<1>7. ~Firing(w)' /\ ~Holds(w, "part")'
  BY DEF Firing, Holds
<1> HIDE DEF d
<1>8. Working(w)' => slot'[w].msg.doc = d
  BY DEF d
<1> QED
  BY <1>2, <1>3, <1>4, <1>5, <1>6, <1>7, <1>8, MoveStep

(* What is known of the token in a worker's hands.                         *)
LEMMA HeldToken ==
    ASSUME TypeOK, FanInv, NEW w \in Slots, Working(w), NEW d,
           d = slot[w].msg.doc
    PROVE  /\ \A n \in Message : n.doc = d => ready[n] = 0 /\ dlq[n] = 0
           /\ \A v \in Slots \ {w} : Working(v) => slot[v].msg.doc # d
           /\ ~Joined(d) /\ bodies = <<>>
<1>1. ASSUME NEW n \in Message, n.doc = d PROVE ready[n] = 0 /\ dlq[n] = 0
  <2>1. ~InQueue(n)
    BY <1>1 DEF FanInv, OneWorker
  <2>2. ready[n] \in Nat /\ dlq[n] \in Nat
    BY Typing
  <2> QED
    BY <2>1, <2>2 DEF InQueue
<1>2. \A v \in Slots \ {w} : Working(v) => slot[v].msg.doc # d
  BY DEF FanInv, OneWorker
<1> QED
  BY <1>1, <1>2 DEF FanInv, OnItsWay

(* A worker goes on with what it holds.                                    *)
LEMMA KeepStep ==
    ASSUME TypeOK, TypeOK', FanInv, NEW w \in Slots, Working(w),
           NEW pc \in SafePoints, NEW out, Step(w, pc, out),
           pc = "part" => out.doc = slot[w].msg.doc,
           UNCHANGED <<ready, dlq, join, bodies>>
    PROVE  FanInv'
<1>0. PICK d : d = slot[w].msg.doc
  OBVIOUS
<1>1. /\ slot'[w].pc = pc /\ slot'[w].out = out
      /\ slot'[w].msg = slot[w].msg /\ slot'[w].mode = slot[w].mode
      /\ \A v \in Slots \ {w} : slot'[v] = slot[v]
  BY StepEffect
<1>2. /\ \A n \in Message : n.doc = d => ready[n] = 0 /\ dlq[n] = 0
      /\ \A v \in Slots \ {w} : Working(v) => slot[v].msg.doc # d
      /\ ~Joined(d) /\ bodies = <<>>
  BY <1>0, HeldToken
<1>3. /\ \A n \in Message : n.doc = d => ready'[n] + dlq'[n] <= 1
      /\ \A n \in Message : n.doc = d => ~InQueue(n)'
  BY <1>2 DEF InQueue
<1>4. ~Firing(w)' /\ slot'[w].mode # "detached"
  BY <1>1 DEF Firing, SafePoints, FanInv, NoneDetached
<1>5. /\ Working(w)' => slot'[w].msg.doc = d
      /\ Holds(w, "part")' => slot'[w].out.doc = slot'[w].msg.doc
  BY <1>0, <1>1 DEF Holds
<1> QED
  BY <1>1, <1>2, <1>3, <1>4, <1>5, MoveStep

(* A worker puts a message in the place of the one it holds.               *)
LEMMA PutStep ==
    ASSUME TypeOK, TypeOK', FanInv, NEW w \in Slots, Working(w),
           NEW k \in Message, k.doc = slot[w].msg.doc,
           \/ ready' = Put(ready, k) /\ UNCHANGED dlq
           \/ dlq' = Put(dlq, k) /\ UNCHANGED ready,
           \A v \in Slots \ {w} : slot'[v] = slot[v],
           slot'[w].pc \in {"idle", "ack", "published"},
           slot'[w].mode # "detached", UNCHANGED <<join, bodies>>
    PROVE  FanInv'
<1>0. ready \in [Message -> Nat] /\ dlq \in [Message -> Nat]
  BY Typing
<1>1. PICK d : d = slot[w].msg.doc
  OBVIOUS
<1>2. /\ \A n \in Message : n.doc = d => ready[n] = 0 /\ dlq[n] = 0
      /\ \A v \in Slots \ {w} : Working(v) => slot[v].msg.doc # d
      /\ ~Joined(d) /\ bodies = <<>>
  BY <1>1, HeldToken
<1>3. /\ ready'[k] + dlq'[k] = 1
      /\ \A n \in Message \ {k} : ready'[n] = ready[n] /\ dlq'[n] = dlq[n]
  <2>1. ready[k] = 0 /\ dlq[k] = 0
    BY <1>1, <1>2
  <2> QED
    BY <1>0, <2>1 DEF Put
<1>4. /\ \A n \in Message : n.doc # d => ready'[n] = ready[n] /\ dlq'[n] = dlq[n]
      /\ \A n \in Message : n.doc = d => ready'[n] + dlq'[n] <= 1
  BY <1>1, <1>2, <1>3
<1>5. \A n \in Message : InQueue(n)' /\ n.doc = d => n = k
  BY <1>2, <1>3 DEF InQueue
<1>6. ~Working(w)' /\ ~Firing(w)' /\ ~Holds(w, "part")'
  BY DEF Working, Firing, SafePoints, Holds
<1> QED
  BY <1>2, <1>4, <1>5, <1>6, MoveStep

(* One part for each document at most: when there are as many parts as     *)
(* documents, every document has one.                                      *)
LEMMA AllJoined ==
    ASSUME NEW J \in SUBSET Part, \A p, q \in J : p.doc = q.doc => p = q,
           Cardinality(J) = Cardinality(Docs)
    PROVE  \A d \in Docs : \E p \in J : p.doc = d
<1> DEFINE f == [p \in J |-> p.doc]
<1>1. f \in [J -> Docs]
  BY DEF Part
<1>2. IsInjective(f)
  BY DEF IsInjective
<1>3. f \in Injection(J, Docs)
  BY <1>1, <1>2 DEF Injection
<1>4. IsFiniteSet(Docs)
  BY ChordHeaderAssumption DEF ChordHeaderAssumption
<1>5. f \in Surjection(J, Docs)
  BY <1>3, <1>4, FS_Injection
<1> QED
  BY <1>5 DEF Surjection

LEMMA LoseTaskStep ==
    ASSUME TypeOK, TypeOK', FanInv, NEW w \in Slots, Working(w), LoseTask(w),
           UNCHANGED <<join, bodies>>
    PROVE  FanInv'
<1>1. slot[w].msg \in Message
  BY Typing DEF Working, SafePoints
<1>2. slot[w].mode # "detached"
  BY DEF FanInv, NoneDetached
<1>3. ASSUME Release(w)
      PROVE  /\ slot'[w].pc = "idle" /\ slot'[w].mode # "detached"
             /\ \A v \in Slots \ {w} : slot'[v] = slot[v]
  <2>1. slot'[w] = Idle
    BY <1>3, Typing DEF Release
  <2> QED
    BY <1>3, <2>1, ReleaseEffect DEF Idle
<1>4. ASSUME NEW k \in Message, k.doc = slot[w].msg.doc, Release(w),
             \/ ready' = Put(ready, k) /\ UNCHANGED dlq
             \/ dlq' = Put(dlq, k) /\ UNCHANGED ready
      PROVE  FanInv'
  BY <1>3, <1>4, PutStep
<1>5. CASE dlq' = Put(dlq, slot[w].msg) /\ Release(w) /\ UNCHANGED ready
  BY <1>1, <1>4, <1>5
<1>6. CASE Requeue(slot[w].msg) /\ Release(w)
  <2> DEFINE m == slot[w].msg
  <2>1. CASE ready' = Put(ready, m) /\ UNCHANGED dlq
    BY <1>1, <1>4, <1>6, <2>1
  <2>2. CASE /\ m.deliveries < DeliveryLimit
             /\ ready' = Put(ready, [m EXCEPT !.deliveries = @ + 1])
             /\ UNCHANGED dlq
    <3> DEFINE k == [m EXCEPT !.deliveries = @ + 1]
    <3>1. k \in Message
      BY <1>1, <2>2, NextMessageType
    <3>2. k.doc = m.doc
      BY <1>1 DEF Message
    <3> QED
      BY <1>4, <1>6, <2>2, <3>1, <3>2
  <2>3. CASE dlq' = Put(dlq, [m EXCEPT !.deliveries = 0]) /\ UNCHANGED ready
    <3> DEFINE k == [m EXCEPT !.deliveries = 0]
    <3>1. k \in Message
      BY <1>1, NextMessageType
    <3>2. k.doc = m.doc
      BY <1>1 DEF Message
    <3> QED
      BY <1>4, <1>6, <2>3, <3>1, <3>2
  <2> QED
    BY <1>6, <2>1, <2>2, <2>3 DEF Requeue
<1>7. CASE Release(w) /\ UNCHANGED <<ready, dlq>>
  BY <1>3, <1>7, IdleStep
<1>8. CASE /\ Step(w, "part", PartFor(slot[w].msg, "lost", 0))
           /\ UNCHANGED <<ready, dlq>>
  <2>1. PartFor(slot[w].msg, "lost", 0).doc = slot[w].msg.doc
    BY DEF PartFor
  <2> QED
    BY <1>8, <2>1, KeepStep DEF SafePoints
<1> QED
  BY <1>2, <1>5, <1>6, <1>7, <1>8 DEF LoseTask

(* The part of the last document is counted by one worker.                 *)
LEMMA PartReturnStep ==
    ASSUME TypeOK, TypeOK', FanInv, NEW w \in Slots, PartReturn(w)
    PROVE  FanInv'
<1>0. PICK d : d = slot[w].msg.doc
  OBVIOUS
<1>1. /\ Working(w) /\ Holds(w, "part") /\ slot[w].out.doc = d
      /\ join' = join \cup {slot[w].out}
      /\ UNCHANGED <<ready, dlq, bodies>>
  BY <1>0 DEF PartReturn, Working, Holds, SafePoints, FanInv, OnePart
<1>2. PICK pc \in {"fire", "ack"} : Step(w, pc, NoPart)
  BY DEF PartReturn
<1>3. /\ slot'[w].pc = pc /\ slot'[w].mode = slot[w].mode
      /\ \A v \in Slots \ {w} : slot'[v] = slot[v]
  BY <1>2, StepEffect
<1>4. /\ \A n \in Message : n.doc = d => ready[n] = 0 /\ dlq[n] = 0
      /\ \A v \in Slots \ {w} : Working(v) => slot[v].msg.doc # d
      /\ ~Joined(d) /\ bodies = <<>>
  BY <1>0, <1>1, HeldToken
<1>5. ~Working(w)' /\ ~Holds(w, "part")'
  BY <1>3 DEF Working, Holds, SafePoints
<1>6. d \in Docs
  BY <1>0, <1>1, Typing DEF Holds
<1>7. \A p, q \in join' : p.doc = q.doc => p = q
  BY <1>1, <1>4 DEF FanInv, OnePart, Joined
<1>8. OneMessage'
  BY <1>1 DEF FanInv, OneMessage, InQueue
<1>9. OneWorker'
  BY <1>1, <1>3, <1>5 DEF FanInv, OneWorker, Working, InQueue
<1>10. OnePart'
  BY <1>3, <1>5, <1>7 DEF FanInv, OnePart, Holds
<1>11. OnItsWay'
  <2>1. \A e : Joined(e)' => Joined(e) \/ e = d
    BY <1>1 DEF Joined
  <2>2. ASSUME NEW m \in Message, InQueue(m)'
        PROVE  ~Joined(m.doc)' /\ bodies' = <<>>
    <3>1. InQueue(m) /\ m.doc # d
      BY <1>1, <1>4, <2>2 DEF InQueue
    <3> QED
      BY <1>1, <2>1, <3>1 DEF FanInv, OnItsWay
  <2>3. ASSUME NEW v \in Slots, Working(v)'
        PROVE  ~(\E p \in join' : p.doc = slot'[v].msg.doc) /\ bodies' = <<>>
    <3>1. v # w /\ slot'[v] = slot[v] /\ Working(v)
      BY <1>3, <1>5, <2>3 DEF Working
    <3> QED
      BY <1>1, <1>4, <2>1, <3>1 DEF FanInv, OnItsWay, Joined
  <2> QED
    BY <2>2, <2>3 DEF OnItsWay, Joined
<1>12. OneFires'
  <2>1. ASSUME NEW v \in Slots PROVE ~Firing(v)
    BY <1>4, <1>6 DEF FanInv, OneFires, Firing, Holds
  <2>2. \A v \in Slots : Firing(v)' => v = w
    BY <1>3, <2>1 DEF Firing
  <2>3. ASSUME Holds(w, "fire")'
        PROVE  \A e \in Docs : \E p \in join' : p.doc = e
    <3>1. pc = "fire"
      BY <1>3, <2>3 DEF Holds
    <3>2. Cardinality(join') = Cardinality(Docs)
      <4>1. slot'[w].pc = IF sized /\ Cardinality(join') = Cardinality(Docs)
                          THEN "fire" ELSE "ack"
        BY StepEffect DEF PartReturn
      <4> QED
        BY <1>3, <3>1, <4>1
    <3>3. join' \in SUBSET Part
      BY DEF TypeOK
    <3> QED
      BY <1>7, <3>2, <3>3, AllJoined
  <2>4. ~Holds(w, "cleanup")'
    BY <1>3 DEF Holds
  <2> QED
    BY <1>1, <1>4, <2>2, <2>3, <2>4 DEF OneFires, Joined, Holds, Firing
<1>13. OneBody' /\ NoneDetached'
  BY <1>1, <1>3 DEF FanInv, OneBody, AllComplete, NoneDetached
<1> QED
  BY <1>8, <1>9, <1>10, <1>11, <1>12, <1>13 DEF FanInv

(* When the body is fired nothing is on its way, and the body is whole.    *)
LEMMA NothingOnItsWay ==
    ASSUME TypeOK, FanInv, NEW w \in Slots, Holds(w, "fire")
    PROVE  /\ bodies = <<>>
           /\ \A m \in Message : ~InQueue(m)
           /\ \A v \in Slots : ~Working(v)
<1>1. bodies = <<>> /\ \A d \in Docs : Joined(d)
  BY DEF FanInv, OneFires
<1>2. ASSUME NEW m \in Message PROVE ~InQueue(m)
  BY <1>1 DEF FanInv, OnItsWay, Message
<1>3. ASSUME NEW v \in Slots PROVE ~Working(v)
  <2>1. Working(v) => slot[v].msg.doc \in Docs
    BY Typing DEF Working, SafePoints
  <2> QED
    BY <1>1, <2>1 DEF FanInv, OnItsWay
<1> QED
  BY <1>1, <1>2, <1>3

LEMMA FireBodyStep ==
    ASSUME TypeOK, FanInv, NEW w \in Slots, FireBody(w)
    PROVE  FanInv'
<1>1. Holds(w, "fire") /\ UNCHANGED <<ready, dlq, join>>
  BY DEF FireBody
<1>2. slot[w].mode # "detached"
  BY DEF FanInv, NoneDetached
<1>3. CASE Step(w, "ack", NoPart) /\ UNCHANGED bodies
  BY <1>1, <1>2, <1>3, StepEffect, IdleStep
<1>4. CASE bodies' = Append(bodies, join) /\ Step(w, "cleanup", NoPart)
  <2>1. /\ slot'[w].pc = "cleanup" /\ slot'[w].mode = slot[w].mode
        /\ \A v \in Slots \ {w} : slot'[v] = slot[v]
    BY <1>4, StepEffect
  <2>2. /\ bodies = <<>> /\ \A m \in Message : ~InQueue(m)
        /\ \A v \in Slots : ~Working(v)
    BY <1>1, NothingOnItsWay
  <2>3. bodies' = <<join>>
    BY <1>4, <2>2
  <2>4. Len(bodies') = 1 /\ DOMAIN bodies' = {1} /\ bodies'[1] = join
        /\ bodies' # <<>>
    BY <2>3
  <2>5. \A v \in Slots : ~Working(v)'
    BY <2>1, <2>2 DEF Working, SafePoints
  <2>6. \A m \in Message : ~InQueue(m)'
    BY <1>1, <2>2 DEF InQueue
  <2>7. OneMessage'
    BY <1>1 DEF FanInv, OneMessage, InQueue
  <2>8. OneWorker' /\ OnItsWay'
    BY <2>5, <2>6 DEF OneWorker, OnItsWay
  <2>9. OnePart'
    BY <1>1, <2>1 DEF FanInv, OnePart, Holds
  <2>10. OneFires'
    <3>1. Firing(w)
      BY <1>1 DEF Firing, Holds
    <3>2. \A v \in Slots : Firing(v)' => v = w
      BY <2>1, <3>1 DEF FanInv, OneFires, Firing
    <3>3. \A v \in Slots : ~Holds(v, "fire")'
      BY <2>1, <3>2 DEF Firing, Holds
    <3> QED
      BY <2>4, <3>2, <3>3 DEF OneFires
  <2>11. OneBody'
    BY <1>1, <2>4 DEF FanInv, OneFires, OnePart, OneBody, AllComplete, Complete, Joined
  <2>12. NoneDetached'
    BY <1>2, <2>1 DEF FanInv, NoneDetached
  <2> QED
    BY <2>7, <2>8, <2>9, <2>10, <2>11, <2>12 DEF FanInv
<1> QED
  BY <1>3, <1>4 DEF FireBody

LEMMA DeleteKeysStep ==
    ASSUME TypeOK, FanInv, NEW w \in Slots, DeleteKeys(w)
    PROVE  FanInv'
<1>1. /\ Holds(w, "cleanup") /\ join' = {} /\ UNCHANGED <<ready, dlq, bodies>>
      /\ Step(w, "ack", NoPart)
  BY DEF DeleteKeys
<1>2. /\ slot'[w].pc = "ack" /\ slot'[w].mode = slot[w].mode
      /\ \A v \in Slots \ {w} : slot'[v] = slot[v]
  BY <1>1, StepEffect
<1>3. bodies # <<>> /\ Firing(w)
  BY <1>1 DEF FanInv, OneFires, Firing, Holds
<1>4. /\ \A m \in Message : ~InQueue(m)
      /\ \A v \in Slots : ~Working(v)
  BY <1>3 DEF FanInv, OnItsWay
<1>5. /\ \A m \in Message : ~InQueue(m)'
      /\ \A v \in Slots : ~Working(v)'
  BY <1>1, <1>2, <1>4 DEF InQueue, Working, SafePoints
<1>6. OneMessage' /\ OneWorker' /\ OnItsWay'
  BY <1>1, <1>5 DEF FanInv, OneMessage, OneWorker, OnItsWay
<1>7. OnePart'
  BY <1>1, <1>2 DEF FanInv, OnePart, Holds
<1>8. OneFires'
  <2>1. \A v \in Slots : ~Firing(v)'
    BY <1>2, <1>3 DEF FanInv, OneFires, Firing
  <2> QED
    BY <2>1 DEF OneFires, Firing, Holds
<1>9. OneBody' /\ NoneDetached'
  BY <1>1, <1>2 DEF FanInv, OneBody, AllComplete, NoneDetached
<1> QED
  BY <1>6, <1>7, <1>8, <1>9 DEF FanInv

LEMMA FanInvStep ==
    ASSUME Unrepeated', TypeOK, TypeOK', FanInv, [Next]_vars
    PROVE  FanInv'
<1>0. SafeLosses \/ losses' # losses + 1
  BY DEF Unrepeated, SafeLosses, TypeOK
<1>1. ASSUME NEW w \in Slots, NEW m \in Message,
             Deliver(w, m) \/ DrainGet(w, m)
      PROVE  FanInv'
  <2>1. /\ slot'[w].pc \in {"body", "finalize"} /\ slot'[w].msg = m
        /\ slot'[w].mode # "detached"
        /\ \A v \in Slots \ {w} : slot'[v] = slot[v]
    BY <1>1, Typing DEF Deliver, DrainGet
  <2>2. /\ InQueue(m) /\ UNCHANGED <<join, bodies>>
        /\ \/ ready[m] > 0 /\ ready' = Take(ready, m) /\ UNCHANGED dlq
           \/ dlq[m] > 0 /\ dlq' = Take(dlq, m) /\ UNCHANGED ready
    BY <1>1 DEF Deliver, DrainGet, InQueue
  <2> QED
    BY <2>1, <2>2, TakeStep
<1>2. ASSUME NEW w \in Slots, RunFetch(w) PROVE FanInv'
  BY <1>2, KeepStep DEF RunFetch, Holds, Working, SafePoints
<1>3. ASSUME NEW w \in Slots, ParseEnds(w) PROVE FanInv'
  <2>1. PartFor(slot[w].msg, Outcome(slot[w].msg),
                Attempt(slot[w].msg)).doc = slot[w].msg.doc
    BY DEF PartFor
  <2> QED
    BY <1>3, <2>1, KeepStep
       DEF ParseEnds, EnterParse, Holds, Working, SafePoints
<1>4. ASSUME NEW w \in Slots, ParseRetries(w) PROVE FanInv'
  BY <1>4, KeepStep DEF ParseRetries, EnterParse, Holds, Working, SafePoints
<1>5. ASSUME NEW w \in Slots, SoftLimit(w) \/ LimitEscapes(w)
      PROVE  FanInv'
  <2>1. PICK pc \in {"chain", "part"}, reason \in {"soft", "limit"} :
          Step(w, pc, PartFor(slot[w].msg, reason, 0))
    BY <1>5 DEF SoftLimit, LimitEscapes
  <2>2. PartFor(slot[w].msg, reason, 0).doc = slot[w].msg.doc
    BY DEF PartFor
  <2>3. slot[w].pc # "published"
    BY <1>5 DEF SoftLimit, LimitEscapes, Unrepeated
  <2>4. Working(w) /\ UNCHANGED <<ready, dlq, join, bodies>>
    BY <1>5, <2>3 DEF SoftLimit, LimitEscapes, Working, SafePoints
  <2> QED
    BY <2>1, <2>2, <2>4, KeepStep DEF SafePoints
<1>6. ASSUME NEW w \in Slots, ParseKilled(w) PROVE FanInv'
  BY <1>6, LoseTaskStep DEF ParseKilled, EnterParse, Holds, Working, SafePoints
<1>7. ASSUME NEW w \in Slots, Lose(w) PROVE FanInv'
  BY <1>0, <1>7, LoseTaskStep DEF Lose, SafeLosses, Working
<1>8. ASSUME NEW w \in Slots, Disconnect(w) \/ Cancelled(w) PROVE FanInv'
  BY <1>0, <1>8 DEF Disconnect, Cancelled, SafeLosses, FanInv, NoneDetached
(* A message is published and the held one is about to be acknowledged.    *)
<1>9. ASSUME NEW w \in Slots, Working(w), NEW m \in Message,
             m.doc = slot[w].msg.doc, ready' = Put(ready, m),
             NEW pc \in {"ack", "published"}, Step(w, pc, NoPart),
             UNCHANGED <<dlq, join, bodies>>
      PROVE  FanInv'
  <2>1. /\ slot'[w].pc = pc /\ slot'[w].mode = slot[w].mode
        /\ \A v \in Slots \ {w} : slot'[v] = slot[v]
    BY <1>9, StepEffect
  <2>2. slot[w].mode # "detached"
    BY DEF FanInv, NoneDetached
  <2> QED
    BY <1>9, <2>1, <2>2, PutStep
<1>10. ASSUME NEW w \in Slots, PublishRetry(w) PROVE FanInv'
  <2> DEFINE m == [slot[w].msg EXCEPT !.retries = @ + 1, !.deliveries = 0]
  <2>1. slot[w].msg \in Message /\ slot[w].msg.retries < MaxRetries
    BY <1>10 DEF PublishRetry, Holds, TypeOK, SlotsOK
  <2>2. m \in Message
    BY <2>1, NextMessageType
  <2>3. m.doc = slot[w].msg.doc
    BY <2>1 DEF Message
  <2> QED
    BY <1>9, <1>10, <2>2, <2>3 DEF PublishRetry, Holds, Working, SafePoints
<1>11. ASSUME NEW w \in Slots, PublishParse(w) PROVE FanInv'
  <2> DEFINE m == ParseMessage(slot[w].msg.doc, slot[w].out.status)
  <2>1. slot[w].msg \in Message /\ slot[w].out \in Part
    BY <1>11 DEF PublishParse, Holds, TypeOK, SlotsOK
  <2>2. slot[w].msg.doc \in Docs /\ slot[w].out.status \in {"SUCCESS", "FAILURE"}
    BY <2>1 DEF Message, Part
  <2>3. m \in Message
    BY <2>2, FreshMessageType
  <2>4. m.doc = slot[w].msg.doc
    BY DEF ParseMessage
  <2> QED
    BY <1>9, <1>11, <2>3, <2>4 DEF PublishParse, Holds, Working, SafePoints
<1>16. ASSUME NEW w \in Slots, RaiseRetry(w) PROVE FanInv'
  <2>1. /\ slot'[w].pc = "ack" /\ slot'[w].mode = slot[w].mode
        /\ \A v \in Slots \ {w} : slot'[v] = slot[v]
    BY <1>16, StepEffect DEF RaiseRetry
  <2>2. slot[w].mode # "detached"
    BY DEF FanInv, NoneDetached
  <2> QED
    BY <1>16, <2>1, <2>2, IdleStep DEF RaiseRetry
<1>12. ASSUME NEW w \in Slots, Ack(w) PROVE FanInv'
  <2>1. slot'[w] = Idle /\ \A v \in Slots \ {w} : slot'[v] = slot[v]
    BY <1>12, Typing DEF Ack, Release
  <2> QED
    BY <1>12, <2>1, IdleStep DEF Ack, Idle
<1>13. ASSUME NEW w \in Slots, FinalizeDlq(w) PROVE FanInv'
  <2>1. CASE Step(w, "part", PartFor(slot[w].msg, "dlq", 0))
    <3>1. PartFor(slot[w].msg, "dlq", 0).doc = slot[w].msg.doc
      BY DEF PartFor
    <3> QED
      BY <1>13, <2>1, <3>1, KeepStep DEF FinalizeDlq, Holds, Working, SafePoints
  <2>2. CASE Release(w)
    <3>1. slot'[w] = Idle /\ \A v \in Slots \ {w} : slot'[v] = slot[v]
      BY <2>2, Typing DEF Release
    <3> QED
      BY <1>13, <3>1, IdleStep DEF FinalizeDlq, Idle
  <2> QED
    BY <1>13, <2>1, <2>2 DEF FinalizeDlq
<1>14. CASE Rest \/ UNCHANGED vars
  BY <1>14 DEF Rest, vars, FanInv, OneMessage, OneWorker, OnePart, OnItsWay,
     OneFires, OneBody, AllComplete, NoneDetached, InQueue, Working, Firing,
     Joined, Holds
<1>15. ASSUME NEW w \in Slots, Progress(w) PROVE FanInv'
  BY <1>2, <1>3, <1>4, <1>6, <1>10, <1>11, <1>12, <1>13, <1>15, <1>16,
     PartReturnStep, FireBodyStep, DeleteKeysStep DEF Progress
<1> QED
  BY <1>1, <1>5, <1>7, <1>8, <1>14, <1>15 DEF Next, Dispatch

LEMMA FanInvInit == Init => FanInv
<1> SUFFICES ASSUME Init PROVE FanInv
  OBVIOUS
<1>1. /\ \A m \in Message :
           ready[m] = (IF \E d \in Docs : m = FetchMessage(d) THEN 1 ELSE 0)
      /\ \A m \in Message : dlq[m] = 0
      /\ join = {} /\ bodies = <<>>
      /\ \A w \in Slots : slot[w] = Idle
  BY DEF Init
<1>2. \A w \in Slots : slot[w].pc = "idle" /\ slot[w].mode = "task"
  BY <1>1 DEF Idle
<1>3. OneMessage
  <2>1. \A m \in Message : InQueue(m) => m = FetchMessage(m.doc)
    BY <1>1 DEF InQueue, FetchMessage
  <2>2. \A m \in Message : ready[m] + dlq[m] <= 1
    BY <1>1
  <2> QED
    BY <2>1, <2>2 DEF OneMessage
<1>4. OneWorker /\ OnePart /\ OnItsWay /\ OneFires /\ NoneDetached
  BY <1>1, <1>2 DEF OneWorker, OnePart, OnItsWay, OneFires, NoneDetached,
     Working, Firing, SafePoints, Holds, Joined
<1>5. OneBody
  BY <1>1 DEF OneBody, AllComplete, Complete
<1> QED
  BY <1>3, <1>4, <1>5 DEF FanInv

(* Losses are only counted up, and hits not forgotten.                     *)
LEMMA UnrepeatedBefore ==
    ASSUME TypeOK, [Next]_vars, Unrepeated'
    PROVE  Unrepeated
<1>1. losses \in Nat /\ (losses' = losses \/ losses' = losses + 1)
  BY DEF TypeOK, Next, vars, Rest, Progress, RunFetch, ParseEnds, ParseRetries,
     ParseKilled, EnterParse, PublishRetry, RaiseRetry, PublishParse,
     PartReturn, FireBody, DeleteKeys, Ack, FinalizeDlq, Dispatch, Deliver,
     DrainGet, SoftLimit, LimitEscapes, Lose, Disconnect, Cancelled
<1> QED
  BY <1>1, HitsGrow DEF Unrepeated, SafeLosses

LEMMA FanInvariance == Spec => [](TypeOK /\ (Unrepeated => FanInv))
<1>1. Init => (Unrepeated => FanInv)
  BY FanInvInit
<1>2. TypeOK /\ TypeOK' /\ (Unrepeated => FanInv) /\ [Next]_vars
        => (Unrepeated => FanInv)'
  BY FanInvStep, UnrepeatedBefore
<1> QED
  BY <1>1, <1>2, TypeCorrect, PTL DEF Spec

(* Every notify message carries exactly one result for each document,      *)
(* however often a message is retried, requeued or dead-lettered and       *)
(* wherever limits hit but between a retry's publication and its raise, if *)
(* what is lost is lost before a part is counted, and in any case until a  *)
(* worker is lost besides the schedule.                                    *)
THEOREM BodyIsComplete ==
    Spec => [](SafeLosses \/ losses = 0 => FanInComplete)
<1>1. TypeOK /\ (Unrepeated => FanInv)
        => (SafeLosses \/ losses = 0 => FanInComplete)
  BY DEF Unrepeated, FanInv, OneBody, AllComplete, FanInComplete
<1> QED
  BY <1>1, FanInvariance, PTL

-----------------------------------------------------------------------------
(* The refinement.                                                         *)
Shown == [d \in Docs |-> IF Ended(d) = {} THEN "pending"
                         ELSE CHOOSE status \in Ended(d) : TRUE]

Waived == chordFailed \/ dropped # {} \/ "published" \in hits

LEMMA ShownType ==
    ASSUME TypeOK
    PROVE  /\ Shown \in [Docs -> {"SUCCESS", "FAILURE"} \cup {"pending"}]
           /\ Len(bodies) \in Nat
<1>1. Results \subseteq Part
  <2>1. bodies # <<>> => bodies[1] \in SUBSET Part
    BY Typing
  <2> QED
    BY <2>1, Typing DEF Results
<1>2. \A d \in Docs : Ended(d) \subseteq {"SUCCESS", "FAILURE"}
  BY <1>1 DEF Ended, Part
<1>3. Len(bodies) \in Nat
  BY Typing, LenProperties
<1> QED
  BY <1>2, <1>3 DEF Shown

(* A document has ended when it has a part, and the status shown is the    *)
(* one of its only part.                                                   *)
LEMMA ShownOf ==
    ASSUME TypeOK, FanInv, NEW d \in Docs
    PROVE  /\ (\A p \in Results : p.doc # d) => Shown[d] = "pending"
           /\ \A p \in Results : p.doc = d => Shown[d] = p.status
<1>1. \A p, q \in Results : p.doc = q.doc => p = q
  <2>1. CASE bodies = <<>>
    BY <2>1 DEF Results, FanInv, OnePart
  <2>2. CASE bodies # <<>>
    <3>1. 1 \in DOMAIN bodies
      BY <2>2, Typing
    <3> QED
      BY <2>2, <3>1 DEF Results, FanInv, OneBody, AllComplete, Complete
  <2> QED
    BY <2>1, <2>2
<1>2. ASSUME \A p \in Results : p.doc # d PROVE Shown[d] = "pending"
  BY <1>2 DEF Shown, Ended
<1>3. ASSUME NEW p \in Results, p.doc = d PROVE Shown[d] = p.status
  <2>1. Ended(d) = {p.status}
    BY <1>1, <1>3 DEF Ended
  <2> QED
    BY <2>1 DEF Shown
<1> QED
  BY <1>2, <1>3

LEMMA ShownTypeNext ==
    TypeOK' => (/\ Shown \in [Docs -> {"SUCCESS", "FAILURE"} \cup {"pending"}]
                /\ Len(bodies) \in Nat)'
<1>1. TypeOK => /\ Shown \in [Docs -> {"SUCCESS", "FAILURE"} \cup {"pending"}]
                /\ Len(bodies) \in Nat
  BY ShownType
<1> QED
  BY <1>1, PTL

LEMMA InitRefines == Init => Abstract!Init
<1> SUFFICES ASSUME Init PROVE Abstract!Init
  OBVIOUS
<1>1. join = {} /\ bodies = <<>> /\ ~Waived
  BY DEF Init, Waived
<1>2. \A d \in Docs : Ended(d) = {}
  BY <1>1 DEF Ended, Results
<1> QED
  BY <1>1, <1>2 DEF Abstract!Init, Waived

LEMMA SameShown == Results' = Results => Shown' = Shown
<1> SUFFICES ASSUME Results' = Results PROVE Shown' = Shown
  OBVIOUS
<1>1. ASSUME NEW d \in Docs PROVE Shown'[d] = Shown[d]
  <2>1. Ended(d)' = Ended(d)
    BY DEF Ended
  <2> QED
    BY <2>1 DEF Shown
<1> QED
  BY <1>1 DEF Shown

LEMMA Stutter ==
    ASSUME Results' = Results, Len(bodies)' = Len(bodies), ~Waived
    PROVE  [Abstract!Next]_(Abstract!vars)
<1>1. Shown' = Shown
  BY SameShown
<1>2. CASE Waived'
  <2>1. Abstract!Waive
    BY <1>1, <1>2 DEF Abstract!Waive, Shown, Waived
  <2> QED
    BY <2>1 DEF Abstract!Next
<1>3. CASE ~Waived'
  <2>1. UNCHANGED Abstract!vars
    BY <1>1, <1>3 DEF Abstract!vars, Shown, Waived
  <2> QED
    BY <2>1
<1> QED
  BY <1>2, <1>3

LEMMA PartReturnRefines ==
    ASSUME TypeOK, FanInv, NEW w \in Slots, PartReturn(w), ~Waived
    PROVE  Abstract!Next
<1>0. PICK p, d : p = slot[w].out /\ d = slot[w].msg.doc
  OBVIOUS
<1>1. /\ p.doc = d /\ join' = join \cup {p} /\ bodies' = bodies
      /\ Working(w) /\ Holds(w, "part")
  BY <1>0 DEF PartReturn, FanInv, OnePart, Working, Holds, SafePoints
<1>2. /\ d \in Docs /\ p \in Part
  BY <1>0, <1>1, Typing DEF Holds, TypeOK, SlotsOK
<1>3. ~Joined(d) /\ bodies = <<>>
  BY <1>0, <1>1, HeldToken
<1>4. Results = join /\ Results' = join \cup {p}
  BY <1>1, <1>3 DEF Results
<1>5. Shown[d] = "pending"
  BY <1>2, <1>3, <1>4, ShownOf DEF Joined
<1>6. Shown'[d] = p.status
  <2>1. {q \in Results' : q.doc = d} = {p}
    BY <1>1, <1>3, <1>4 DEF Joined
  <2>2. Ended(d)' = {p.status}
    BY <2>1 DEF Ended
  <2> QED
    BY <1>2, <2>2 DEF Shown
<1>7. ASSUME NEW e \in Docs \ {d} PROVE Shown'[e] = Shown[e]
  <2>1. {q \in Results' : q.doc = e} = {q \in Results : q.doc = e}
    BY <1>1, <1>4
  <2>2. Ended(e)' = Ended(e)
    BY <2>1 DEF Ended
  <2> QED
    BY <2>2 DEF Shown
<1>8. Shown' = [Shown EXCEPT ![d] = p.status]
  BY <1>6, <1>7 DEF Shown
<1>9. p.status \in {"SUCCESS", "FAILURE"}
  BY <1>2 DEF Part
<1>11. ~Waived'
  BY DEF Waived, PartReturn
<1>10. Abstract!Finish(d, p.status)
  BY <1>1, <1>2, <1>5, <1>8, <1>11 DEF Abstract!Finish, Shown, Waived
<1> QED
  BY <1>2, <1>9, <1>10 DEF Abstract!Next, Abstract!Promised, Abstract!Status

LEMMA FireBodyRefines ==
    ASSUME TypeOK, FanInv, NEW w \in Slots, FireBody(w), bodies' # bodies,
           ~Waived
    PROVE  Abstract!Next
<1>1. Holds(w, "fire") /\ bodies' = Append(bodies, join) /\ join' = join
  BY DEF FireBody
<1>2. bodies = <<>> /\ \A d \in Docs : Joined(d)
  BY <1>1 DEF FanInv, OneFires
<1>3. bodies' = <<join>>
  BY <1>1, <1>2
<1>4. Len(bodies) = 0 /\ Len(bodies') = 1 /\ bodies' # <<>> /\ bodies'[1] = join
  BY <1>2, <1>3
<1>5. Results = join /\ Results' = join
  BY <1>1, <1>2, <1>4 DEF Results
<1>6. Shown' = Shown
  BY <1>5, SameShown
<1>7. ASSUME NEW d \in Docs PROVE Shown[d] # "pending"
  <2>1. PICK p \in join : p.doc = d
    BY <1>2 DEF Joined
  <2>2. Shown[d] = p.status
    BY <1>5, <2>1, ShownOf
  <2>3. p.status \in {"SUCCESS", "FAILURE"}
    BY Typing DEF Part
  <2> QED
    BY <2>2, <2>3
<1>9. ~Waived'
  BY DEF Waived, FireBody
<1>8. Abstract!Notify
  BY <1>4, <1>6, <1>7, <1>9 DEF Abstract!Notify, Shown, Waived
<1> QED
  BY <1>8 DEF Abstract!Next, Abstract!Promised

LEMMA DeleteKeysRefines ==
    ASSUME TypeOK, FanInv, NEW w \in Slots, DeleteKeys(w), ~Waived
    PROVE  [Abstract!Next]_(Abstract!vars)
<1>1. bodies # <<>> /\ bodies' = bodies
  BY DEF DeleteKeys, FanInv, OneFires
<1>2. Results' = Results
  BY <1>1 DEF Results
<1> QED
  BY <1>1, <1>2, Stutter

(* While the promise is on.                                                *)
LEMMA NextRefines ==
    ASSUME TypeOK, FanInv, [Next]_vars, ~Waived
    PROVE  [Abstract!Next]_(Abstract!vars)
<1>0. ASSUME UNCHANGED <<join, bodies>> PROVE [Abstract!Next]_(Abstract!vars)
  BY <1>0, Stutter DEF Results
<1>1. ASSUME NEW w \in Slots, PartReturn(w) \/ FireBody(w) \/ DeleteKeys(w)
      PROVE  [Abstract!Next]_(Abstract!vars)
  <2>1. FireBody(w) /\ bodies' = bodies => UNCHANGED <<join, bodies>>
    BY DEF FireBody
  <2> QED
    BY <1>0, <1>1, <2>1, PartReturnRefines, FireBodyRefines, DeleteKeysRefines
<1>2. ASSUME NEW w \in Slots,
             \/ Progress(w) /\ ~PartReturn(w) /\ ~FireBody(w) /\ ~DeleteKeys(w)
             \/ Dispatch(w) \/ SoftLimit(w) \/ LimitEscapes(w)
             \/ Lose(w) \/ Disconnect(w) \/ Cancelled(w)
      PROVE  UNCHANGED <<join, bodies>>
  BY <1>2 DEF Progress, RunFetch, ParseEnds, ParseRetries, ParseKilled,
     EnterParse, PublishRetry, RaiseRetry, PublishParse, Ack, FinalizeDlq,
     Dispatch, Deliver, DrainGet, SoftLimit, LimitEscapes, Lose, Disconnect,
     Cancelled
<1>3. Rest \/ UNCHANGED vars => UNCHANGED <<join, bodies>>
  BY DEF Rest, vars
<1> QED
  BY <1>0, <1>1, <1>2, <1>3 DEF Next

(* The promise is not taken up again.                                      *)
LEMMA StaysWaived ==
    ASSUME [Next]_vars, Waived
    PROVE  Waived'
<1>1. ASSUME NEW w \in Slots, FireBody(w) \/ FinalizeDlq(w)
      PROVE  (chordFailed => chordFailed') /\ dropped \subseteq dropped'
  BY <1>1 DEF FireBody, FinalizeDlq
<1>2. ASSUME NEW w \in Slots,
             \/ Progress(w) /\ ~FireBody(w) /\ ~FinalizeDlq(w)
             \/ Dispatch(w) \/ SoftLimit(w) \/ LimitEscapes(w)
             \/ Lose(w) \/ Disconnect(w) \/ Cancelled(w)
      PROVE  UNCHANGED <<chordFailed, dropped>>
  BY <1>2 DEF Progress, RunFetch, ParseEnds, ParseRetries, ParseKilled,
     EnterParse, PublishRetry, RaiseRetry, PublishParse, PartReturn,
     DeleteKeys, Ack, Dispatch, Deliver, DrainGet, SoftLimit, LimitEscapes,
     Lose, Disconnect, Cancelled
<1>3. Rest \/ UNCHANGED vars => UNCHANGED <<chordFailed, dropped>>
  BY DEF Rest, vars
<1>4. (chordFailed => chordFailed') /\ dropped \subseteq dropped'
  BY <1>1, <1>2, <1>3 DEF Next
<1> QED
  BY <1>4, HitsGrow DEF Waived

(* With losses at safe points every behaviour of the pipeline, with        *)
(* poison, retries, dead letters and limits, is one of FanIn: each         *)
(* document ends once, and one notify follows when all have ended, unless  *)
(* the promise is waived first: by a FAILURE state, by a dead letter that  *)
(* is no part, or by a limit beside a published retry.                     *)
THEOREM Refinement ==
    ASSUME SafeLosses
    PROVE  Spec => Abstract!Spec
<1>1. ASSUME TypeOK, TypeOK', Unrepeated => FanInv, [Next]_vars
      PROVE  [Abstract!Next]_(Abstract!vars)
  <2>1. CASE Waived
    <3>1. Abstract!Unpromised
      BY <1>1, <2>1, ShownType, ShownTypeNext, StaysWaived
         DEF Abstract!Unpromised, Abstract!Status, Waived, Shown
    <3> QED
      BY <3>1 DEF Abstract!Next
  <2>2. CASE ~Waived
    <3>1. FanInv
      BY <1>1, <2>2 DEF Waived, Unrepeated
    <3> QED
      BY <1>1, <2>2, <3>1, NextRefines
  <2> QED
    BY <2>1, <2>2
<1>2. TypeOK /\ TypeOK' /\ (Unrepeated => FanInv) /\ [Next]_vars
        => [Abstract!Next]_(Abstract!vars)
  BY <1>1
<1> QED
  BY <1>2, InitRefines, FanInvariance, PTL DEF Spec, Abstract!Spec

=============================================================================
