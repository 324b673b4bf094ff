---------------------------- MODULE ReportProofs ----------------------------
(***************************************************************************)
(* Why the runner's predictions are right: proofs about Report, and about  *)
(* ChordHeader's AttemptsAsPredicted and OutcomesAsPredicted, for any      *)
(* documents and any schedule the predictions are made for.                *)
(***************************************************************************)
EXTENDS Report, FanInProofs

Kind(d) == Schedule[d].kind

Faltering == {"TIMES", "FLAKE_FOREVER"}

(* What _expected_attempts takes for granted: a flaky document recovers    *)
(* within the retry budget (it says times + 1 also for more), and one      *)
(* crash does not exhaust the queue's delivery limit.  The schedules of    *)
(* fm5 and fm6, and the limit of 3, are such.                              *)
Foreseen ==
    \A d \in Docs :
        /\ Kind(d) = "TIMES" => Schedule[d].times <= MaxRetries
        /\ Kind(d) = "CRASH_ONCE" /\ DeadLetters => DeliveryLimit >= 2

-----------------------------------------------------------------------------
(* What the attempts of its document say of a task message that is queued  *)
(* or about to run.                                                        *)
Awaits(m) ==
    LET d == m.doc  n == attempts[m.doc]
    IN  IF m.task = "fetch" THEN n = 0
        ELSE /\ m.input = "SUCCESS"
             /\ Kind(d) \in Faltering => n = m.retries
             /\ Kind(d) = "TIMES" => n <= Schedule[d].times
             /\ Kind(d) = "POISON" => n = m.deliveries
             /\ Kind(d) = "CRASH_ONCE" => n <= 1
             /\ Kind(d) = "CRASH_ONCE" /\ DeadLetters => n = m.deliveries
             /\ Kind(d) \notin Faltering \cup {"POISON", "CRASH_ONCE"} => n = 0

(* Only poison is dead-lettered, when the limit is reached.                *)
Dead(m) ==
    /\ m.task = "parse" /\ Kind(m.doc) = "POISON"
    /\ attempts[m.doc] \in {DeliveryLimit, DeliveryLimit + 1}

(* A body has raised a transient error and is about to be retried.         *)
Again(m) ==
    /\ m.task = "parse" /\ m.input = "SUCCESS" /\ Kind(m.doc) \in Faltering
    /\ attempts[m.doc] = m.retries + 1
    /\ Kind(m.doc) = "TIMES" => attempts[m.doc] <= Schedule[m.doc].times

(* A part is what was predicted of its document.                           *)
Settled(p) ==
    /\ AcksLate =>
         \/ attempts[p.doc] = ExpectedAttempts(p.doc)
         \/ Kind(p.doc) = "POISON" /\ attempts[p.doc] = ExpectedAttempts(p.doc) + 1
    /\ p.status = "FAILURE" <=> p.doc \in ExpectedFailed

SlotForetold(w) ==
    LET s == slot[w]
    IN  /\ s.pc = "body" => Awaits(s.msg) /\ s.mode # "drain"
        /\ s.pc = "finalize" => Dead(s.msg)
        /\ s.pc = "chain" => s.out.status = "SUCCESS" /\ attempts[s.msg.doc] = 0
        /\ s.pc = "retry" => Again(s.msg)
        /\ s.pc = "part" => Settled(s.out)

Foretold ==
    /\ \A m \in Message : ready[m] > 0 => Awaits(m)
    /\ \A m \in Message : dlq[m] > 0 => Dead(m)
    /\ \A w \in Slots : SlotForetold(w)
    /\ \A p \in join : Settled(p)
    /\ \A i \in DOMAIN bodies : \A p \in bodies[i] : Settled(p)

-----------------------------------------------------------------------------
(* The schedule and the body of parse_document.                            *)

LEMMA KindFacts ==
    ASSUME NEW d \in Docs
    PROVE  /\ Kind(d) \in FlakeKind /\ Schedule[d].times \in Nat
           /\ Kind(d) \in Faltering => Retryable /\ AcksLate
           /\ Kind(d) = "POISON" => DeadLetters /\ AcksLate
           /\ Kind(d) = "CRASH_ONCE" => AcksLate
           /\ Kind(d) \in {"SOFT_HANG", "HARD_HANG_MANUAL"} => AcksLate
<1>1. /\ Schedule[d] \in FlakeEntry /\ Schedule[d].kind \in KnownKinds
  BY ChordHeaderAssumption DEF ChordHeaderAssumption
<1>2. /\ DeadLetters => AcksLate
      /\ Retryable => AcksLate
      /\ TimeLimits => AcksLate
  BY TaskExitAssumption
     DEF TaskExitAssumption, AcksLate, DeadLetters, Retryable, TimeLimits
<1> QED
  BY <1>1, <1>2 DEF FlakeEntry, KnownKinds, Kind, Faltering

(* Before fm2 nothing is counted, and nothing is tried twice.              *)
LEMMA BodyOf ==
    ASSUME TypeOK, NEW m \in Message, m.task = "parse", Awaits(m),
           NEW d \in Docs, d = m.doc
    PROVE  /\ attempts[d] \in Nat
           /\ DocId(m) = d
           /\ Attempt(m) = attempts[d] + 1
           /\ Outcome(m) = ParseOutcome(Schedule[d], attempts[d] + 1)
<1>1. attempts[d] \in Nat
  BY DEF TypeOK
<1>2. m.input = "SUCCESS" /\ DocId(m) = d /\ d # Unknown
  BY ConstantTypes DEF Awaits, DocId
<1>3. ~AcksLate => attempts[d] = 0
  BY KindFacts DEF Awaits
<1>4. Attempt(m) = attempts[d] + 1
  BY <1>1, <1>2, <1>3 DEF Attempt
<1> QED
  BY <1>1, <1>2, <1>4 DEF Outcome

(* Who is killed, and how often.                                           *)
LEMMA KilledBody ==
    ASSUME TypeOK, NEW m \in Message, m.task = "parse", Awaits(m),
           NEW d \in Docs, d = m.doc, Outcome(m) = "kill"
    PROVE  /\ AcksLate
           /\ \/ Kind(d) = "POISON"
              \/ Kind(d) = "CRASH_ONCE" /\ attempts[d] = 0
<1>1. IsKilled(Schedule[d], attempts[d] + 1)
  <2>1. ParseOutcome(Schedule[d], attempts[d] + 1) = "kill"
    BY BodyOf
  <2> QED
    BY <2>1 DEF ParseOutcome
<1>2. attempts[d] \in Nat
  BY BodyOf
<1> QED
  BY <1>1, <1>2, KindFacts DEF IsKilled, Kind

(* Who is retried.                                                         *)
LEMMA RetriedBody ==
    ASSUME TypeOK, NEW m \in Message, m.task = "parse", Awaits(m),
           NEW d \in Docs, d = m.doc, Retries(Outcome(m), m.retries)
    PROVE  /\ Kind(d) \in Faltering /\ attempts[d] = m.retries
           /\ Kind(d) = "TIMES" => attempts[d] + 1 <= Schedule[d].times
<1>1. ParseOutcome(Schedule[d], attempts[d] + 1) = "transient"
  BY BodyOf DEF Retries
<1>2. IsTransient(Schedule[d], attempts[d] + 1)
  BY <1>1 DEF ParseOutcome
<1> QED
  BY <1>2 DEF IsTransient, Awaits, Kind, Faltering

(* Who is not: its result is the predicted one.                            *)
LEMMA EndedBody ==
    ASSUME Foreseen, TypeOK, NEW m \in Message, m.task = "parse", Awaits(m),
           NEW d \in Docs, d = m.doc,
           Outcome(m) # "kill", ~Retries(Outcome(m), m.retries)
    PROVE  /\ attempts[d] + 1 = ExpectedAttempts(d)
           /\ Status(Outcome(m)) = "FAILURE" <=> d \in ExpectedFailed
<1> DEFINE e == Schedule[d]
           n == attempts[d] + 1
<1>1. /\ attempts[d] \in Nat /\ Outcome(m) = ParseOutcome(e, n)
      /\ ParseOutcome(e, n) # "kill"
      /\ MaxRetries \in Nat /\ m.retries \in 0..MaxRetries
  BY BodyOf, ConstantTypes DEF Message
<1>2. e.kind \in FlakeKind /\ e.times \in Nat /\ e.kind = Kind(d)
  BY KindFacts DEF Kind
<1>3. d \in ExpectedFailed <=> e.kind \notin {"NONE", "CRASH_ONCE", "TIMES"}
  BY DEF ExpectedFailed
<1>4. e.kind \notin Faltering \cup {"POISON", "CRASH_ONCE"} => attempts[d] = 0
  BY <1>2 DEF Awaits
<1>5. CASE e.kind \in {"NONE", "FAIL", "SOFT_HANG", "HARD_HANG_MANUAL"}
  <2>1. n = 1
    BY <1>4, <1>5 DEF Faltering
  <2>2. ExpectedAttempts(d) = 1
    BY <1>5 DEF ExpectedAttempts
  <2>3. ParseOutcome(e, n) = CASE e.kind = "FAIL" -> "raise"
                               [] e.kind = "SOFT_HANG" -> "soft"
                               [] e.kind = "HARD_HANG_MANUAL" -> "hard"
                               [] OTHER -> "return"
    BY <1>5 DEF ParseOutcome, IsKilled, IsTransient
  <2>4. Status(ParseOutcome(e, n)) = "FAILURE" <=> e.kind # "NONE"
    BY <1>5, <2>3 DEF Status
  <2>5. Status(Outcome(m)) = "FAILURE" <=> d \in ExpectedFailed
    <3>1. Status(Outcome(m)) = Status(ParseOutcome(e, n))
      BY <1>1
    <3>2. d \in ExpectedFailed <=> e.kind # "NONE"
      BY <1>3, <1>5
    <3> QED
      BY <2>4, <3>1, <3>2
  <2> QED
    BY <2>1, <2>2, <2>5
<1>6. CASE e.kind = "CRASH_ONCE"
  <2>1. n = 2
    <3>1. attempts[d] <= 1
      BY <1>2, <1>6 DEF Awaits
    <3>2. n # 1
      <4>1. IsKilled(e, 1) /\ ~IsTransient(e, 1)
        BY <1>6 DEF IsKilled, IsTransient
      <4>2. ParseOutcome(e, 1) = "kill"
        BY <1>6, <4>1 DEF ParseOutcome
      <4> QED
        BY <1>1, <4>2
    <3> QED
      BY <1>1, <3>1, <3>2
  <2>2. ExpectedAttempts(d) = 2
    BY <1>6 DEF ExpectedAttempts
  <2>3. ParseOutcome(e, n) = "return"
    <3>1. ~IsKilled(e, 2) /\ ~IsTransient(e, 2)
      BY <1>6 DEF IsKilled, IsTransient
    <3>2. ParseOutcome(e, 2) = "return"
      BY <1>6, <3>1 DEF ParseOutcome
    <3> QED
      BY <2>1, <3>2
  <2> QED
    BY <1>1, <1>3, <1>6, <2>1, <2>2, <2>3 DEF Status
<1>7. CASE e.kind = "POISON"
  <2>1. IsKilled(e, n) /\ ~IsTransient(e, n)
    BY <1>7 DEF IsKilled, IsTransient
  <2>2. ParseOutcome(e, n) = "kill"
    BY <1>7, <2>1 DEF ParseOutcome
  <2> QED
    BY <1>1, <2>2
<1>8. CASE e.kind = "FLAKE_FOREVER"
  <2>1. ParseOutcome(e, n) = "transient"
    BY <1>8 DEF ParseOutcome, IsKilled, IsTransient
  <2>2. attempts[d] = m.retries /\ Retryable
    BY <1>2, <1>8, KindFacts DEF Awaits, Faltering
  <2>3. n = MaxRetries + 1
    BY <1>1, <2>1, <2>2 DEF Retries
  <2>4. ExpectedAttempts(d) = MaxRetries + 1
    BY <1>8 DEF ExpectedAttempts
  <2> QED
    BY <1>1, <1>3, <1>8, <2>1, <2>3, <2>4 DEF Status
<1>9. CASE e.kind = "TIMES"
  <2>1. /\ attempts[d] = m.retries /\ Retryable
        /\ attempts[d] <= e.times /\ e.times <= MaxRetries
    BY <1>2, <1>9, KindFacts DEF Awaits, Faltering, Foreseen
  <2>2. ~(n <= e.times)
    <3>1. SUFFICES ASSUME n <= e.times PROVE FALSE
      OBVIOUS
    <3>2. ParseOutcome(e, n) = "transient"
      BY <1>9, <3>1 DEF ParseOutcome, IsKilled, IsTransient
    <3>3. m.retries < MaxRetries
      BY <1>1, <1>2, <2>1, <3>1
    <3> QED
      BY <1>1, <2>1, <3>2, <3>3 DEF Retries
  <2>3. n = e.times + 1
    BY <1>1, <1>2, <2>1, <2>2
  <2>4. ParseOutcome(e, n) = "return"
    BY <1>9, <2>2 DEF ParseOutcome, IsKilled, IsTransient
  <2>5. ExpectedAttempts(d) = e.times + 1
    BY <1>9 DEF ExpectedAttempts
  <2> QED
    BY <1>1, <1>3, <1>9, <2>3, <2>4, <2>5 DEF Status
<1> QED
  BY <1>2, <1>5, <1>6, <1>7, <1>8, <1>9 DEF FlakeKind

-----------------------------------------------------------------------------
(* Foretold goes on: first for steps that count no attempt, then for those *)
(* that count one for the document in the hands of slot w.                 *)
LEMMA StillForetold ==
    ASSUME Foretold, NEW w \in Slots, attempts' = attempts,
           \A v \in Slots \ {w} : slot'[v] = slot[v], SlotForetold(w)',
           \A m \in Message : ready'[m] > 0 => ready[m] > 0 \/ Awaits(m),
           \A m \in Message : dlq'[m] > 0 => dlq[m] > 0 \/ Dead(m),
           \A p \in join' : p \in join \/ Settled(p),
           \A i \in DOMAIN bodies' : \A p \in bodies'[i] : Settled(p)
    PROVE  Foretold'
<1>1. /\ \A m : (Awaits(m)' <=> Awaits(m)) /\ (Dead(m)' <=> Dead(m))
      /\ \A p : Settled(p)' <=> Settled(p)
  BY DEF Awaits, Dead, Settled
<1>2. ASSUME NEW v \in Slots PROVE SlotForetold(v)'
  <2>1. CASE v = w
    BY <2>1
  <2>2. CASE v # w
    <3>1. SlotForetold(v) /\ slot'[v] = slot[v]
      BY <2>2 DEF Foretold
    <3> QED
      BY <3>1 DEF SlotForetold, Awaits, Dead, Again, Settled
  <2> QED
    BY <2>1, <2>2
<1> QED
  BY <1>1, <1>2 DEF Foretold

LEMMA CountedForetold ==
    ASSUME TypeOK, FanInv, Foretold, NEW w \in Slots, Working(w),
           NEW d \in Docs, d = slot[w].msg.doc,
           \A e \in Docs \ {d} : attempts'[e] = attempts[e],
           UNCHANGED <<join, bodies>>,
           \A v \in Slots \ {w} : slot'[v] = slot[v], SlotForetold(w)',
           \A m \in Message : ready'[m] > 0 => ready[m] > 0 \/ Awaits(m)',
           \A m \in Message : dlq'[m] > 0 => dlq[m] > 0 \/ Dead(m)'
    PROVE  Foretold'
<1>0. /\ \A n \in Message : n.doc = d => ready[n] = 0 /\ dlq[n] = 0
      /\ \A v \in Slots \ {w} : Working(v) => slot[v].msg.doc # d
      /\ ~Joined(d) /\ bodies = <<>>
  BY HeldToken
<1>1. ASSUME NEW m \in Message, ready[m] > 0 PROVE Awaits(m)'
  <2>1. Awaits(m) /\ m.doc \in Docs /\ m.doc # d
    BY <1>0, <1>1 DEF Foretold, Message
  <2>2. attempts'[m.doc] = attempts[m.doc]
    BY <2>1
  <2> QED
    BY <2>1, <2>2 DEF Awaits
<1>2. ASSUME NEW m \in Message, dlq[m] > 0 PROVE Dead(m)'
  <2>1. Dead(m) /\ m.doc \in Docs /\ m.doc # d
    BY <1>0, <1>2 DEF Foretold, Message
  <2>2. attempts'[m.doc] = attempts[m.doc]
    BY <2>1
  <2> QED
    BY <2>1, <2>2 DEF Dead
<1>3. ASSUME NEW p \in join PROVE Settled(p)'
  <2>1. Settled(p) /\ p.doc # d /\ p.doc \in Docs
    BY <1>0, Typing DEF Foretold, Joined, Part
  <2>2. attempts'[p.doc] = attempts[p.doc]
    BY <2>1
  <2> QED
    BY <2>1, <2>2 DEF Settled
<1>4. ASSUME NEW v \in Slots PROVE SlotForetold(v)'
  <2>1. CASE v = w
    BY <2>1
  <2>2. CASE v # w /\ ~Working(v)
    BY <2>2 DEF SlotForetold, Working, SafePoints
  <2>3. CASE v # w /\ Working(v)
    <3>1. slot'[v] = slot[v] /\ SlotForetold(v)
      BY <2>3 DEF Foretold
    <3>2. slot[v].msg.doc \in Docs /\ slot[v].msg.doc # d
      BY <1>0, <2>3, Typing DEF Working, SafePoints
    <3>3. attempts'[slot[v].msg.doc] = attempts[slot[v].msg.doc]
      BY <3>2
    <3>4. slot[v].pc = "part" => slot[v].out.doc = slot[v].msg.doc
      BY DEF FanInv, OnePart, Holds
    <3> QED
      BY <3>1, <3>3, <3>4 DEF SlotForetold, Awaits, Dead, Again, Settled
  <2> QED
    BY <2>1, <2>2, <2>3
<1> QED
  BY <1>0, <1>1, <1>2, <1>3, <1>4 DEF Foretold

(* What one execution of parse_document starts from and counts.            *)
LEMMA EnteredParse ==
    ASSUME TypeOK, Foretold, NEW w \in Slots, EnterParse(w),
           NEW m, m = slot[w].msg, NEW d, d = m.doc
    PROVE  /\ m \in Message /\ m.task = "parse" /\ Awaits(m)
           /\ d \in Docs /\ attempts[d] \in Nat /\ Working(w)
           /\ slot[w].mode # "drain"
           /\ AcksLate => attempts'[d] = attempts[d] + 1
           /\ ~AcksLate => attempts' = attempts
           /\ \A e \in Docs \ {d} : attempts'[e] = attempts[e]
           /\ UNCHANGED <<join, bodies>>
<1>1. Holds(w, "body") /\ m.task = "parse"
  BY DEF EnterParse
<1>2. m \in Message /\ d \in Docs
  BY <1>1, Typing DEF Holds
<1>3. Awaits(m) /\ slot[w].mode # "drain"
  BY <1>1 DEF Foretold, SlotForetold, Holds
<1>4. DocId(m) = d /\ attempts[d] \in Nat
  BY <1>1, <1>2, <1>3, BodyOf
<1>5. attempts \in [Docs \cup {Unknown} -> Nat]
  BY DEF TypeOK
<1> QED
  BY <1>1, <1>2, <1>3, <1>4, <1>5 DEF EnterParse, Working, SafePoints, Holds

LEMMA ParseEndsForetold ==
    ASSUME Foreseen, TypeOK, FanInv, Foretold, NEW w \in Slots, ParseEnds(w)
    PROVE  Foretold'
<1>0. PICK m, d : m = slot[w].msg /\ d = m.doc
  OBVIOUS
<1>1. /\ EnterParse(w) /\ Outcome(m) # "kill"
      /\ ~Retries(Outcome(m), m.retries)
      /\ Step(w, "part", PartFor(m, Outcome(m), Attempt(m)))
      /\ UNCHANGED <<ready, dlq>>
  BY <1>0 DEF ParseEnds
<1>2. /\ m \in Message /\ m.task = "parse" /\ Awaits(m)
      /\ d \in Docs /\ attempts[d] \in Nat /\ Working(w)
      /\ AcksLate => attempts'[d] = attempts[d] + 1
      /\ \A e \in Docs \ {d} : attempts'[e] = attempts[e]
      /\ UNCHANGED <<join, bodies>>
  BY <1>0, <1>1, EnteredParse
<1>3. /\ attempts[d] + 1 = ExpectedAttempts(d)
      /\ Status(Outcome(m)) = "FAILURE" <=> d \in ExpectedFailed
  BY <1>0, <1>1, <1>2, EndedBody
<1>4. /\ slot'[w].pc = "part"
      /\ slot'[w].out = PartFor(m, Outcome(m), Attempt(m))
      /\ \A v \in Slots \ {w} : slot'[v] = slot[v]
  BY <1>1, StepEffect
<1>5. /\ slot'[w].out.doc = d
      /\ slot'[w].out.status = Status(Outcome(m))
  BY <1>0, <1>4 DEF PartFor
<1>6. SlotForetold(w)'
  <2>1. Settled(slot[w].out)'
    BY <1>2, <1>3, <1>5 DEF Settled
  <2> QED
    BY <1>4, <2>1 DEF SlotForetold
<1> QED
  BY <1>0, <1>1, <1>2, <1>4, <1>6, CountedForetold

LEMMA ParseRetriesForetold ==
    ASSUME TypeOK, FanInv, Foretold, NEW w \in Slots, ParseRetries(w)
    PROVE  Foretold'
<1>0. PICK m, d : m = slot[w].msg /\ d = m.doc
  OBVIOUS
<1>1. /\ EnterParse(w) /\ Retries(Outcome(m), m.retries)
      /\ Step(w, "retry", NoPart) /\ UNCHANGED <<ready, dlq>>
  BY <1>0 DEF ParseRetries
<1>2. /\ m \in Message /\ m.task = "parse" /\ Awaits(m)
      /\ d \in Docs /\ attempts[d] \in Nat /\ Working(w)
      /\ AcksLate => attempts'[d] = attempts[d] + 1
      /\ \A e \in Docs \ {d} : attempts'[e] = attempts[e]
      /\ UNCHANGED <<join, bodies>>
  BY <1>0, <1>1, EnteredParse
<1>3. /\ Kind(d) \in Faltering /\ attempts[d] = m.retries
      /\ Kind(d) = "TIMES" => attempts[d] + 1 <= Schedule[d].times
  BY <1>0, <1>1, <1>2, RetriedBody
<1>4. /\ slot'[w].pc = "retry" /\ slot'[w].msg = m
      /\ \A v \in Slots \ {w} : slot'[v] = slot[v]
  BY <1>0, <1>1, StepEffect
<1>5. SlotForetold(w)'
  <2>1. attempts'[d] = m.retries + 1
    BY <1>2, <1>3, KindFacts
  <2>2. m.input = "SUCCESS"
    BY <1>2 DEF Awaits
  <2>3. Again(m)'
    BY <1>0, <1>2, <1>3, <2>1, <2>2 DEF Again
  <2> QED
    BY <1>4, <2>3 DEF SlotForetold
<1> QED
  BY <1>0, <1>1, <1>2, <1>4, <1>5, CountedForetold

(* A killed body's message comes back as one more delivery, or the poison  *)
(* that has used up its deliveries is dead-lettered.                       *)
LEMMA ParseKilledForetold ==
    ASSUME Foreseen, TypeOK, TypeOK', FanInv, Foretold, NEW w \in Slots,
           ParseKilled(w)
    PROVE  Foretold'
<1>0. PICK m, d : m = slot[w].msg /\ d = m.doc
  OBVIOUS
<1>1. EnterParse(w) /\ Outcome(m) = "kill" /\ LoseTask(w)
  BY <1>0 DEF ParseKilled
<1>2. /\ m \in Message /\ m.task = "parse" /\ Awaits(m)
      /\ d \in Docs /\ attempts[d] \in Nat /\ Working(w)
      /\ slot[w].mode # "drain"
      /\ AcksLate => attempts'[d] = attempts[d] + 1
      /\ \A e \in Docs \ {d} : attempts'[e] = attempts[e]
      /\ UNCHANGED <<join, bodies>>
  BY <1>0, <1>1, EnteredParse
<1>3. /\ AcksLate
      /\ \/ Kind(d) = "POISON"
         \/ Kind(d) = "CRASH_ONCE" /\ attempts[d] = 0
  BY <1>0, <1>1, <1>2, KilledBody
<1>4. Requeue(m) /\ Release(w)
  <2>1. slot[w].mode # "detached"
    BY DEF FanInv, NoneDetached
  <2> QED
    BY <1>0, <1>1, <1>2, <1>3, <2>1 DEF LoseTask
<1>5. /\ slot'[w].pc = "idle"
      /\ \A v \in Slots \ {w} : slot'[v] = slot[v]
  BY <1>4, ReleaseEffect
<1>6. SlotForetold(w)'
  BY <1>5 DEF SlotForetold
<1>7. attempts'[d] = attempts[d] + 1
  BY <1>2, <1>3
<1>8. ASSUME NEW k \in Message, k.doc = d,
             \/ ready' = Put(ready, k) /\ UNCHANGED dlq /\ Awaits(k)'
             \/ dlq' = Put(dlq, k) /\ UNCHANGED ready /\ Dead(k)'
      PROVE  Foretold'
  <2>0. ready \in [Message -> Nat] /\ dlq \in [Message -> Nat]
    BY Typing
  <2>1. ASSUME NEW n \in Message
        PROVE  /\ ready'[n] > 0 => ready[n] > 0 \/ Awaits(n)'
               /\ dlq'[n] > 0 => dlq[n] > 0 \/ Dead(n)'
    BY <1>8, <2>0 DEF Put
  <2> QED
    BY <1>0, <1>2, <1>5, <1>6, <2>1, CountedForetold
<1>9. /\ m.input = "SUCCESS" /\ m.deliveries \in 0..DeliveryLimit
      /\ DeliveryLimit \in Nat
      /\ Kind(d) = "POISON" => attempts[d] = m.deliveries /\ DeadLetters
      /\ Kind(d) = "CRASH_ONCE" /\ DeadLetters => attempts[d] = m.deliveries
  BY <1>0, <1>2, KindFacts, ConstantTypes DEF Awaits, Message
<1>10. CASE ~DeadLetters /\ ready' = Put(ready, m) /\ UNCHANGED dlq
  <2>1. Kind(d) = "CRASH_ONCE" /\ attempts'[d] = 1
    BY <1>3, <1>7, <1>9, <1>10
  <2>2. Awaits(m)'
    BY <1>0, <1>2, <1>9, <1>10, <2>1 DEF Awaits, Faltering
  <2> QED
    BY <1>0, <1>2, <1>8, <1>10, <2>2
<1>11. CASE /\ DeadLetters /\ m.deliveries < DeliveryLimit
            /\ ready' = Put(ready, [m EXCEPT !.deliveries = @ + 1])
            /\ UNCHANGED dlq
  <2>1. PICK k : k = [m EXCEPT !.deliveries = @ + 1]
    OBVIOUS
  <2>2. k \in Message
    BY <1>2, <1>11, <2>1, NextMessageType
  <2>3. /\ k.doc = d /\ k.task = "parse" /\ k.input = "SUCCESS"
        /\ k.deliveries = m.deliveries + 1
    BY <1>0, <1>2, <1>9, <2>1 DEF Message
  <2>4. attempts'[d] = k.deliveries
    BY <1>3, <1>7, <1>9, <1>11, <2>3
  <2>5. Kind(d) = "CRASH_ONCE" => attempts'[d] <= 1
    BY <1>3, <1>7
  <2>6. Awaits(k)'
    BY <1>3, <2>3, <2>4, <2>5 DEF Awaits, Faltering
  <2> QED
    BY <1>8, <1>11, <2>1, <2>2, <2>3, <2>6
<1>12. CASE /\ DeadLetters /\ m.deliveries + 1 >= DeliveryLimit
            /\ dlq' = Put(dlq, [m EXCEPT !.deliveries = 0])
            /\ UNCHANGED ready
  <2>1. PICK k : k = [m EXCEPT !.deliveries = 0]
    OBVIOUS
  <2>2. k \in Message
    BY <1>2, <2>1, NextMessageType
  <2>3. k.doc = d /\ k.task = "parse"
    BY <1>0, <1>2, <2>1 DEF Message
  <2>4. Kind(d) # "CRASH_ONCE"
    BY <1>2, <1>3, <1>9, <1>12 DEF Foreseen
  <2>5. attempts'[d] \in {DeliveryLimit, DeliveryLimit + 1}
    BY <1>3, <1>7, <1>9, <1>12, <2>4
  <2>6. Dead(k)'
    BY <1>3, <2>3, <2>4, <2>5 DEF Dead
  <2> QED
    BY <1>8, <1>12, <2>1, <2>2, <2>3, <2>6
<1> QED
  BY <1>4, <1>10, <1>11, <1>12 DEF Requeue

(* A message is published and the one that led to it is acknowledged.      *)
LEMMA PublishForetold ==
    ASSUME TypeOK, Foretold, NEW w \in Slots, NEW k \in Message, Awaits(k),
           NEW pc \in {"ack", "published"},
           ready' = Put(ready, k), Step(w, pc, NoPart),
           UNCHANGED <<dlq, join, bodies, attempts>>
    PROVE  Foretold'
<1>0. ready \in [Message -> Nat]
  BY Typing
<1>1. /\ slot'[w].pc = pc
      /\ \A v \in Slots \ {w} : slot'[v] = slot[v]
  BY StepEffect
<1>2. \A n \in Message : ready'[n] > 0 => ready[n] > 0 \/ Awaits(n)
  BY <1>0 DEF Put
<1>3. SlotForetold(w)'
  BY <1>1 DEF SlotForetold
<1>4. \A i \in DOMAIN bodies' : \A p \in bodies'[i] : Settled(p)
  BY DEF Foretold
<1> QED
  BY <1>1, <1>2, <1>3, <1>4, StillForetold

LEMMA PublishRetryForetold ==
    ASSUME TypeOK, Foretold, NEW w \in Slots, PublishRetry(w)
    PROVE  Foretold'
<1>0. PICK m, d : m = slot[w].msg /\ d = m.doc
  OBVIOUS
<1>1. /\ Holds(w, "retry")
      /\ ready' = Put(ready, [m EXCEPT !.retries = @ + 1, !.deliveries = 0])
      /\ Step(w, "published", NoPart)
      /\ UNCHANGED <<dlq, join, bodies, attempts>>
  BY <1>0 DEF PublishRetry
<1>2. /\ m \in Message /\ m.retries < MaxRetries /\ Again(m)
  BY <1>0, <1>1, Typing DEF TypeOK, SlotsOK, Holds, Foretold, SlotForetold
<1>3. PICK k : k = [m EXCEPT !.retries = @ + 1, !.deliveries = 0]
  OBVIOUS
<1>4. k \in Message
  BY <1>2, <1>3, NextMessageType
<1>5. /\ k.doc = d /\ k.task = "parse" /\ k.input = "SUCCESS"
      /\ k.retries = m.retries + 1
  BY <1>0, <1>2, <1>3 DEF Message, Again
<1>6. Awaits(k)
  BY <1>0, <1>2, <1>5 DEF Awaits, Again, Faltering
<1> QED
  BY <1>1, <1>3, <1>4, <1>6, PublishForetold

LEMMA PublishParseForetold ==
    ASSUME TypeOK, Foretold, NEW w \in Slots, PublishParse(w)
    PROVE  Foretold'
<1>0. PICK d : d = slot[w].msg.doc
  OBVIOUS
<1>1. /\ Holds(w, "chain") /\ slot[w].out.status = "SUCCESS"
      /\ attempts[d] = 0 /\ d \in Docs
  BY <1>0, Typing DEF PublishParse, Holds, Foretold, SlotForetold
<1>2. PICK k : k = ParseMessage(d, "SUCCESS")
  OBVIOUS
<1>3. /\ k \in Message /\ k.doc = d /\ k.task = "parse"
      /\ k.input = "SUCCESS" /\ k.retries = 0 /\ k.deliveries = 0
  BY <1>1, <1>2, FreshMessageType DEF ParseMessage
<1>4. Awaits(k)
  BY <1>1, <1>3, KindFacts DEF Awaits
<1> QED
  BY <1>0, <1>1, <1>2, <1>3, <1>4, PublishForetold DEF PublishParse

LEMMA ForetoldStep ==
    ASSUME Foreseen, Undisturbed', TypeOK, TypeOK', FanInv, Foretold,
           [Next]_vars
    PROVE  Foretold'
<1>0. /\ losses' # losses + 1 /\ timeouts' # timeouts + 1
      /\ ready \in [Message -> Nat] /\ dlq \in [Message -> Nat]
      /\ slot \in [Slots -> Slot]
  BY DEF Undisturbed, TypeOK, SlotsOK
<1>a. \A i \in DOMAIN bodies : \A p \in bodies[i] : Settled(p)
  BY DEF Foretold
(* A step that changes one slot only.                                      *)
<1>b. ASSUME NEW w \in Slots, NEW pc, NEW out, Step(w, pc, out),
             UNCHANGED <<ready, dlq, join, bodies, attempts>>,
             pc \notin SafePoints \/ (pc = "part" /\ Settled(out))
      PROVE  Foretold'
  <2>1. /\ slot'[w].pc = pc /\ slot'[w].out = out
        /\ \A v \in Slots \ {w} : slot'[v] = slot[v]
    BY <1>b, StepEffect
  <2>2. SlotForetold(w)'
    BY <1>b, <2>1 DEF SlotForetold, SafePoints, Settled
  <2> QED
    BY <1>a, <1>b, <2>1, <2>2, StillForetold
<1>c. ASSUME NEW w \in Slots, Release(w),
             UNCHANGED <<ready, dlq, join, bodies, attempts>>
      PROVE  Foretold'
  <2>1. /\ slot'[w].pc = "idle"
        /\ \A v \in Slots \ {w} : slot'[v] = slot[v]
    BY <1>c, ReleaseEffect
  <2>2. SlotForetold(w)'
    BY <2>1 DEF SlotForetold
  <2> QED
    BY <1>a, <1>c, <2>1, <2>2, StillForetold
<1>1. ASSUME NEW w \in Slots, NEW m \in Message,
             Deliver(w, m) \/ DrainGet(w, m)
      PROVE  Foretold'
  <2>1. /\ slot'[w].msg = m
        /\ \A v \in Slots \ {w} : slot'[v] = slot[v]
        /\ UNCHANGED <<join, bodies, attempts>>
        /\ \/ Awaits(m) /\ slot'[w].pc = "body" /\ slot'[w].mode # "drain"
           \/ Dead(m) /\ slot'[w].pc = "finalize"
    BY <1>0, <1>1 DEF Deliver, DrainGet, Foretold
  <2>2. \A n \in Message : /\ ready'[n] > 0 => ready[n] > 0
                           /\ dlq'[n] > 0 => dlq[n] > 0
    BY <1>0, <1>1 DEF Deliver, DrainGet, Take
  <2>3. SlotForetold(w)'
    BY <2>1 DEF SlotForetold, Awaits, Dead
  <2> QED
    BY <1>a, <2>1, <2>2, <2>3, StillForetold
<1>2. ASSUME NEW w \in Slots, RunFetch(w) PROVE Foretold'
  <2>1. PICK m, out : m = slot[w].msg /\ out = PartFor(m, "return", 1)
    OBVIOUS
  <2>2. /\ m.task = "fetch" /\ Awaits(m) /\ out.status = "SUCCESS"
        /\ Step(w, "chain", out)
        /\ UNCHANGED <<ready, dlq, join, bodies, attempts>>
    BY <1>2, <2>1 DEF RunFetch, Holds, Foretold, SlotForetold, PartFor, Status
  <2>3. /\ slot'[w].pc = "chain" /\ slot'[w].out = out /\ slot'[w].msg = m
        /\ \A v \in Slots \ {w} : slot'[v] = slot[v]
    BY <2>1, <2>2, StepEffect
  <2>4. attempts[m.doc] = 0
    BY <2>2 DEF Awaits
  <2>5. SlotForetold(w)'
    BY <2>2, <2>3, <2>4 DEF SlotForetold
  <2> QED
    BY <1>a, <2>2, <2>3, <2>5, StillForetold
<1>3. ASSUME NEW w \in Slots, PartReturn(w) PROVE Foretold'
  <2>1. PICK pc \in {"fire", "ack"} : Step(w, pc, NoPart)
    BY <1>3 DEF PartReturn
  <2>2. /\ slot'[w].pc = pc
        /\ \A v \in Slots \ {w} : slot'[v] = slot[v]
    BY <2>1, StepEffect
  <2>3. SlotForetold(w)'
    BY <2>2 DEF SlotForetold
  <2>4. /\ Settled(slot[w].out) /\ join' = join \cup {slot[w].out}
        /\ UNCHANGED <<ready, dlq, bodies, attempts>>
    BY <1>3 DEF PartReturn, Holds, Foretold, SlotForetold
  <2> QED
    BY <1>a, <2>2, <2>3, <2>4, StillForetold
<1>4. ASSUME NEW w \in Slots, FireBody(w) PROVE Foretold'
  <2>1. UNCHANGED <<ready, dlq, join, attempts>>
    BY <1>4 DEF FireBody
  <2>2. CASE Step(w, "ack", NoPart) /\ UNCHANGED bodies
    BY <1>b, <2>1, <2>2 DEF SafePoints
  <2>3. CASE bodies' = Append(bodies, join) /\ Step(w, "cleanup", NoPart)
    <3>1. /\ slot'[w].pc = "cleanup"
          /\ \A v \in Slots \ {w} : slot'[v] = slot[v]
      BY <2>3, StepEffect
    <3>2. SlotForetold(w)'
      BY <3>1 DEF SlotForetold
    <3>3. ASSUME NEW i \in DOMAIN bodies', NEW p \in bodies'[i]
          PROVE  Settled(p)
      <4>1. bodies'[i] = join \/ (i \in DOMAIN bodies /\ bodies'[i] = bodies[i])
        BY <2>3, Typing, AppendProperties
      <4> QED
        BY <1>a, <3>3, <4>1 DEF Foretold
    <3> QED
      BY <2>1, <3>1, <3>2, <3>3, StillForetold
  <2> QED
    BY <1>4, <2>2, <2>3 DEF FireBody
<1>5. ASSUME NEW w \in Slots, DeleteKeys(w) PROVE Foretold'
  <2>1. /\ slot'[w].pc = "ack"
        /\ \A v \in Slots \ {w} : slot'[v] = slot[v]
    BY <1>5, StepEffect DEF DeleteKeys
  <2>2. SlotForetold(w)'
    BY <2>1 DEF SlotForetold
  <2>3. join' = {} /\ UNCHANGED <<ready, dlq, bodies, attempts>>
    BY <1>5 DEF DeleteKeys
  <2> QED
    BY <1>a, <2>1, <2>2, <2>3, StillForetold
<1>6. ASSUME NEW w \in Slots, Ack(w) \/ Cancelled(w) PROVE Foretold'
  BY <1>c, <1>6 DEF Ack, Cancelled
<1>7. ASSUME NEW w \in Slots, FinalizeDlq(w) PROVE Foretold'
  <2>1. PICK m, out : m = slot[w].msg /\ out = PartFor(m, "dlq", 0)
    OBVIOUS
  <2>2. /\ Dead(m) /\ m.task = "parse" /\ m.doc \in Docs
        /\ Holds(w, "finalize")
    BY <1>7, <2>1, Typing
       DEF FinalizeDlq, Holds, Foretold, SlotForetold, Dead
  <2>3. /\ Step(w, "part", out)
        /\ UNCHANGED <<ready, dlq, join, bodies, attempts>>
    BY <1>7, <2>1, <2>2 DEF FinalizeDlq
  <2>4. out.doc = m.doc /\ out.status = "FAILURE"
    BY <2>1 DEF PartFor, Status
  <2>5. Settled(out)
    <3>1. ExpectedAttempts(m.doc) = DeliveryLimit /\ m.doc \in ExpectedFailed
      BY <2>2 DEF Dead, ExpectedAttempts, ExpectedFailed, Kind
    <3> QED
      BY <2>2, <2>4, <3>1 DEF Settled, Dead
  <2> QED
    BY <1>b, <2>3, <2>5
<1>8. ASSUME NEW w \in Slots,
             SoftLimit(w) \/ LimitEscapes(w) \/ Lose(w) \/ Disconnect(w)
      PROVE  Foretold'
  BY <1>0, <1>8 DEF SoftLimit, LimitEscapes, Lose, Disconnect
<1>11. ASSUME NEW w \in Slots, RaiseRetry(w) PROVE Foretold'
  BY <1>b, <1>11 DEF RaiseRetry, SafePoints
<1>9. CASE Rest \/ UNCHANGED vars
  BY <1>9 DEF Rest, vars, Foretold, SlotForetold, Awaits, Dead, Again, Settled
<1>10. ASSUME NEW w \in Slots, Progress(w) PROVE Foretold'
  BY <1>2, <1>3, <1>4, <1>5, <1>6, <1>7, <1>10, <1>11, ParseEndsForetold,
     ParseRetriesForetold, ParseKilledForetold, PublishRetryForetold,
     PublishParseForetold DEF Progress
<1> QED
  BY <1>1, <1>6, <1>8, <1>9, <1>10 DEF Next, Dispatch

LEMMA ForetoldInit == Init => Foretold
<1> SUFFICES ASSUME Init PROVE Foretold
  OBVIOUS
<1>1. ASSUME NEW m \in Message, ready[m] > 0 PROVE Awaits(m)
  <2>1. PICK d \in Docs : m = FetchMessage(d)
    BY <1>1 DEF Init
  <2>2. m.task = "fetch" /\ m.doc = d
    BY <2>1 DEF FetchMessage
  <2>3. attempts[d] = 0
    BY DEF Init
  <2> QED
    BY <2>2, <2>3 DEF Awaits
<1>2. /\ \A m \in Message : ~(dlq[m] > 0)
      /\ \A w \in Slots : slot[w].pc = "idle"
      /\ join = {} /\ bodies = <<>>
  BY DEF Init, Idle
<1>3. \A w \in Slots : SlotForetold(w)
  BY <1>2 DEF SlotForetold
<1> QED
  BY <1>1, <1>2, <1>3 DEF Foretold

(* Undisturbed before, since losses and timeouts are only counted up.      *)
LEMMA UndisturbedBefore ==
    ASSUME TypeOK, [Next]_vars, Undisturbed'
    PROVE  Undisturbed
<1>1. /\ losses \in Nat /\ (losses' = losses \/ losses' = losses + 1)
      /\ timeouts \in Nat /\ (timeouts' = timeouts \/ timeouts' = timeouts + 1)
  BY DEF TypeOK, Next, vars, Rest, Progress, RunFetch, ParseEnds, ParseRetries,
     ParseKilled, EnterParse, PublishRetry, PublishParse, PartReturn, FireBody,
     DeleteKeys, Ack, FinalizeDlq, Dispatch, Deliver, DrainGet, SoftLimit,
     RaiseRetry, LimitEscapes, Lose, Disconnect, Cancelled
<1> QED
  BY <1>1 DEF Undisturbed

(* The inductive invariant of the predictions.                             *)
HeaderInv == TypeOK /\ (Unrepeated => FanInv) /\ (Undisturbed => Foretold)

LEMMA HeaderInvInit == Init => HeaderInv
  BY InitType, FanInvInit, ForetoldInit DEF HeaderInv

LEMMA HeaderInvStep ==
    ASSUME Foreseen, HeaderInv, [Next]_vars
    PROVE  HeaderInv'
<1>1. TypeOK /\ TypeOK'
  BY StepPreservesType DEF HeaderInv
<1>2. ASSUME Unrepeated' PROVE FanInv'
  BY <1>1, <1>2, UnrepeatedBefore, FanInvStep DEF HeaderInv
<1>3. ASSUME Undisturbed' PROVE Foretold'
  <2>1. Undisturbed
    BY <1>1, <1>3, UndisturbedBefore
  <2>2. FanInv /\ Foretold
    BY <2>1 DEF HeaderInv, Unrepeated, Undisturbed, TypeOK
  <2> QED
    BY <1>1, <1>3, <2>2, ForetoldStep
<1> QED
  BY <1>1, <1>2, <1>3 DEF HeaderInv

(* The one part a body has of a document is as predicted.                  *)
LEMMA WhatBodiesSay ==
    ASSUME HeaderInv, Undisturbed, NEW i \in DOMAIN bodies
    PROVE  /\ bodies[i] \subseteq Part /\ AllComplete
           /\ \A p \in bodies[i] : Settled(p) /\ p.doc \in Docs
<1>1. TypeOK /\ FanInv /\ Foretold
  BY DEF HeaderInv, Unrepeated, Undisturbed, TypeOK
<1>2. bodies[i] \subseteq Part
  BY <1>1, Typing, ElementOfSeq
<1> QED
  BY <1>1, <1>2 DEF FanInv, OneBody, Foretold, Part

LEMMA Predictions ==
    ASSUME HeaderInv
    PROVE  AttemptsAsPredicted /\ OutcomesAsPredicted
<1>1. ASSUME AcksLate, bodies # <<>>, Undisturbed, NEW d \in Docs
      PROVE  \/ attempts[d] = ExpectedAttempts(d)
             \/ /\ Schedule[d].kind = "POISON"
                /\ attempts[d] = ExpectedAttempts(d) + 1
  <2>1. 1 \in DOMAIN bodies
    BY <1>1, Typing DEF HeaderInv
  <2>2. PICK p \in bodies[1] : p.doc = d
    BY <1>1, <2>1, WhatBodiesSay DEF AllComplete, Complete
  <2>3. Settled(p)
    BY <1>1, <2>1, WhatBodiesSay
  <2> QED
    BY <1>1, <2>2, <2>3 DEF Settled, Kind
<1>2. ASSUME Undisturbed, NEW i \in DOMAIN bodies
      PROVE  {p.doc : p \in {q \in bodies[i] : q.status = "FAILURE"}}
               = ExpectedFailed
  <2>1. ASSUME NEW p \in bodies[i], p.status = "FAILURE"
        PROVE  p.doc \in ExpectedFailed
    BY <1>2, <2>1, WhatBodiesSay DEF Settled
  <2>2. ASSUME NEW d \in ExpectedFailed
        PROVE  \E p \in bodies[i] : p.status = "FAILURE" /\ p.doc = d
    <3>1. d \in Docs
      BY DEF ExpectedFailed
    <3>2. PICK p \in bodies[i] : p.doc = d
      BY <1>2, <3>1, WhatBodiesSay DEF AllComplete, Complete
    <3>3. Settled(p)
      BY <1>2, WhatBodiesSay
    <3> QED
      BY <2>2, <3>2, <3>3 DEF Settled
  <2> QED
    BY <2>1, <2>2
<1> QED
  BY <1>1, <1>2 DEF AttemptsAsPredicted, OutcomesAsPredicted

(* With nothing going wrong but the schedule, each document is attempted   *)
(* as often as the runner asserts when notify is published, and exactly    *)
(* the documents it expects to fail are reported as failures, for every    *)
(* schedule the predictions are made for, limit and retry budget.          *)
THEOREM PredictionsHold ==
    ASSUME Foreseen
    PROVE  Spec => [](AttemptsAsPredicted /\ OutcomesAsPredicted)
<1>1. HeaderInv /\ [Next]_vars => HeaderInv'
  BY HeaderInvStep
<1>2. HeaderInv => AttemptsAsPredicted /\ OutcomesAsPredicted
  BY Predictions
<1> QED
  BY <1>1, <1>2, HeaderInvInit, PTL DEF Spec

-----------------------------------------------------------------------------
(* The whole pipeline.  Its steps are those of the header, a notify lost   *)
(* with its worker, and steps the header does not see.                     *)
LEMMA ReportStepIs ==
    ASSUME [ReportNext]_allVars
    PROVE  \/ [Next]_vars
           \/ \E i \in DOMAIN notices : LoseNotify(i)
<1>1. ASSUME NEW w \in Slots, Works(w) \/ Disturbed(w) PROVE Next
  BY <1>1 DEF Works, Disturbed, Next
<1>2. ASSUME NEW i \in DOMAIN notices, NotifyStep(i) PROVE UNCHANGED vars
  BY <1>2 DEF NotifyStep, StartNotify, StoreNotify, AckNotify
<1>3. RunnerStep \/ AllRest \/ UNCHANGED allVars => UNCHANGED vars
  BY DEF RunnerStep, SeeAnswer, GiveUp, Judge, AllRest, allVars
<1> QED
  BY <1>1, <1>2, <1>3 DEF ReportNext

(* In the header a notify lost is a loss like another.                     *)
LEMMA LoseNotifyIs ==
    ASSUME TypeOK, NEW i, LoseNotify(i)
    PROVE  /\ losses' = losses + 1 /\ losses' # 0 /\ ~AcksLate
           /\ hits' = hits /\ TypeOK' /\ (FanInv => FanInv')
<1>1. /\ losses \in Nat /\ losses' = losses + 1 /\ ~AcksLate
      /\ UNCHANGED <<ready, dlq, slot, join, sized, bodies, chordFailed,
                     attempts, dropped, timeouts, hits>>
  BY DEF LoseNotify, TypeOK
<1>2. losses' # 0 /\ losses' \in Nat
  BY <1>1
<1>3. TypeOK'
  BY <1>1, <1>2 DEF TypeOK, SlotsOK, Holds
<1>4. FanInv => FanInv'
  BY <1>1 DEF FanInv, OneMessage, OneWorker, OnePart, OnItsWay,
     OneFires, OneBody, AllComplete, NoneDetached, InQueue, Working, Firing,
     Joined, Holds
<1> QED
  BY <1>1, <1>2, <1>3, <1>4

LEMMA ReportHeaderStep ==
    ASSUME Foreseen, HeaderInv, StateInv, [ReportNext]_allVars
    PROVE  HeaderInv' /\ StateInv'
<1>0. TypeOK
  BY DEF HeaderInv
<1>1. CASE [Next]_vars
  BY <1>0, <1>1, HeaderInvStep, StateInvStep
<1>2. ASSUME NEW i \in DOMAIN notices, LoseNotify(i)
      PROVE  HeaderInv' /\ StateInv'
  <2>1. /\ losses' # 0 /\ ~AcksLate /\ hits' = hits
        /\ TypeOK' /\ (FanInv => FanInv')
    BY <1>0, <1>2, LoseNotifyIs
  <2> QED
    BY <2>1 DEF HeaderInv, StateInv, Unrepeated, Undisturbed, Covered, AcksLate,
       SafeLosses
<1> QED
  BY <1>1, <1>2, ReportStepIs

-----------------------------------------------------------------------------
(* What notify counts.                                                     *)
Expected(a) ==
    /\ a.failed = Cardinality(ExpectedFailed)
    /\ a.ok = Cardinality(Docs) - Cardinality(ExpectedFailed)

(* As many of the parts as documents, where there is one of each.          *)
LEMMA OneOfEach ==
    ASSUME NEW B \in SUBSET Part, NEW D \in SUBSET Docs,
           \A p, q \in B : p.doc = q.doc => p = q,
           \A p \in B : p.doc \in D, \A d \in D : \E p \in B : p.doc = d
    PROVE  Cardinality(B) = Cardinality(D)
<1> DEFINE f == [p \in B |-> p.doc]
<1>1. f \in Injection(B, D)
  BY DEF Injection, IsInjective
<1>2. f \in Surjection(B, D)
  BY DEF Surjection
<1>3. IsFiniteSet(D)
  BY FS_Subset, ChordHeaderAssumption DEF ChordHeaderAssumption
<1> QED
  BY <1>1, <1>2, <1>3, FS_Injection

LEMMA NotifyCounts ==
    ASSUME NEW i \in DOMAIN bodies, bodies[i] \subseteq Part, AllComplete,
           \A p \in bodies[i] :
             /\ p.doc \in Docs /\ p.status \in {"SUCCESS", "FAILURE"}
             /\ p.status = "FAILURE" <=> p.doc \in ExpectedFailed
    PROVE  /\ Cardinality(With(i, "FAILURE")) = Cardinality(ExpectedFailed)
           /\ Cardinality(With(i, "SUCCESS"))
                = Cardinality(Docs) - Cardinality(ExpectedFailed)
<1>1. /\ \A p, q \in bodies[i] : p.doc = q.doc => p = q
      /\ \A d \in Docs : \E p \in bodies[i] : p.doc = d
  BY DEF AllComplete, Complete
<1>2. ExpectedFailed \subseteq Docs
  BY DEF ExpectedFailed
<1>3. Cardinality(With(i, "FAILURE")) = Cardinality(ExpectedFailed)
  <2>1. With(i, "FAILURE") \in SUBSET Part
    BY DEF With
  <2>2. \A d \in ExpectedFailed : \E p \in With(i, "FAILURE") : p.doc = d
    BY <1>1, <1>2 DEF With
  <2>3. \A p \in With(i, "FAILURE") : p.doc \in ExpectedFailed
    BY DEF With
  <2>4. \A p, q \in With(i, "FAILURE") : p.doc = q.doc => p = q
    BY <1>1 DEF With
  <2> QED
    BY <1>2, <2>1, <2>2, <2>3, <2>4, OneOfEach
<1>4. Cardinality(With(i, "SUCCESS")) = Cardinality(Docs \ ExpectedFailed)
  <2>1. With(i, "SUCCESS") \in SUBSET Part
    BY DEF With
  <2>2. \A d \in Docs \ ExpectedFailed : \E p \in With(i, "SUCCESS") : p.doc = d
    BY <1>1 DEF With
  <2>3. \A p \in With(i, "SUCCESS") : p.doc \in Docs \ ExpectedFailed
    BY DEF With
  <2>4. \A p, q \in With(i, "SUCCESS") : p.doc = q.doc => p = q
    BY <1>1 DEF With
  <2> QED
    BY <2>1, <2>2, <2>3, <2>4, OneOfEach
<1>5. Cardinality(Docs \ ExpectedFailed)
        = Cardinality(Docs) - Cardinality(ExpectedFailed)
  <2>1. IsFiniteSet(Docs) /\ Docs \cap ExpectedFailed = ExpectedFailed
    BY <1>2, ChordHeaderAssumption DEF ChordHeaderAssumption
  <2> QED
    BY <2>1, FS_Difference
<1> QED
  BY <1>3, <1>4, <1>5

-----------------------------------------------------------------------------
(* notify and the runner.                                                  *)
NoticeType == [pc : {"queued", "run", "stored", "done"}]

NoticesOK ==
    /\ notices \in Seq(NoticeType)
    /\ Len(notices) = Len(bodies)

(* The result is a count of what the header was to bring.                  *)
Answered ==
    /\ \/ answer = NoAnswer
       \/ answer.state = "SUCCESS" /\ Expected(answer) /\ bodies # <<>>
    /\ runner = "judge" => answer # NoAnswer
    /\ runner # "failed"

ReportInv ==
    /\ HeaderInv /\ StateInv /\ NoticesOK
    /\ Enveloped /\ Undisturbed => Answered

LEMMA BodiesGrow ==
    ASSUME [Next]_vars
    PROVE  bodies' = bodies \/ bodies' = Append(bodies, join)
  BY DEF Next, vars, Rest, Progress, RunFetch, ParseEnds, ParseRetries,
     ParseKilled, EnterParse, PublishRetry, PublishParse, PartReturn, FireBody,
     DeleteKeys, Ack, FinalizeDlq, Dispatch, Deliver, DrainGet, SoftLimit,
     RaiseRetry, LimitEscapes, Lose, Disconnect, Cancelled

LEMMA NoticesStep ==
    ASSUME TypeOK, NoticesOK, [ReportNext]_allVars
    PROVE  NoticesOK'
<1>0. /\ bodies \in Seq(SUBSET Part) /\ join \in SUBSET Part
  BY Typing
<1>1. ASSUME NEW w \in Slots, Works(w) \/ Disturbed(w)
      PROVE  NoticesOK'
  <2>1. Announce /\ Next
    BY <1>1 DEF Works, Disturbed, Next
  <2>2. bodies' = bodies \/ bodies' = Append(bodies, join)
    BY <2>1, BodiesGrow
  <2>3. CASE bodies' = bodies
    BY <2>1, <2>3 DEF Announce, NoticesOK
  <2>4. CASE bodies' = Append(bodies, join)
    <3>1. bodies' # bodies
      BY <1>0, <2>4, AppendProperties
    <3>2. notices' = Append(notices, [pc |-> "queued"])
      BY <2>1, <3>1 DEF Announce
    <3>3. Len(bodies') = Len(bodies) + 1
      BY <1>0, <2>4, AppendProperties
    <3> QED
      BY <3>2, <3>3, AppendProperties DEF NoticesOK, NoticeType
  <2> QED
    BY <2>2, <2>3, <2>4
<1>2. ASSUME NEW i \in DOMAIN notices, NEW from, NEW to \in {"run", "stored", "done"},
             Notice(i, from, to), UNCHANGED bodies
      PROVE  NoticesOK'
  <2>1. notices' = [notices EXCEPT ![i] = [notices[i] EXCEPT !.pc = to]]
    BY <1>2 DEF Notice, NoticesOK
  <2>2. notices \in Seq(NoticeType) /\ i \in 1..Len(notices)
    BY <1>2 DEF NoticesOK
  <2>3. notices[i] \in NoticeType
    BY <2>2, ElementOfSeq
  <2>4. [notices[i] EXCEPT !.pc = to] \in NoticeType
    BY <2>3 DEF NoticeType
  <2> QED
    BY <1>2, <2>1, <2>2, <2>4, ExceptSeq DEF NoticesOK
<1>3. ASSUME NEW i \in DOMAIN notices, NotifyStep(i) \/ LoseNotify(i)
      PROVE  NoticesOK'
  BY <1>2, <1>3
     DEF NotifyStep, StartNotify, StoreNotify, AckNotify, LoseNotify, vars
<1>4. CASE RunnerStep \/ AllRest \/ UNCHANGED allVars
  BY <1>4 DEF RunnerStep, SeeAnswer, GiveUp, Judge, AllRest, allVars,
     reportVars, vars, NoticesOK
<1> QED
  BY <1>1, <1>3, <1>4 DEF ReportNext

(* Every assertion of run_pipeline is about what was predicted.            *)
LEMMA EveryAssertion ==
    ASSUME HeaderInv, Undisturbed, Enveloped,
           answer.state = "SUCCESS", Expected(answer), bodies # <<>>
    PROVE  Passes
<1>1. BodyFired /\ CountsAsExpected
  BY DEF BodyFired, CountsAsExpected, Expected
<1>2. ASSUME NEW d \in Docs PROVE EntriesAsExpected(d)
  <2>1. AcksLate =>
          \/ attempts[d] = ExpectedAttempts(d)
          \/ Kind(d) = "POISON" /\ attempts[d] = ExpectedAttempts(d) + 1
    BY Predictions DEF AttemptsAsPredicted, Kind
  <2>2. /\ Kind(d) = "POISON" => ExpectedAttempts(d) = DeliveryLimit
        /\ Kind(d) = "CRASH_ONCE" => ExpectedAttempts(d) = 2
        /\ Kind(d) = "NONE" => ExpectedAttempts(d) = 1
    BY DEF ExpectedAttempts, Kind
  <2>3. (Retryable => AcksLate) /\ (Kind(d) = "POISON" => AcksLate)
    BY TaskExitAssumption, KindFacts
       DEF TaskExitAssumption, Retryable, AcksLate
  <2> QED
    BY <2>1, <2>2, <2>3 DEF EntriesAsExpected, Kind
<1> QED
  BY <1>1, <1>2 DEF Passes

LEMMA AnsweredStep ==
    ASSUME ReportInv, HeaderInv', StateInv', Enveloped, Undisturbed',
           [ReportNext]_allVars
    PROVE  Answered'
<1>0. /\ TypeOK /\ bodies \in Seq(SUBSET Part) /\ join \in SUBSET Part
      /\ losses \in Nat
  BY Typing DEF ReportInv, HeaderInv, TypeOK
<1>1. [Next]_vars
  BY <1>0, ReportStepIs, LoseNotifyIs DEF Undisturbed
<1>2. Undisturbed /\ Answered /\ HeaderInv /\ NoticesOK
  BY <1>0, <1>1, UndisturbedBefore DEF ReportInv
<1>3. bodies # <<>> => bodies' # <<>>
  BY <1>0, <1>1, BodiesGrow, AppendProperties
<1>4. ASSUME UNCHANGED <<answer, runner>> PROVE Answered'
  BY <1>2, <1>3, <1>4 DEF Answered, Expected
<1>5. ASSUME NEW w \in Slots, Works(w) \/ Disturbed(w) PROVE Answered'
  <2>0. hits' = {} /\ losses' = 0
    BY DEF HeaderInv, TypeOK, Undisturbed
  <2>1. Announce /\ ~chordFailed'
    BY <1>5, <2>0 DEF Works, Disturbed, StateInv, Covered
  <2> QED
    BY <1>4, <2>1 DEF Announce
<1>6. ASSUME NEW i \in DOMAIN notices, StoreNotify(i) PROVE Answered'
  <2>1. PICK a : /\ a.state = "SUCCESS" /\ Record(a)
                 /\ a.ok = Cardinality(With(i, "SUCCESS"))
                 /\ a.failed = Cardinality(With(i, "FAILURE"))
    BY <1>6 DEF StoreNotify
  <2>2. i \in DOMAIN bodies /\ bodies # <<>>
    BY <1>0, <1>2 DEF NoticesOK
  <2>3. Expected(a)
    <3>1. /\ bodies[i] \subseteq Part /\ AllComplete
          /\ \A p \in bodies[i] : Settled(p) /\ p.doc \in Docs
      BY <1>2, <2>2, WhatBodiesSay
    <3>2. \A p \in bodies[i] : p.status \in {"SUCCESS", "FAILURE"}
      BY <3>1 DEF Part
    <3> QED
      BY <2>1, <2>2, <3>1, <3>2, NotifyCounts DEF Expected, Settled
  <2>4. runner' = runner /\ bodies' = bodies
    BY <1>6 DEF StoreNotify, vars
  <2>5. answer' = answer \/ answer' = a
    BY <2>1 DEF Record
  <2>6. a # NoAnswer
    BY <2>1 DEF NoAnswer
  <2>7. CASE answer' = answer
    BY <1>4, <2>4, <2>7
  <2>8. CASE answer' = a
    BY <1>2, <2>1, <2>2, <2>3, <2>4, <2>6, <2>8 DEF Answered, Expected
  <2> QED
    BY <2>5, <2>7, <2>8
<1>7. ASSUME NEW i \in DOMAIN notices, StartNotify(i) \/ AckNotify(i)
      PROVE  Answered'
  BY <1>4, <1>7 DEF StartNotify, AckNotify
<1>8. ASSUME NEW i \in DOMAIN notices, LoseNotify(i) PROVE Answered'
  BY <1>0, <1>8, LoseNotifyIs DEF Undisturbed
<1>9. CASE SeeAnswer \/ GiveUp
  BY <1>2, <1>9 DEF SeeAnswer, GiveUp, Answered, Expected, vars
<1>10. CASE Judge
  <2>1. Passes
    <3>1. answer.state = "SUCCESS" /\ Expected(answer) /\ bodies # <<>>
      BY <1>2, <1>10 DEF Judge, Answered
    <3> QED
      BY <1>2, <3>1, EveryAssertion
  <2> QED
    BY <1>2, <1>10, <2>1 DEF Judge, Answered, Expected, vars
<1>11. CASE AllRest \/ UNCHANGED allVars
  BY <1>4, <1>11 DEF AllRest, allVars, reportVars
<1> QED
  BY <1>5, <1>6, <1>7, <1>8, <1>9, <1>10, <1>11
     DEF ReportNext, NotifyStep, RunnerStep

LEMMA ReportInvariance ==
    ASSUME Foreseen
    PROVE  ReportSpec => []ReportInv
<1>1. ReportInit => ReportInv
  <2> SUFFICES ASSUME ReportInit PROVE ReportInv
    OBVIOUS
  <2>1. HeaderInv /\ StateInv
    BY HeaderInvInit DEF ReportInit, Init, StateInv, Idle, NoPart
  <2>2. NoticesOK /\ Answered
    BY DEF ReportInit, Init, NoticesOK, Answered
  <2> QED
    BY <2>1, <2>2 DEF ReportInv
<1>2. ReportInv /\ [ReportNext]_allVars => ReportInv'
  <2> SUFFICES ASSUME ReportInv, [ReportNext]_allVars PROVE ReportInv'
    OBVIOUS
  <2>1. HeaderInv' /\ StateInv'
    BY ReportHeaderStep DEF ReportInv
  <2>2. NoticesOK'
    BY NoticesStep DEF ReportInv, HeaderInv
  <2>3. Enveloped /\ Undisturbed' => Answered'
    BY <2>1, AnsweredStep
  <2> QED
    BY <2>1, <2>2, <2>3 DEF ReportInv, Enveloped
<1> QED
  BY <1>1, <1>2, PTL DEF ReportSpec

(* With nothing going wrong but the schedule no assertion of run_pipeline  *)
(* fails, in whatever order the tasks, the drain, notify and the runner    *)
(* go, for every schedule the predictions are made for.                    *)
THEOREM RunnerPassesUndisturbed ==
    ASSUME Foreseen
    PROVE  ReportSpec =>
             [](/\ UndisturbedPasses
                /\ AttemptsAsPredicted /\ OutcomesAsPredicted)
<1>1. ReportInv => UndisturbedPasses
  BY DEF ReportInv, UndisturbedPasses, Answered
<1>2. ReportInv => AttemptsAsPredicted /\ OutcomesAsPredicted
  BY Predictions DEF ReportInv
<1> QED
  BY <1>1, <1>2, ReportInvariance, PTL

-----------------------------------------------------------------------------
(* Acknowledged early (fm0 and fm1) nothing runs twice, and what is lost   *)
(* is lost for good or recorded as WorkerLostError.  So a document has one *)
(* token at most: its message, its task or the part of a task that ended.  *)
Lost(p) == p.reason = "lost"

Told(p) == p.status = "FAILURE" <=> p.doc \in ExpectedFailed

Right(p) == IF Lost(p) THEN p.state = "FAILURE" ELSE Told(p)

Live(w) ==
    \/ slot[w].pc \in {"body", "chain"}
    \/ slot[w].pc = "part" /\ ~Lost(slot[w].out)

Reported(d) == \E p \in join : p.doc = d /\ ~Lost(p)

OneToken ==
    /\ \A m \in Message : ready[m] <= 1
    /\ \A m, n \in Message :
         ready[m] > 0 /\ ready[n] > 0 /\ m.doc = n.doc => m = n
    /\ \A v, w \in Slots :
         Live(v) /\ Live(w) /\ slot[v].msg.doc = slot[w].msg.doc => v = w
    /\ \A w \in Slots, m \in Message :
         Live(w) /\ ready[m] > 0 => m.doc # slot[w].msg.doc
    /\ \A p, q \in join : ~Lost(p) /\ ~Lost(q) /\ p.doc = q.doc => p = q
    /\ \A m \in Message : ready[m] > 0 => ~Reported(m.doc)
    /\ \A w \in Slots : Live(w) => ~Reported(slot[w].msg.doc)

EarlySlot(w) ==
    LET s == slot[w]
    IN  /\ s.mode = "task" /\ s.pc \notin {"finalize", "retry", "published"}
        /\ s.pc = "body" => s.msg.input = "SUCCESS"
        /\ s.pc = "chain" => s.out.status = "SUCCESS"
        /\ s.pc = "part" => s.out.doc = s.msg.doc /\ Right(s.out)

EarlyTasks ==
    /\ \A m \in Message : ready[m] > 0 => m.input = "SUCCESS"
    /\ \A w \in Slots : EarlySlot(w)
    /\ IsFiniteSet(join) /\ \A p \in join : Right(p)

(* The body is fired with every document told of, or fails: of two slots   *)
(* that fire it, one has found a WorkerLostError among the parts.          *)
HasLost == \E p \in join : Lost(p)

Whole == \A d \in Docs : Reported(d)

EarlyFires ==
    /\ \A w \in Slots : Holds(w, "fire") => HasLost \/ Whole
    /\ \A v, w \in Slots :
         Holds(v, "fire") /\ Holds(w, "fire") /\ v # w => HasLost
    /\ \A v, w \in Slots : Holds(w, "cleanup") /\ Firing(v) => v = w
    /\ \A w \in Slots : Holds(w, "cleanup") => Whole

EarlyBodies ==
    /\ AllComplete
    /\ \A i \in DOMAIN bodies : \A p \in bodies[i] : Told(p)

EarlyInv == OneToken /\ EarlyTasks /\ EarlyFires /\ EarlyBodies

-----------------------------------------------------------------------------
(* A step of slot w that moves the token of document d.                    *)
LEMMA TokenMoves ==
    ASSUME OneToken, NEW w \in Slots, NEW d, join' = join,
           \A v \in Slots \ {w} : slot'[v] = slot[v],
           Live(w)' => slot'[w].msg.doc = d,
           \A n \in Message : n.doc # d => ready'[n] = ready[n],
           \A n \in Message : n.doc = d => ready'[n] <= 1,
           \A m, n \in Message :
             ready'[m] > 0 /\ ready'[n] > 0 /\ m.doc = d /\ n.doc = d => m = n,
           \A n \in Message : ready'[n] > 0 /\ n.doc = d => ~Live(w)',
           \A v \in Slots \ {w} : Live(v) => slot[v].msg.doc # d,
           ~Reported(d)
    PROVE  OneToken'
<1>0. /\ \A e : Reported(e)' <=> Reported(e)
      /\ \A v \in Slots \ {w} : Live(v)' <=> Live(v)
  BY DEF Reported, Live
<1>1. \A m \in Message : ready'[m] <= 1
  BY DEF OneToken
<1>2. ASSUME NEW m \in Message, NEW n \in Message,
             ready'[m] > 0, ready'[n] > 0, m.doc = n.doc
      PROVE  m = n
  BY <1>2 DEF OneToken
<1>3. ASSUME NEW u \in Slots, NEW v \in Slots, Live(u)', Live(v)',
             slot'[u].msg.doc = slot'[v].msg.doc
      PROVE  u = v
  BY <1>0, <1>3 DEF OneToken
<1>4. ASSUME NEW v \in Slots, NEW m \in Message, Live(v)', ready'[m] > 0
      PROVE  m.doc # slot'[v].msg.doc
  BY <1>0, <1>4 DEF OneToken
<1>5. ASSUME NEW m \in Message, ready'[m] > 0 PROVE ~Reported(m.doc)
  BY <1>5 DEF OneToken
<1>6. ASSUME NEW v \in Slots, Live(v)' PROVE ~Reported(slot'[v].msg.doc)
  BY <1>0, <1>6 DEF OneToken
<1>7. \A p, q \in join' : ~Lost(p) /\ ~Lost(q) /\ p.doc = q.doc => p = q
  BY DEF OneToken
<1> QED
  BY <1>0, <1>1, <1>2, <1>3, <1>4, <1>5, <1>6, <1>7 DEF OneToken, Reported

LEMMA LiveToken ==
    ASSUME TypeOK, OneToken, NEW w \in Slots, Live(w), NEW d, d = slot[w].msg.doc
    PROVE  /\ \A n \in Message : n.doc = d => ready[n] = 0
           /\ \A v \in Slots \ {w} : Live(v) => slot[v].msg.doc # d
           /\ ~Reported(d)
<1>1. \A n \in Message : n.doc = d => ~(ready[n] > 0) /\ ready[n] \in Nat
  BY Typing DEF OneToken
<1> QED
  BY <1>1 DEF OneToken

(* A slot goes on with its token, or gives it up.                          *)
LEMMA TokenStays ==
    ASSUME TypeOK, OneToken, NEW w \in Slots, UNCHANGED <<ready, join>>,
           \A v \in Slots \ {w} : slot'[v] = slot[v],
           Live(w)' => Live(w) /\ slot'[w].msg.doc = slot[w].msg.doc
    PROVE  OneToken'
<1>1. CASE Live(w)
  <2>1. PICK d : d = slot[w].msg.doc
    OBVIOUS
  <2>2. /\ \A n \in Message : n.doc = d => ready[n] = 0
        /\ \A v \in Slots \ {w} : Live(v) => slot[v].msg.doc # d
        /\ ~Reported(d)
    BY <1>1, <2>1, LiveToken
  <2> QED
    BY <2>1, <2>2, TokenMoves
<1>2. CASE ~Live(w)
  <2>1. \A v \in Slots : Live(v)' => Live(v) /\ slot'[v] = slot[v]
    BY <1>2 DEF Live
  <2> QED
    BY <2>1 DEF OneToken, Reported
<1> QED
  BY <1>1, <1>2

(* The slots that fire the body are others than w, or fewer.               *)
LEMMA FiresStay ==
    ASSUME EarlyFires, NEW w \in Slots, join' = join, ~Firing(w)',
           \A v \in Slots \ {w} : slot'[v] = slot[v]
    PROVE  EarlyFires'
<1>1. \A v \in Slots : Firing(v)' => v # w
  OBVIOUS
<1>2. /\ HasLost' <=> HasLost
      /\ Whole' <=> Whole
  BY DEF HasLost, Whole, Reported
<1> QED
  BY <1>1, <1>2 DEF EarlyFires, Firing, Holds

LEMMA TasksStay ==
    ASSUME EarlyTasks, NEW w \in Slots, join' = join,
           \A v \in Slots \ {w} : slot'[v] = slot[v], EarlySlot(w)',
           \A m \in Message : ready'[m] > 0 => ready[m] > 0 \/ m.input = "SUCCESS"
    PROVE  EarlyTasks'
<1>1. ASSUME NEW v \in Slots PROVE EarlySlot(v)'
  BY DEF EarlyTasks, EarlySlot
<1> QED
  BY <1>1 DEF EarlyTasks

(* A WorkerLostError beside a part of each document is one too many.       *)
LEMMA OneTooMany ==
    ASSUME NEW J \in SUBSET Part, IsFiniteSet(J),
           \A p, q \in J : ~Lost(p) /\ ~Lost(q) /\ p.doc = q.doc => p = q,
           \A d \in Docs : \E p \in J : p.doc = d /\ ~Lost(p),
           \E p \in J : Lost(p)
    PROVE  Cardinality(J) # Cardinality(Docs)
<1> DEFINE S == {p \in J : ~Lost(p)}
<1>1. S \in SUBSET Part /\ \A p \in S : p.doc \in Docs
  BY DEF Part
<1>2. Cardinality(S) = Cardinality(Docs)
  BY <1>1, OneOfEach
<1>3. S \in SUBSET J /\ S # J
  OBVIOUS
<1> HIDE DEF S
<1> QED
  BY <1>2, <1>3, FS_Subset

(* A slot is free again, its task at an end or lost.                       *)
LEMMA EarlyReleases ==
    ASSUME TypeOK, EarlyInv, NEW w \in Slots, Release(w),
           UNCHANGED <<ready, join, bodies>>
    PROVE  EarlyInv'
<1>1. slot'[w] = Idle /\ \A v \in Slots \ {w} : slot'[v] = slot[v]
  BY Typing DEF Release
<1>2. ~Live(w)' /\ ~Firing(w)' /\ EarlySlot(w)'
  BY <1>1 DEF Idle, Live, Firing, EarlySlot
<1>3. OneToken' /\ EarlyTasks' /\ EarlyFires'
  BY <1>1, <1>2, TokenStays, TasksStay, FiresStay DEF EarlyInv
<1> QED
  BY <1>3 DEF EarlyInv, EarlyBodies, AllComplete, Complete

LEMMA EarlyLosing ==
    ASSUME ~AcksLate, TypeOK, EarlyInv, NEW w \in Slots, LoseTask(w),
           UNCHANGED <<join, bodies>>
    PROVE  EarlyInv'
<1>0. PICK m, out : m = slot[w].msg /\ out = PartFor(m, "lost", 0)
  OBVIOUS
<1>1. /\ UNCHANGED <<ready, dlq>> /\ slot[w].mode = "task"
      /\ Release(w) \/ Step(w, "part", out)
  BY <1>0 DEF LoseTask, EarlyInv, EarlyTasks, EarlySlot
<1>2. CASE Release(w)
  BY <1>1, <1>2, EarlyReleases
<1>3. CASE Step(w, "part", out)
  <2>1. /\ slot'[w].pc = "part" /\ slot'[w].out = out
        /\ slot'[w].msg = m /\ slot'[w].mode = "task"
        /\ \A v \in Slots \ {w} : slot'[v] = slot[v]
    BY <1>0, <1>1, <1>3, StepEffect
  <2>2. out.doc = m.doc /\ Lost(out) /\ out.state = "FAILURE"
    BY <1>0 DEF PartFor, Lost, CeleryState
  <2>3. ~Live(w)' /\ ~Firing(w)' /\ EarlySlot(w)'
    BY <2>1, <2>2 DEF Live, Firing, EarlySlot, Right, Lost, Told
  <2>4. OneToken' /\ EarlyTasks' /\ EarlyFires'
    BY <1>1, <2>1, <2>3, TokenStays, TasksStay, FiresStay DEF EarlyInv
  <2> QED
    BY <2>4 DEF EarlyInv, EarlyBodies, AllComplete, Complete
<1> QED
  BY <1>1, <1>2, <1>3

(* A body runs once, and its result is what the schedule says.             *)
LEMMA EarlyBody ==
    ASSUME ~AcksLate, NEW m \in Message, m.input = "SUCCESS"
    PROVE  /\ Outcome(m) \in {"return", "raise"}
           /\ Status(Outcome(m)) = "FAILURE" <=> m.doc \in ExpectedFailed
<1>1. m.doc \in Docs /\ m.doc # Unknown /\ DocId(m) = m.doc
  BY ConstantTypes DEF DocId, Message
<1>2. ~DeadLetters /\ ~Retryable /\ ~TimeLimits
  BY TaskExitAssumption
     DEF TaskExitAssumption, AcksLate, DeadLetters, Retryable, TimeLimits
<1>3. Schedule[m.doc].kind \in {"NONE", "FAIL"}
  BY <1>1, <1>2, ChordHeaderAssumption DEF ChordHeaderAssumption, KnownKinds
<1>4. /\ ~IsKilled(Schedule[m.doc], Attempt(m))
      /\ ~IsTransient(Schedule[m.doc], Attempt(m))
  BY <1>3 DEF IsKilled, IsTransient
<1>5. ParseOutcome(Schedule[m.doc], Attempt(m))
        = IF Schedule[m.doc].kind = "FAIL" THEN "raise" ELSE "return"
  BY <1>3, <1>4 DEF ParseOutcome
<1>6. Outcome(m) = IF Schedule[m.doc].kind = "FAIL" THEN "raise" ELSE "return"
  BY <1>1, <1>5 DEF Outcome
<1> QED
  BY <1>1, <1>3, <1>6 DEF Status, ExpectedFailed

(* A task goes on with its token.                                          *)
LEMMA EarlyKeeps ==
    ASSUME TypeOK, EarlyInv, NEW w \in Slots, Live(w),
           NEW pc \in {"chain", "part"}, NEW out, Step(w, pc, out),
           pc = "chain" => out.status = "SUCCESS",
           pc = "part" => out.doc = slot[w].msg.doc /\ Right(out),
           UNCHANGED <<ready, join, bodies>>
    PROVE  EarlyInv'
<1>1. /\ slot'[w].pc = pc /\ slot'[w].out = out
      /\ slot'[w].msg = slot[w].msg /\ slot'[w].mode = "task"
      /\ \A v \in Slots \ {w} : slot'[v] = slot[v]
  BY StepEffect DEF EarlyInv, EarlyTasks, EarlySlot
<1>2. ~Firing(w)' /\ EarlySlot(w)'
  BY <1>1 DEF Firing, EarlySlot, Right, Lost, Told
<1>3. OneToken' /\ EarlyTasks' /\ EarlyFires'
  BY <1>1, <1>2, TokenStays, TasksStay, FiresStay DEF EarlyInv
<1> QED
  BY <1>3 DEF EarlyInv, EarlyBodies, AllComplete, Complete

LEMMA EarlyDeliver ==
    ASSUME TypeOK, EarlyInv, NEW w \in Slots, NEW m \in Message, Deliver(w, m)
    PROVE  EarlyInv'
<1>0. PICK d : d = m.doc
  OBVIOUS
<1>1. /\ ready[m] > 0 /\ ready' = Take(ready, m) /\ UNCHANGED <<join, bodies>>
      /\ slot'[w].pc = "body" /\ slot'[w].msg = m /\ slot'[w].mode = "task"
      /\ \A v \in Slots \ {w} : slot'[v] = slot[v]
      /\ ready \in [Message -> Nat]
  BY Typing DEF Deliver
<1>2. /\ ready'[m] = 0
      /\ \A n \in Message \ {m} : ready'[n] = ready[n]
  <2>1. ready[m] = 1
    BY <1>1 DEF EarlyInv, OneToken
  <2> QED
    BY <1>1, <2>1 DEF Take
<1>3. \A n \in Message : n.doc = d => ready'[n] = 0
  <2>1. ASSUME NEW n \in Message \ {m}, n.doc = d PROVE ready[n] = 0
    <3>1. ~(ready[n] > 0) /\ ready[n] \in Nat
      BY <1>0, <1>1, <2>1 DEF EarlyInv, OneToken
    <3> QED
      BY <3>1
  <2> QED
    BY <1>2, <2>1
<1>4. /\ ~Reported(d)
      /\ \A v \in Slots \ {w} : Live(v) => slot[v].msg.doc # d
  BY <1>0, <1>1 DEF EarlyInv, OneToken
<1>5. \A n \in Message : n.doc # d => ready'[n] = ready[n]
  BY <1>0, <1>2
<1>6. Live(w)' => slot'[w].msg.doc = d
  BY <1>0, <1>1
<1>7. OneToken'
  BY <1>1, <1>3, <1>4, <1>5, <1>6, TokenMoves DEF EarlyInv
<1>8. ~Firing(w)' /\ EarlySlot(w)'
  BY <1>1 DEF Firing, EarlySlot, EarlyInv, EarlyTasks
<1>9. \A n \in Message : ready'[n] > 0 => ready[n] > 0
  BY <1>2
<1>10. EarlyTasks' /\ EarlyFires'
  BY <1>1, <1>8, <1>9, TasksStay, FiresStay DEF EarlyInv
<1> QED
  BY <1>1, <1>7, <1>10 DEF EarlyInv, EarlyBodies, AllComplete, Complete

LEMMA EarlyPublish ==
    ASSUME TypeOK, EarlyInv, NEW w \in Slots, PublishParse(w)
    PROVE  EarlyInv'
<1>0. PICK d, k : d = slot[w].msg.doc /\ k = ParseMessage(d, slot[w].out.status)
  OBVIOUS
<1>1. /\ Live(w) /\ d \in Docs /\ slot[w].out.status = "SUCCESS"
      /\ ready' = Put(ready, k) /\ UNCHANGED <<join, bodies>>
      /\ ready \in [Message -> Nat]
  BY <1>0, Typing
     DEF PublishParse, Live, Holds, EarlyInv, EarlyTasks, EarlySlot
<1>2. /\ slot'[w].pc = "ack" /\ slot'[w].mode = "task"
      /\ \A v \in Slots \ {w} : slot'[v] = slot[v]
  BY StepEffect DEF PublishParse, EarlyInv, EarlyTasks, EarlySlot
<1>3. k \in Message /\ k.doc = d /\ k.input = "SUCCESS"
  BY <1>0, <1>1, FreshMessageType DEF ParseMessage
<1>4. /\ \A n \in Message : n.doc = d => ready[n] = 0
      /\ \A v \in Slots \ {w} : Live(v) => slot[v].msg.doc # d
      /\ ~Reported(d)
  BY <1>0, <1>1, LiveToken DEF EarlyInv
<1>5. /\ ready'[k] = 1 /\ \A n \in Message \ {k} : ready'[n] = ready[n]
  BY <1>1, <1>3, <1>4 DEF Put
<1>6. /\ \A n \in Message : n.doc # d => ready'[n] = ready[n]
      /\ \A n \in Message : n.doc = d => ready'[n] <= 1
      /\ \A n \in Message : ready'[n] > 0 /\ n.doc = d => n = k
  BY <1>3, <1>4, <1>5
<1>7. ~Live(w)' /\ ~Firing(w)' /\ EarlySlot(w)'
  BY <1>2 DEF Live, Firing, EarlySlot
<1>8. OneToken'
  BY <1>1, <1>2, <1>4, <1>6, <1>7, TokenMoves DEF EarlyInv
<1>9. \A n \in Message : ready'[n] > 0 => ready[n] > 0 \/ n.input = "SUCCESS"
  BY <1>3, <1>5
<1>10. EarlyTasks' /\ EarlyFires'
  BY <1>1, <1>2, <1>7, <1>9, TasksStay, FiresStay DEF EarlyInv
<1> QED
  BY <1>1, <1>8, <1>10 DEF EarlyInv, EarlyBodies, AllComplete, Complete

LEMMA EarlyPartReturn ==
    ASSUME TypeOK, TypeOK', EarlyInv, NEW w \in Slots, PartReturn(w)
    PROVE  EarlyInv'
<1>0. PICK x, d : x = slot[w].out /\ d = slot[w].msg.doc
  OBVIOUS
<1>1. /\ Holds(w, "part") /\ join' = join \cup {x}
      /\ UNCHANGED <<ready, bodies>> /\ x.doc = d /\ Right(x)
  BY <1>0 DEF PartReturn, EarlyInv, EarlyTasks, EarlySlot, Holds
<1>2. PICK pc \in {"fire", "ack"} :
        /\ Step(w, pc, NoPart)
        /\ pc = "fire" => Cardinality(join') = Cardinality(Docs)
  BY DEF PartReturn
<1>3. /\ slot'[w].pc = pc /\ slot'[w].mode = "task"
      /\ \A v \in Slots \ {w} : slot'[v] = slot[v]
  BY <1>2, StepEffect DEF EarlyInv, EarlyTasks, EarlySlot
<1>4. ~Live(w)' /\ EarlySlot(w)'
  BY <1>3 DEF Live, EarlySlot
<1>5. Live(w) <=> ~Lost(x)
  BY <1>0, <1>1 DEF Live, Holds
<1>6. \A e : Reported(e)' <=> Reported(e) \/ (e = d /\ ~Lost(x))
  BY <1>1 DEF Reported
<1>7. ~Lost(x) => /\ \A n \in Message : n.doc = d => ready[n] = 0
                  /\ \A v \in Slots \ {w} : Live(v) => slot[v].msg.doc # d
                  /\ ~Reported(d)
  BY <1>0, <1>5, LiveToken DEF EarlyInv
<1>8. \A v \in Slots : Live(v)' => Live(v) /\ slot'[v] = slot[v] /\ v # w
  BY <1>3, <1>4 DEF Live
<1>9. OneToken'
  <2>1. \A p, q \in join' : ~Lost(p) /\ ~Lost(q) /\ p.doc = q.doc => p = q
    BY <1>1, <1>7 DEF EarlyInv, OneToken, Reported
  <2>2. ASSUME NEW m \in Message, ready'[m] > 0 PROVE ~Reported(m.doc)'
    BY <1>1, <1>6, <1>7, <2>2 DEF EarlyInv, OneToken
  <2>3. ASSUME NEW v \in Slots, Live(v)'
        PROVE  ~(\E p \in join' : p.doc = slot'[v].msg.doc /\ ~Lost(p))
    <3>1. Live(v) /\ slot'[v] = slot[v] /\ v # w
      BY <1>8, <2>3
    <3> QED
      BY <1>1, <1>7, <3>1 DEF EarlyInv, OneToken, Reported
  <2>4. /\ \A m \in Message : ready'[m] <= 1
        /\ \A m, n \in Message :
             ready'[m] > 0 /\ ready'[n] > 0 /\ m.doc = n.doc => m = n
    BY <1>1 DEF EarlyInv, OneToken
  <2>5. \A u, v \in Slots :
          Live(u)' /\ Live(v)' /\ slot'[u].msg.doc = slot'[v].msg.doc => u = v
    BY <1>8 DEF EarlyInv, OneToken
  <2>6. \A v \in Slots, m \in Message :
          Live(v)' /\ ready'[m] > 0 => m.doc # slot'[v].msg.doc
    BY <1>1, <1>8 DEF EarlyInv, OneToken
  <2> QED
    BY <2>1, <2>2, <2>3, <2>4, <2>5, <2>6 DEF OneToken, Reported
<1>10. EarlyTasks'
  <2>1. IsFiniteSet(join')
    BY <1>1, FS_AddElement DEF EarlyInv, EarlyTasks
  <2>2. \A p \in join' : Right(p)
    BY <1>1 DEF EarlyInv, EarlyTasks
  <2>3. \A v \in Slots : EarlySlot(v)'
    BY <1>3, <1>4 DEF EarlyInv, EarlyTasks, EarlySlot
  <2> QED
    BY <1>1, <2>1, <2>2, <2>3 DEF EarlyInv, EarlyTasks
<1>11. EarlyFires'
  <2>1. /\ join' \in SUBSET Part /\ IsFiniteSet(join')
        /\ \A p, q \in join' : ~Lost(p) /\ ~Lost(q) /\ p.doc = q.doc => p = q
    BY <1>9, <1>10 DEF TypeOK, EarlyTasks, OneToken
  <2>2. Whole => Whole' /\ Lost(x)
    <3>1. d \in Docs
      BY <1>0, <1>1, Typing DEF Holds
    <3> QED
      BY <1>6, <1>7, <3>1 DEF Whole
  <2>3. (HasLost => HasLost') /\ (Lost(x) => HasLost')
    BY <1>1 DEF HasLost
  <2>4. pc = "fire" => ~(HasLost' /\ Whole')
    BY <1>2, <2>1, OneTooMany DEF HasLost, Whole, Reported
  <2>5. pc = "fire" => HasLost' \/ Whole'
    <3>1. SUFFICES ASSUME pc = "fire", ~HasLost' PROVE Whole'
      OBVIOUS
    <3>2. \A p \in join' : ~Lost(p)
      BY <3>1 DEF HasLost
    <3>3. \A e \in Docs : \E p \in join' : p.doc = e
      BY <1>2, <2>1, <3>1, <3>2, AllJoined
    <3> QED
      BY <3>2, <3>3 DEF Whole, Reported
  <2>6. \A v \in Slots \ {w} :
          /\ Holds(v, "fire")' => Holds(v, "fire")
          /\ Holds(v, "cleanup")' => Holds(v, "cleanup")
    BY <1>3 DEF Holds
  <2>7. ~Holds(w, "cleanup")' /\ (Holds(w, "fire")' <=> pc = "fire")
    BY <1>3 DEF Holds
  (* When w fires, no other was about to with the documents whole.         *)
  <2>8. pc = "fire" =>
          /\ \A v \in Slots : ~Holds(v, "cleanup")
          /\ \A v \in Slots : Holds(v, "fire") => HasLost
    BY <2>2, <2>3, <2>4 DEF EarlyInv, EarlyFires
  <2>9. \A v \in Slots : Holds(v, "fire")' => HasLost' \/ Whole'
    BY <2>2, <2>3, <2>5, <2>6, <2>7 DEF EarlyInv, EarlyFires
  <2>10. \A u, v \in Slots :
           Holds(u, "fire")' /\ Holds(v, "fire")' /\ u # v => HasLost'
    BY <2>3, <2>6, <2>7, <2>8 DEF EarlyInv, EarlyFires
  <2>11. \A v \in Slots : Holds(v, "cleanup")' => Whole'
    BY <2>2, <2>6, <2>7 DEF EarlyInv, EarlyFires
  <2>12. \A u, v \in Slots : Holds(u, "cleanup")' /\ Firing(v)' => u = v
    <3> SUFFICES ASSUME NEW u \in Slots, NEW v \in Slots,
                        Holds(u, "cleanup")', Firing(v)'
                 PROVE  u = v
      OBVIOUS
    <3>1. u # w /\ Holds(u, "cleanup")
      BY <2>6, <2>7
    <3>2. pc # "fire"
      BY <2>8, <3>1
    <3>3. v # w /\ Firing(v)
      BY <1>3, <2>7, <3>2 DEF Firing, Holds
    <3> QED
      BY <3>1, <3>3 DEF EarlyInv, EarlyFires
  <2> QED
    BY <2>9, <2>10, <2>11, <2>12 DEF EarlyFires
<1> QED
  BY <1>1, <1>9, <1>10, <1>11 DEF EarlyInv, EarlyBodies, AllComplete, Complete

(* Once fired the body is whole, and no other slot fires it.               *)
LEMMA EarlyFireBody ==
    ASSUME TypeOK, EarlyInv, NEW w \in Slots, FireBody(w)
    PROVE  EarlyInv'
<1>0. PICK pc \in {"ack", "cleanup"} : Step(w, pc, NoPart)
  BY DEF FireBody
<1>1. /\ slot'[w].pc = pc /\ slot'[w].mode = "task"
      /\ \A v \in Slots \ {w} : slot'[v] = slot[v]
      /\ Holds(w, "fire") /\ UNCHANGED <<ready, join>>
  BY <1>0, StepEffect DEF FireBody, EarlyInv, EarlyTasks, EarlySlot
<1>2. ~Live(w)' /\ EarlySlot(w)'
  BY <1>1 DEF Live, EarlySlot
<1>3. OneToken' /\ EarlyTasks'
  BY <1>1, <1>2, TokenStays, TasksStay DEF EarlyInv
<1>4. CASE pc = "ack" /\ UNCHANGED bodies
  <2>1. EarlyFires'
    BY <1>1, <1>4, FiresStay DEF Firing, EarlyInv
  <2> QED
    BY <1>3, <1>4, <2>1 DEF EarlyInv, EarlyBodies, AllComplete, Complete
<1>5. CASE /\ \A p \in join : p.state = "SUCCESS"
           /\ bodies' = Append(bodies, join)
  <2>1. ~HasLost /\ \A p \in join : Told(p) /\ ~Lost(p)
    BY <1>5 DEF EarlyInv, EarlyTasks, Right, HasLost
  <2>2. Whole /\ \A v \in Slots \ {w} : ~Firing(v)
    BY <1>1, <2>1 DEF EarlyInv, EarlyFires, Firing, Holds
  <2>3. EarlyFires'
    <3>1. \A v \in Slots \ {w} : ~Firing(v)'
      BY <1>1, <2>2 DEF Firing
    <3>2. Whole'
      BY <1>1, <2>2 DEF Whole, Reported
    <3>3. ~Holds(w, "fire")'
      BY <1>1 DEF Holds
    <3> QED
      BY <3>1, <3>2, <3>3 DEF EarlyFires, Firing, Holds
  <2>4. ASSUME NEW i \in DOMAIN bodies'
        PROVE  \/ bodies'[i] = join
               \/ i \in DOMAIN bodies /\ bodies'[i] = bodies[i]
    BY <1>5, Typing, AppendProperties
  <2>5. EarlyBodies'
    <3>1. \A d \in Docs : \E p \in join : p.doc = d
      BY <2>2 DEF Whole, Reported
    <3>2. \A p, q \in join : p.doc = q.doc => p = q
      BY <2>1 DEF EarlyInv, OneToken
    <3>3. AllComplete'
      BY <2>4, <3>1, <3>2 DEF EarlyInv, EarlyBodies, AllComplete, Complete
    <3>4. \A i \in DOMAIN bodies' : \A p \in bodies'[i] : Told(p)
      BY <2>1, <2>4 DEF EarlyInv, EarlyBodies
    <3> QED
      BY <3>3, <3>4 DEF EarlyBodies, Told
  <2> QED
    BY <1>3, <2>3, <2>5 DEF EarlyInv
<1>6. \/ Step(w, "ack", NoPart) /\ UNCHANGED bodies
      \/ /\ \A p \in join : p.state = "SUCCESS"
         /\ bodies' = Append(bodies, join)
  BY DEF FireBody
<1>7. Step(w, "ack", NoPart) => pc = "ack"
  BY <1>1, StepEffect
<1> QED
  BY <1>4, <1>5, <1>6, <1>7

LEMMA EarlyDeleteKeys ==
    ASSUME TypeOK, EarlyInv, NEW w \in Slots, DeleteKeys(w)
    PROVE  EarlyInv'
<1>1. /\ slot'[w].pc = "ack" /\ slot'[w].mode = "task"
      /\ \A v \in Slots \ {w} : slot'[v] = slot[v]
      /\ Holds(w, "cleanup") /\ join' = {} /\ UNCHANGED <<ready, bodies>>
  BY StepEffect DEF DeleteKeys, EarlyInv, EarlyTasks, EarlySlot
<1>2. ~Live(w)' /\ EarlySlot(w)'
  BY <1>1 DEF Live, EarlySlot
<1>3. \A v \in Slots : Live(v)' => Live(v) /\ slot'[v] = slot[v]
  BY <1>1, <1>2 DEF Live
<1>4. OneToken'
  BY <1>1, <1>3 DEF EarlyInv, OneToken, Reported
<1>5. EarlyTasks'
  <2>1. \A v \in Slots : EarlySlot(v)'
    BY <1>1, <1>2 DEF EarlyInv, EarlyTasks, EarlySlot
  <2> QED
    BY <1>1, <2>1, FS_EmptySet DEF EarlyInv, EarlyTasks
<1>6. EarlyFires'
  <2>1. \A v \in Slots : ~Firing(v)'
    BY <1>1 DEF EarlyInv, EarlyFires, Firing, Holds
  <2> QED
    BY <2>1 DEF EarlyFires, Firing, Holds
<1> QED
  BY <1>1, <1>4, <1>5, <1>6 DEF EarlyInv, EarlyBodies, AllComplete, Complete

(* What a body that ended is said to have done is what was expected.       *)
LEMMA EarlyEnds ==
    ASSUME ~AcksLate, TypeOK, EarlyInv, NEW w \in Slots, ParseEnds(w)
    PROVE  EarlyInv'
<1>0. PICK m, reason, out :
        /\ m = slot[w].msg /\ reason = Outcome(m)
        /\ out = PartFor(m, reason, Attempt(m))
  OBVIOUS
<1>1. /\ slot[w].pc = "body" /\ Step(w, "part", out)
      /\ UNCHANGED <<ready, join, bodies>>
  BY <1>0 DEF ParseEnds, EnterParse, Holds
<1>2. m \in Message /\ m.input = "SUCCESS"
  BY <1>0, <1>1, Typing DEF EarlyInv, EarlyTasks, EarlySlot
<1>3. /\ reason \in {"return", "raise"}
      /\ Status(reason) = "FAILURE" <=> m.doc \in ExpectedFailed
  BY <1>0, <1>2, EarlyBody
<1>4. out.doc = m.doc /\ out.reason = reason /\ out.status = Status(reason)
  BY <1>0 DEF PartFor
<1>5. Right(out)
  BY <1>3, <1>4 DEF Right, Lost, Told
<1> QED
  BY <1>0, <1>1, <1>4, <1>5, EarlyKeeps DEF Live

LEMMA EarlyStep ==
    ASSUME ~AcksLate, TypeOK, TypeOK', EarlyInv, [Next]_vars
    PROVE  EarlyInv'
<1>0. ~DeadLetters /\ ~Retryable /\ ~TimeLimits
  BY TaskExitAssumption
     DEF TaskExitAssumption, AcksLate, DeadLetters, Retryable, TimeLimits
<1>1. ASSUME NEW w \in Slots, NEW m \in Message, Deliver(w, m)
      PROVE  EarlyInv'
  BY <1>1, EarlyDeliver
<1>2. ASSUME NEW w \in Slots, RunFetch(w) PROVE EarlyInv'
  <2>1. PICK out : /\ out = PartFor(slot[w].msg, "return", 1)
                   /\ Step(w, "chain", out)
    BY <1>2 DEF RunFetch
  <2>2. out.status = "SUCCESS"
    BY <2>1 DEF PartFor, Status
  <2>3. Live(w) /\ UNCHANGED <<ready, join, bodies>>
    BY <1>2 DEF RunFetch, Live, Holds
  <2> QED
    BY <2>1, <2>2, <2>3, EarlyKeeps
<1>3. ASSUME NEW w \in Slots, ParseEnds(w) PROVE EarlyInv'
  BY <1>3, EarlyEnds
<1>4. ASSUME NEW w \in Slots, ParseKilled(w) PROVE FALSE
  <2>1. slot[w].msg \in Message
    BY <1>4, Typing DEF ParseKilled, EnterParse, Holds
  <2> QED
    BY <1>4, <2>1, NoKillBeforeAcksLate DEF ParseKilled
<1>5. ASSUME NEW w \in Slots, PublishParse(w) PROVE EarlyInv'
  BY <1>5, EarlyPublish
<1>6. ASSUME NEW w \in Slots, PartReturn(w) PROVE EarlyInv'
  BY <1>6, EarlyPartReturn
<1>7. ASSUME NEW w \in Slots, FireBody(w) PROVE EarlyInv'
  BY <1>7, EarlyFireBody
<1>8. ASSUME NEW w \in Slots, DeleteKeys(w) PROVE EarlyInv'
  BY <1>8, EarlyDeleteKeys
<1>9. ASSUME NEW w \in Slots, Ack(w) PROVE EarlyInv'
  BY <1>9, EarlyReleases DEF Ack
<1>10. ASSUME NEW w \in Slots, Lose(w) PROVE EarlyInv'
  BY <1>10, EarlyLosing DEF Lose
<1>11. ASSUME NEW w \in Slots,
              PublishRetry(w) \/ RaiseRetry(w) \/ FinalizeDlq(w)
       PROVE  FALSE
  BY <1>11 DEF PublishRetry, RaiseRetry, FinalizeDlq, Holds, EarlyInv, EarlyTasks, EarlySlot
<1>12. ASSUME NEW w \in Slots,
              \/ ParseRetries(w) \/ SoftLimit(w) \/ LimitEscapes(w)
              \/ Disconnect(w) \/ Cancelled(w) \/ \E m \in Message : DrainGet(w, m)
       PROVE  FALSE
  BY <1>0, <1>12
     DEF ParseRetries, Retries, SoftLimit, LimitEscapes, Disconnect,
     Cancelled, DrainGet
<1>13. CASE Rest \/ UNCHANGED vars
  BY <1>13 DEF Rest, vars, EarlyInv, OneToken, EarlyTasks, EarlyFires,
     EarlyBodies, AllComplete, Complete, EarlySlot, Live, Reported, Firing, Holds,
     HasLost, Whole
<1> QED
  BY <1>1, <1>2, <1>3, <1>4, <1>5, <1>6, <1>7, <1>8, <1>9, <1>10, <1>11,
     <1>12, <1>13 DEF Next, Progress, Dispatch

LEMMA EarlyInit == Init => EarlyInv
<1> SUFFICES ASSUME Init PROVE EarlyInv
  OBVIOUS
<1>1. /\ \A m \in Message :
           ready[m] = (IF \E d \in Docs : m = FetchMessage(d) THEN 1 ELSE 0)
      /\ join = {} /\ bodies = <<>> /\ \A w \in Slots : slot[w] = Idle
  BY DEF Init
<1>2. ASSUME NEW m \in Message, ready[m] > 0
      PROVE  m = FetchMessage(m.doc) /\ m.input = "SUCCESS"
  BY <1>1, <1>2 DEF FetchMessage
<1>3. \A w \in Slots :
        /\ slot[w].pc = "idle" /\ slot[w].mode = "task" /\ EarlySlot(w)
        /\ ~Live(w) /\ ~Firing(w)
  BY <1>1 DEF Idle, EarlySlot, Live, Firing
<1>4. \A m \in Message : ready[m] <= 1
  BY <1>1
<1>5. \A m, n \in Message :
        ready[m] > 0 /\ ready[n] > 0 /\ m.doc = n.doc => m = n
  BY <1>2
<1>6. OneToken
  BY <1>1, <1>3, <1>4, <1>5 DEF OneToken, Reported
<1>7. EarlyTasks
  BY <1>1, <1>2, <1>3, FS_EmptySet DEF EarlyTasks
<1>8. EarlyFires /\ EarlyBodies
  BY <1>1, <1>3 DEF EarlyFires, EarlyBodies, AllComplete, Complete, Firing, Holds
<1> QED
  BY <1>6, <1>7, <1>8 DEF EarlyInv

(* Losing notify does not touch the header.                                *)
LEMMA EarlyLoseNotify ==
    ASSUME EarlyInv, NEW i, LoseNotify(i)
    PROVE  EarlyInv'
<1>1. UNCHANGED <<ready, slot, join, bodies>>
  BY DEF LoseNotify
<1> QED
  BY <1>1 DEF EarlyInv, OneToken, EarlyTasks, EarlyFires, EarlyBodies,
     AllComplete, Complete, EarlySlot, Live, Reported, Firing, Holds, HasLost, Whole

(* Where the counts are known to be right: fm5 and fm6 assert them; in fm0 *)
(* and fm1 a body that is published is whole.                              *)
PassedInv ==
    /\ TypeOK /\ NoticesOK
    /\ ~AcksLate => EarlyInv
    /\ ~AcksLate /\ answer.state = "SUCCESS" => Expected(answer)
    /\ Enveloped /\ runner = "passed" =>
         /\ answer.state = "SUCCESS"
         /\ Retryable \/ ~AcksLate => Expected(answer)

(* notify's counts, where nothing runs twice.                              *)
LEMMA EarlyCounts ==
    ASSUME TypeOK, NoticesOK, EarlyInv, NEW i \in DOMAIN notices
    PROVE  /\ Cardinality(With(i, "FAILURE")) = Cardinality(ExpectedFailed)
           /\ Cardinality(With(i, "SUCCESS"))
                = Cardinality(Docs) - Cardinality(ExpectedFailed)
<1>1. i \in 1..Len(bodies) /\ bodies \in Seq(SUBSET Part)
  BY Typing DEF NoticesOK
<1>2. bodies[i] \in SUBSET Part
  BY <1>1, ElementOfSeq
<1>3. i \in DOMAIN bodies
  BY <1>1
<1>4. \A p \in bodies[i] :
        /\ p.doc \in Docs /\ p.status \in {"SUCCESS", "FAILURE"}
        /\ p.status = "FAILURE" <=> p.doc \in ExpectedFailed
  BY <1>2, <1>3 DEF Part, EarlyInv, EarlyBodies, Told
<1> QED
  BY <1>2, <1>3, <1>4, NotifyCounts DEF EarlyInv, EarlyBodies

(* A SUCCESS stays, and only notify brings one.                            *)
LEMMA AnswerMoves ==
    ASSUME PassedInv, [ReportNext]_allVars
    PROVE  \/ answer' = answer
           \/ /\ answer.state # "SUCCESS"
              /\ \/ answer'.state # "SUCCESS"
                 \/ ~AcksLate => Expected(answer)'
<1>1. ASSUME NEW w \in Slots, Works(w) \/ Disturbed(w)
      PROVE  \/ answer' = answer
             \/ answer.state # "SUCCESS" /\ answer'.state # "SUCCESS"
  BY <1>1 DEF Works, Disturbed, Announce, Record, Failure
<1>2. ASSUME NEW i \in DOMAIN notices, StoreNotify(i)
      PROVE  \/ answer' = answer
             \/ answer.state # "SUCCESS" /\ (~AcksLate => Expected(answer)')
  <2>1. ~AcksLate =>
          /\ Cardinality(With(i, "FAILURE")) = Cardinality(ExpectedFailed)
          /\ Cardinality(With(i, "SUCCESS"))
               = Cardinality(Docs) - Cardinality(ExpectedFailed)
    BY EarlyCounts DEF PassedInv
  <2> QED
    BY <1>2, <2>1 DEF StoreNotify, Record, Expected
<1>3. ASSUME NEW i \in DOMAIN notices, LoseNotify(i)
      PROVE  \/ answer' = answer
             \/ answer.state # "SUCCESS" /\ answer'.state # "SUCCESS"
  BY <1>3 DEF LoseNotify, Record, Failure
<1>4. ASSUME NEW i \in DOMAIN notices, StartNotify(i) \/ AckNotify(i)
      PROVE  answer' = answer
  BY <1>4 DEF StartNotify, AckNotify
<1>5. RunnerStep \/ AllRest \/ UNCHANGED allVars => answer' = answer
  BY DEF RunnerStep, SeeAnswer, GiveUp, Judge, AllRest, allVars, reportVars
<1> QED
  BY <1>1, <1>2, <1>3, <1>4, <1>5 DEF ReportNext, NotifyStep

LEMMA PassedStep ==
    ASSUME PassedInv, [ReportNext]_allVars
    PROVE  PassedInv'
<1>0. TypeOK /\ NoticesOK
  BY DEF PassedInv
<1>1. TypeOK' /\ (~AcksLate => EarlyInv')
  <2>1. CASE [Next]_vars
    <3>1. TypeOK'
      BY <1>0, <2>1, StepPreservesType
    <3> QED
      BY <2>1, <3>1, EarlyStep DEF PassedInv
  <2>2. ASSUME NEW i \in DOMAIN notices, LoseNotify(i)
        PROVE  TypeOK' /\ (~AcksLate => EarlyInv')
    BY <1>0, <2>2, LoseNotifyIs, EarlyLoseNotify DEF PassedInv
  <2> QED
    BY <2>1, <2>2, ReportStepIs
<1>2. NoticesOK'
  BY <1>0, NoticesStep
<1>3. \/ answer' = answer
      \/ /\ answer.state # "SUCCESS"
         /\ \/ answer'.state # "SUCCESS"
            \/ ~AcksLate => Expected(answer)'
  BY AnswerMoves
<1>4. ~AcksLate /\ answer'.state = "SUCCESS" => Expected(answer)'
  BY <1>3 DEF PassedInv, Expected
<1>5. ASSUME Enveloped, runner' = "passed"
      PROVE  /\ answer'.state = "SUCCESS"
             /\ Retryable \/ ~AcksLate => Expected(answer)'
  <2>1. CASE runner = "passed"
    BY <1>3, <1>5, <2>1 DEF PassedInv, Expected
  <2>2. CASE runner # "passed"
    <3>1. Judge
      <4>1. \A w \in Slots : Works(w) \/ Disturbed(w) => runner' = runner
        BY DEF Works, Disturbed, Announce
      <4>2. \A i \in DOMAIN notices :
              NotifyStep(i) \/ LoseNotify(i) => runner' = runner
        BY DEF NotifyStep, StartNotify, StoreNotify, AckNotify, LoseNotify
      <4>3. SeeAnswer \/ GiveUp => runner' # "passed"
        BY DEF SeeAnswer, GiveUp
      <4>4. AllRest \/ UNCHANGED allVars => runner' = runner
        BY DEF AllRest, allVars, reportVars
      <4> QED
        BY <1>5, <2>2, <4>1, <4>2, <4>3, <4>4 DEF ReportNext, RunnerStep
    <3>2. answer' = answer /\ answer.state = "SUCCESS" /\ CountsAsExpected
      BY <1>5, <3>1 DEF Judge, Passes, BodyFired
    <3>3. Retryable => Expected(answer)
      BY <3>2 DEF CountsAsExpected, Expected
    <3>4. ~AcksLate => Expected(answer)
      BY <3>2 DEF PassedInv
    <3> QED
      BY <3>2, <3>3, <3>4 DEF Expected
  <2> QED
    BY <2>1, <2>2
<1> QED
  BY <1>1, <1>2, <1>4, <1>5
     DEF PassedInv, Expected, Enveloped, AcksLate, Retryable

(* Whatever is lost on the way, a run that passes has reported each        *)
(* document as the schedule made it end: in fm0 and fm1, where a lost      *)
(* message or a WorkerLostError keeps the body from being published or     *)
(* from being whole, and from fm5 on, where run_pipeline asserts notify's  *)
(* counts.  fm2 .. fm4 assert no counts, and a loss may repeat a part.     *)
THEOREM PassedReports ==
    ReportSpec => [](Retryable \/ ~AcksLate => PassedIsReported)
<1>1. ReportInit => PassedInv
  <2> SUFFICES ASSUME ReportInit PROVE PassedInv
    OBVIOUS
  <2>1. Init /\ notices = <<>> /\ answer = NoAnswer /\ runner = "wait"
    BY DEF ReportInit
  <2>2. TypeOK /\ EarlyInv
    BY <2>1, InitType, EarlyInit
  <2>3. NoticesOK
    BY <2>1 DEF Init, NoticesOK
  <2> QED
    BY <2>1, <2>2, <2>3 DEF PassedInv, NoAnswer
<1>2. PassedInv /\ [ReportNext]_allVars => PassedInv'
  BY PassedStep
<1>3. PassedInv => (Retryable \/ ~AcksLate => PassedIsReported)
  BY DEF PassedInv, PassedIsReported, Expected
<1> QED
  BY <1>1, <1>2, <1>3, PTL DEF ReportSpec

=============================================================================
