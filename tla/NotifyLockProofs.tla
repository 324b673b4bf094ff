-------------------------- MODULE NotifyLockProofs --------------------------
(***************************************************************************)
(* Proofs about NotifyLock for any number of notifies, copies, retries,    *)
(* losses and time limits.  Mutual exclusion rests on time: a claim lasts  *)
(* TTL ticks, an execution at most RunTime < TTL of them, so the key of a  *)
(* claim cannot expire under the notify that made it.                      *)
(***************************************************************************)
EXTENDS NotifyLock, TLAPS

USE NotifyLockAssumption DEF NotifyLockConstants

-----------------------------------------------------------------------------
(* The shapes a step gives to a copy.                                      *)

LEMMA NewCopyType ==
    ASSUME NEW t \in Tasks, NEW r \in 0..MaxRetries, NEW n \in Nat
    PROVE  /\ NewCopy(t, r, n) \in Copy
           /\ NewCopy(t, r, n).pc = "queued"
           /\ NewCopy(t, r, n).task = t
  BY DEF NewCopy, Copy

LEMMA FreeType == Free \in Copy /\ Free.pc = "free"
  BY DEF Free, Copy

LEMMA LostType ==
    ASSUME NEW k \in Copy, k.task \in Tasks
    PROVE  /\ DeadLettered(k) \in Copy
           /\ DeadLettered(k).pc = "dead" /\ DeadLettered(k).task \in Tasks
           /\ k.deliveries < DeliveryLimit =>
                /\ Redelivered(k) \in Copy
                /\ Redelivered(k).pc = "queued"
                /\ Redelivered(k).task \in Tasks
<1>1. /\ DeadLettered(k) \in Copy
      /\ DeadLettered(k).pc = "dead" /\ DeadLettered(k).task \in Tasks
  BY DEF DeadLettered, Copy
<1>2. ASSUME k.deliveries < DeliveryLimit
      PROVE  /\ Redelivered(k) \in Copy
             /\ Redelivered(k).pc = "queued"
             /\ Redelivered(k).task \in Tasks
  <2>1. k.deliveries + 1 \in 0..DeliveryLimit
    BY <1>2 DEF Copy
  <2> QED
    BY <2>1 DEF Redelivered, Copy
<1> QED
  BY <1>1, <1>2

LEMMA GoType ==
    ASSUME CopiesOK, NEW c \in Copies, copy[c].pc # "free",
           NEW pc \in {"claim", "get", "send", "mark", "retry", "ack"},
           pc = "retry" => copy[c].retries < MaxRetries,
           Go(c, pc)
    PROVE  CopiesOK'
<1> DEFINE k == [copy[c] EXCEPT !.pc = pc]
<1>1. k \in Copy /\ k.task \in Tasks /\ k.pc = pc
  BY DEF CopiesOK, Copy, Running, Body
<1>2. copy' = [copy EXCEPT ![c] = k]
  BY DEF Go, CopiesOK
<1> QED
  BY <1>1, <1>2 DEF CopiesOK

LEMMA EndType ==
    ASSUME CopiesOK, NEW c \in Copies, copy[c].pc \in Running,
           NEW out \in Outcome, End(c, out)
    PROVE  CopiesOK'
<1> DEFINE k == [copy[c] EXCEPT !.pc = "store", !.out = out]
<1>1. k \in Copy /\ k.task \in Tasks /\ k.out = out
  BY DEF CopiesOK, Copy, Running, Body
<1>2. copy' = [copy EXCEPT ![c] = k]
  BY DEF End, CopiesOK
<1> QED
  BY <1>1, <1>2 DEF CopiesOK

-----------------------------------------------------------------------------
(* What the actions that write whole copies do to them.                    *)

LEMMA PublishShape ==
    ASSUME copy \in [Copies -> Copy], NEW c \in Copies, NEW new \in Copies,
           PublishRetry(c, new)
    PROVE  /\ copy[c].pc = "retry" /\ copy[new].pc = "free" /\ c # new
           /\ copy'[c] = [copy[c] EXCEPT !.pc = "ack"]
           /\ copy'[c].pc = "ack" /\ copy'[c].timer = copy[c].timer
           /\ copy'[new] = NewCopy(copy[c].task, copy[c].retries + 1,
                                   RetryDelay)
           /\ copy'[new].pc = "queued"
           /\ \A e \in Copies \ {c, new} : copy'[e] = copy[e]
<1>1. copy[c].pc = "retry" /\ copy[new].pc = "free" /\ c # new
  BY DEF PublishRetry, At
<1>2. copy' = [copy EXCEPT
                 ![c].pc = "ack",
                 ![new] = NewCopy(copy[c].task, copy[c].retries + 1,
                                  RetryDelay)]
  BY DEF PublishRetry
<1>3. NewCopy(copy[c].task, copy[c].retries + 1, RetryDelay).pc = "queued"
  BY DEF NewCopy
<1>4. /\ copy'[c] = [copy[c] EXCEPT !.pc = "ack"]
      /\ copy'[new] = NewCopy(copy[c].task, copy[c].retries + 1, RetryDelay)
      /\ \A e \in Copies \ {c, new} : copy'[e] = copy[e]
  BY <1>1, <1>2
<1>5. copy'[c].pc = "ack" /\ copy'[c].timer = copy[c].timer
  BY <1>4 DEF Copy
<1> QED
  BY <1>1, <1>3, <1>4, <1>5

LEMMA LoseShape ==
    ASSUME copy \in [Copies -> Copy], NEW c \in Copies, Lose(c)
    PROVE  /\ copy'[c].pc \in {"queued", "dead"}
           /\ \A e \in Copies \ {c} : copy'[e] = copy[e]
<1>1. \/ copy' = [copy EXCEPT ![c] = Redelivered(copy[c])]
      \/ copy' = [copy EXCEPT ![c] = DeadLettered(copy[c])]
  BY DEF Lose
<1>2. /\ Redelivered(copy[c]).pc = "queued"
      /\ DeadLettered(copy[c]).pc = "dead"
  BY DEF Redelivered, DeadLettered, Copy
<1> QED
  BY <1>1, <1>2

-----------------------------------------------------------------------------
LEMMA TypeStep == TypeOK /\ [Next]_vars => TypeOK'
<1> SUFFICES ASSUME TypeOK, [Next]_vars PROVE TypeOK'
  OBVIOUS
<1> USE DEF TypeOK, CopiesOK, KeyState, Copy, Outcome, Running, Body, At
<1>1. ASSUME NEW c \in Copies, Start(c) PROVE TypeOK'
  BY <1>1 DEF Start, Go
<1>2. ASSUME NEW c \in Copies, Claim(c) PROVE TypeOK'
  BY <1>2 DEF Claim, Go
<1>3. ASSUME NEW c \in Copies, Get(c) PROVE TypeOK'
  <2>1. CASE key = "sent"
    BY <1>3, <2>1, EndType DEF Get
  <2>2. CASE key # "sent" /\ copy[c].retries < MaxRetries
    <3>1. Go(c, "retry") /\ contended' = TRUE
      BY <1>3, <2>2 DEF Get
    <3>2. copy[c].pc # "free"
      BY <1>3 DEF Get
    <3>3. CopiesOK'
      BY <2>2, <3>1, <3>2, GoType
    <3> QED
      BY <1>3, <3>1, <3>3 DEF Get
  <2>3. CASE key # "sent" /\ ~(copy[c].retries < MaxRetries)
    BY <1>3, <2>3, EndType DEF Get
  <2> QED
    BY <2>1, <2>2, <2>3
<1>4. ASSUME NEW c \in Copies, SendEmail(c) PROVE TypeOK'
  BY <1>4 DEF SendEmail, Go
<1>5. ASSUME NEW c \in Copies, MarkSent(c) PROVE TypeOK'
  BY <1>5, EndType DEF MarkSent
<1>6. ASSUME NEW c \in Copies, NEW new \in Copies, PublishRetry(c, new)
      PROVE  TypeOK'
  <2> DEFINE k == NewCopy(copy[c].task, copy[c].retries + 1, RetryDelay)
  <2>1. copy[c].task \in Tasks /\ copy[c].retries \in 0..MaxRetries
    BY <1>6 DEF PublishRetry
  <2>2. /\ k \in Copy /\ k.pc = "queued" /\ k.task \in Tasks
    <3>1. copy[c].retries + 1 \in 0..MaxRetries
      BY <1>6, <2>1 DEF PublishRetry
    <3>2. RetryDelay \in Nat
      OBVIOUS
    <3> HIDE DEF Copy
    <3>3. /\ k \in Copy /\ k.pc = "queued" /\ k.task = copy[c].task
      BY <2>1, <3>1, <3>2, NewCopyType
    <3> QED
      BY <2>1, <3>3
  <2>3. c # new
    BY <1>6 DEF PublishRetry
  <2>4. copy' = [copy EXCEPT ![c].pc = "ack", ![new] = k]
    BY <1>6 DEF PublishRetry
  <2>5. [copy[c] EXCEPT !.pc = "ack"] \in Copy
    OBVIOUS
  <2>6. CopiesOK'
    BY <2>1, <2>2, <2>3, <2>4, <2>5
  <2> QED
    BY <1>6, <2>6 DEF PublishRetry
<1>7. ASSUME NEW c \in Copies, Store(c) PROVE TypeOK'
  BY <1>7 DEF Store, Record, Go
<1>8. ASSUME NEW c \in Copies, Ack(c) PROVE TypeOK'
  BY <1>8 DEF Ack, Free
<1>9. ASSUME NEW c \in Copies, Drop(c) PROVE TypeOK'
  BY <1>9 DEF Drop, Free
<1>10. ASSUME NEW c \in Copies, Lose(c) PROVE TypeOK'
  <2>1. copy[c] \in Copy /\ copy[c].task \in Tasks
    BY <1>10 DEF Lose
  <2>2. CASE /\ copy[c].deliveries < DeliveryLimit
             /\ copy' = [copy EXCEPT ![c] = Redelivered(copy[c])]
    BY <1>10, <2>1, <2>2, LostType DEF Lose
  <2>3. CASE copy' = [copy EXCEPT ![c] = DeadLettered(copy[c])]
    BY <1>10, <2>1, <2>3, LostType DEF Lose
  <2> QED
    BY <1>10, <2>2, <2>3 DEF Lose
<1>11. ASSUME NEW c \in Copies, SoftLimit(c) PROVE TypeOK'
  BY <1>11, EndType DEF SoftLimit
<1>12. ASSUME NEW c \in Copies, HardLimit(c) PROVE TypeOK'
  BY <1>12 DEF HardLimit, Record, Free
<1>13. CASE Tick
  <2>1. ASSUME NEW c \in Copies
        PROVE  LET k == Aged(copy[c])
               IN  /\ k \in Copy /\ k.pc = copy[c].pc
                   /\ k.task = copy[c].task /\ k.out = copy[c].out
                   /\ k.retries = copy[c].retries
    <3>1. CASE copy[c].pc = "queued"
      BY <3>1 DEF Aged
    <3>2. CASE copy[c].pc \in Running
      BY <3>2 DEF Aged
    <3>3. CASE copy[c].pc \in {"free", "dead"}
      BY <3>3 DEF Aged
    <3> QED
      BY <3>1, <3>2, <3>3
  <2>2. copy' = [c \in Copies |-> Aged(copy[c])]
    BY <1>13 DEF Tick
  <2>3. CopiesOK'
    <3> HIDE DEF Copy, Running, Body, Outcome
    <3> QED
      BY <2>1, <2>2
  <2>4. ttl' \in 0..TTL /\ key' \in KeyState
    BY <1>13 DEF Tick
  <2> QED
    BY <1>13, <2>3, <2>4 DEF Tick
<1>14. CASE Rest \/ UNCHANGED vars
  BY <1>14 DEF Rest, vars
<1>15. ASSUME NEW c \in Copies, Progress(c) PROVE TypeOK'
  BY <1>1, <1>2, <1>3, <1>4, <1>5, <1>6, <1>7, <1>8, <1>9, <1>15
     DEF Progress
<1> QED
  BY <1>10, <1>11, <1>12, <1>13, <1>14, <1>15 DEF Next

(* Every variable keeps its type.                                          *)
THEOREM TypeCorrect == Spec => []TypeOK
<1>1. Init => TypeOK
  <2> SUFFICES ASSUME Init PROVE TypeOK
    OBVIOUS
  <2>1. copy = [c \in Copies |->
                  IF \E t \in Tasks : FirstCopy[t] = c
                  THEN NewCopy(CHOOSE t \in Tasks : FirstCopy[t] = c, 0, 0)
                  ELSE Free]
    BY DEF Init
  <2>2. ASSUME NEW c \in Copies
        PROVE  /\ copy[c] \in Copy
               /\ copy[c].pc # "free" => copy[c].task \in Tasks
               /\ copy[c].pc \notin {"store", "retry"}
    <3>1. CASE \E t \in Tasks : FirstCopy[t] = c
      BY <2>1, <3>1, NewCopyType
    <3>2. CASE ~ \E t \in Tasks : FirstCopy[t] = c
      BY <2>1, <3>2, FreeType
    <3> QED
      BY <3>1, <3>2
  <2>3. CopiesOK
    BY <2>1, <2>2 DEF CopiesOK
  <2> QED
    <3>1. /\ key = "absent" /\ ttl = 0 /\ sends = 0 /\ contended = FALSE
          /\ losses = 0 /\ limits = 0
          /\ result = [t \in Tasks |-> "none"]
      BY DEF Init
    <3>2. ttl \in 0..TTL /\ sends \in Nat /\ losses \in Nat /\ limits \in Nat
      BY <3>1
    <3>3. /\ key \in KeyState
          /\ result \in [Tasks -> Outcome \cup {"none"}]
      BY <3>1 DEF KeyState
    <3>4. contended \in BOOLEAN
      BY <3>1
    <3> QED
      BY <2>3, <3>2, <3>3, <3>4 DEF TypeOK
<1> QED
  BY <1>1, TypeStep, PTL DEF Spec

-----------------------------------------------------------------------------
(* Why a claim cannot expire under its holder: what is left of the TTL and *)
(* the holder's age never add up to less than the TTL.                     *)
ClaimInv ==
    /\ \A c \in Copies : copy[c].pc \in Running => copy[c].timer <= RunTime
    /\ \A c \in Copies :
         Holding(c) => key = "not_sent" /\ ttl + copy[c].timer >= TTL
    /\ \A c, e \in Copies : Holding(c) /\ Holding(e) => c = e
    /\ key = "sent" => ttl = 0

(* A step of one copy that takes it to a place outside the critical        *)
(* section, or further within it, and leaves the key alone.                *)
LEMMA QuietStep ==
    ASSUME RunTime < TTL, TypeOK, ClaimInv, UNCHANGED <<key, ttl>>,
           NEW c \in Copies, copy' \in [Copies -> Copy],
           \A e \in Copies \ {c} : copy'[e] = copy[e],
           \/ copy'[c].pc \notin Running
           \/ copy'[c].pc \in Running /\ copy[c].pc = "queued"
              /\ copy'[c].timer = 0 /\ ~Holding(c)'
           \/ copy'[c].pc \in Running /\ copy[c].pc \in Running
              /\ copy'[c].timer = copy[c].timer
              /\ (Holding(c)' => Holding(c))
    PROVE  ClaimInv'
<1>1. ASSUME NEW e \in Copies, copy'[e].pc \in Running
      PROVE  copy'[e].timer <= RunTime
  BY <1>1 DEF ClaimInv
<1>2. ASSUME NEW e \in Copies, Holding(e)'
      PROVE  Holding(e) /\ copy'[e].timer = copy[e].timer
  BY <1>2 DEF Holding, Running, Body
<1> QED
  BY <1>1, <1>2 DEF ClaimInv

LEMMA ClaimInvStep ==
    ASSUME RunTime < TTL, TypeOK, TypeOK', ClaimInv, [Next]_vars
    PROVE  ClaimInv'
<1> USE DEF At
<1>0. copy \in [Copies -> Copy] /\ copy' \in [Copies -> Copy]
  BY DEF TypeOK, CopiesOK
<1>1. ASSUME NEW c \in Copies, Start(c) PROVE ClaimInv'
  <2>1. /\ copy'[c].pc = "claim" /\ copy'[c].timer = 0
        /\ \A e \in Copies \ {c} : copy'[e] = copy[e]
    BY <1>0, <1>1 DEF Start, Go, Copy
  <2> QED
    BY <1>0, <1>1, <2>1, QuietStep DEF Start, Holding, Running, Body
<1>2. ASSUME NEW c \in Copies, Claim(c) PROVE ClaimInv'
  <2>1. CASE key = "absent"
    <3>1. /\ copy' = [copy EXCEPT ![c].pc = "send"]
          /\ key' = "not_sent" /\ ttl' = TTL
      BY <1>2, <2>1 DEF Claim, Go
    <3>2. \A e \in Copies : ~Holding(e)
      BY <2>1 DEF ClaimInv
    <3>3. /\ copy'[c].pc = "send" /\ copy'[c].timer = copy[c].timer
          /\ \A e \in Copies \ {c} : copy'[e] = copy[e]
      BY <1>0, <3>1 DEF Copy
    <3>4. copy[c].pc \in Running /\ copy[c].timer \in Nat
      BY <1>0, <1>2 DEF Claim, Running, Body, Copy
    <3>5. \A e \in Copies : copy'[e].pc \in Running => copy'[e].timer <= RunTime
      BY <3>3, <3>4 DEF ClaimInv
    <3>6. \A e \in Copies : Holding(e)' => e = c
      BY <3>2, <3>3 DEF Holding
    <3> QED
      BY <3>1, <3>3, <3>4, <3>5, <3>6 DEF ClaimInv
  <2>2. CASE key # "absent"
    <3>1. /\ copy' = [copy EXCEPT ![c].pc = "get"]
          /\ UNCHANGED <<key, ttl>>
      BY <1>2, <2>2 DEF Claim, Go
    <3>2. /\ copy'[c].pc = "get" /\ copy'[c].timer = copy[c].timer
          /\ \A e \in Copies \ {c} : copy'[e] = copy[e]
      BY <1>0, <3>1 DEF Copy
    <3> QED
      BY <1>0, <1>2, <3>1, <3>2, QuietStep DEF Claim, Holding, Running, Body
  <2> QED
    BY <2>1, <2>2
<1>3. ASSUME NEW c \in Copies, Get(c) PROVE ClaimInv'
  <2>1. /\ copy'[c].pc \in {"store", "retry"}
        /\ copy'[c].timer = copy[c].timer
        /\ \A e \in Copies \ {c} : copy'[e] = copy[e]
    BY <1>0, <1>3 DEF Get, Go, End, Copy
  <2> QED
    BY <1>0, <1>3, <2>1, QuietStep DEF Get, Holding, Running, Body
<1>4. ASSUME NEW c \in Copies, SendEmail(c) PROVE ClaimInv'
  <2>1. /\ copy'[c].pc = "mark" /\ copy'[c].timer = copy[c].timer
        /\ \A e \in Copies \ {c} : copy'[e] = copy[e]
    BY <1>0, <1>4 DEF SendEmail, Go, Copy
  <2> QED
    BY <1>0, <1>4, <2>1, QuietStep DEF SendEmail, Holding, Running, Body
<1>5. ASSUME NEW c \in Copies, MarkSent(c) PROVE ClaimInv'
  <2>1. /\ copy'[c].pc = "store" /\ copy'[c].timer = copy[c].timer
        /\ \A e \in Copies \ {c} : copy'[e] = copy[e]
        /\ key' = "sent" /\ ttl' = 0
    BY <1>0, <1>5 DEF MarkSent, End, Copy
  <2>2. Holding(c) /\ copy[c].pc \in Running
    BY <1>5 DEF MarkSent, Holding, Running, Body
  <2>3. \A e \in Copies : ~Holding(e)'
    BY <2>1, <2>2 DEF ClaimInv, Holding
  <2> QED
    BY <2>1, <2>2, <2>3 DEF ClaimInv
<1>6. ASSUME NEW c \in Copies, NEW new \in Copies, PublishRetry(c, new)
      PROVE  ClaimInv'
  <2>1. /\ copy'[c].pc = "ack" /\ copy'[c].timer = copy[c].timer
        /\ copy'[new].pc = "queued"
        /\ \A e \in Copies \ {c, new} : copy'[e] = copy[e]
    BY <1>0, <1>6, PublishShape
  <2>2. UNCHANGED <<key, ttl>> /\ copy[c].pc = "retry"
    BY <1>6 DEF PublishRetry
  <2>3. ASSUME NEW e \in Copies, copy'[e].pc \in Running
        PROVE  copy[e].pc \in Running /\ copy'[e].timer = copy[e].timer
    BY <2>1, <2>2, <2>3 DEF Running, Body
  <2>4. ASSUME NEW e \in Copies, Holding(e)'
        PROVE  Holding(e) /\ copy'[e].timer = copy[e].timer
    BY <2>1, <2>4 DEF Holding
  <2> QED
    BY <2>2, <2>3, <2>4 DEF ClaimInv
<1>7. ASSUME NEW c \in Copies, Store(c) PROVE ClaimInv'
  <2>1. /\ copy'[c].pc = "ack" /\ copy'[c].timer = copy[c].timer
        /\ \A e \in Copies \ {c} : copy'[e] = copy[e]
    BY <1>0, <1>7 DEF Store, Go, Copy
  <2> QED
    BY <1>0, <1>7, <2>1, QuietStep DEF Store, Holding, Running, Body
<1>8. ASSUME NEW c \in Copies, UNCHANGED <<key, ttl>>,
             copy'[c].pc \notin Running,
             \A e \in Copies \ {c} : copy'[e] = copy[e]
      PROVE  ClaimInv'
  BY <1>0, <1>8, QuietStep
<1>9. ASSUME NEW c \in Copies, Ack(c) \/ Drop(c) \/ HardLimit(c)
      PROVE  ClaimInv'
  <2>1. copy' = [copy EXCEPT ![c] = Free] /\ UNCHANGED <<key, ttl>>
    BY <1>9 DEF Ack, Drop, HardLimit
  <2> QED
    BY <1>0, <1>8, <2>1 DEF Free, Running, Body
<1>10. ASSUME NEW c \in Copies, Lose(c) PROVE ClaimInv'
  <2>1. /\ copy'[c].pc \in {"queued", "dead"}
        /\ \A e \in Copies \ {c} : copy'[e] = copy[e]
    BY <1>0, <1>10, LoseShape
  <2> QED
    BY <1>8, <1>10, <2>1 DEF Lose, Running, Body
<1>11. ASSUME NEW c \in Copies, SoftLimit(c) PROVE ClaimInv'
  <2>1. /\ copy'[c].pc = "store" /\ copy'[c].timer = copy[c].timer
        /\ \A e \in Copies \ {c} : copy'[e] = copy[e]
    BY <1>0, <1>11 DEF SoftLimit, End, Copy
  <2> QED
    BY <1>0, <1>11, <2>1, QuietStep DEF SoftLimit, Holding, Running, Body
<1>12. CASE Tick
  <2>1. ASSUME NEW e \in Copies
        PROVE  /\ copy'[e].pc = copy[e].pc
               /\ copy[e].pc \in Running =>
                    /\ copy'[e].timer = copy[e].timer + 1
                    /\ copy[e].timer < RunTime
                    /\ copy[e].timer \in Nat
    BY <1>0, <1>12 DEF Tick, Aged, Copy, Running, Body
  <2>2. /\ ttl \in Nat
        /\ ttl' = IF ttl = 0 THEN 0 ELSE ttl - 1
        /\ key' = IF ttl = 1 THEN "absent" ELSE key
    BY <1>12 DEF Tick, TypeOK
  <2>3. ASSUME NEW e \in Copies, Holding(e)'
        PROVE  key' = "not_sent" /\ ttl' + copy'[e].timer >= TTL
    <3>1. Holding(e) /\ copy[e].pc \in Running
      BY <2>1, <2>3 DEF Holding, Running, Body
    <3>2. key = "not_sent" /\ ttl + copy[e].timer >= TTL
      BY <3>1 DEF ClaimInv
    <3>3. ttl > 1
      BY <2>1, <2>2, <3>1, <3>2
    <3> QED
      BY <2>1, <2>2, <3>1, <3>2, <3>3
  <2>4. \A e \in Copies : copy'[e].pc \in Running => copy'[e].timer <= RunTime
    BY <2>1
  <2>5. \A e \in Copies : Holding(e)' => Holding(e)
    BY <2>1 DEF Holding
  <2>6. key' = "sent" => ttl' = 0
    BY <2>2 DEF ClaimInv
  <2> QED
    BY <2>3, <2>4, <2>5, <2>6 DEF ClaimInv
<1>13. CASE Rest \/ UNCHANGED vars
  BY <1>13 DEF Rest, vars, ClaimInv, Holding
<1> QED
  BY <1>1, <1>2, <1>3, <1>4, <1>5, <1>6, <1>7, <1>9, <1>10, <1>11, <1>12,
     <1>13 DEF Next, Progress

-----------------------------------------------------------------------------
Inv == TypeOK /\ (RunTime < TTL => ClaimInv)

LEMMA ClaimInvInit == Init => ClaimInv
<1> SUFFICES ASSUME Init PROVE ClaimInv
  OBVIOUS
<1>1. \A c \in Copies : copy[c].pc \in {"queued", "free"}
  BY DEF Init, NewCopy, Free
<1>2. key = "absent"
  BY DEF Init
<1> QED
  BY <1>1, <1>2 DEF ClaimInv, Holding, Running, Body

(* The typing and the claim invariant together are inductive.              *)
LEMMA Invariance == Spec => []Inv
<1>1. Init => (RunTime < TTL => ClaimInv)
  BY ClaimInvInit
<1>2. TypeOK /\ TypeOK' /\ (RunTime < TTL => ClaimInv) /\ [Next]_vars
        => (RunTime < TTL => ClaimInv)'
  BY ClaimInvStep
<1> QED
  BY <1>1, <1>2, TypeCorrect, PTL DEF Spec, Inv

(* At most one notify is between its claim and its mark, and the key is    *)
(* its own, if no execution outlives the TTL.                              *)
THEOREM Exclusion == Spec => []MutualExclusion
<1>1. Inv => MutualExclusion
  BY DEF Inv, ClaimInv, MutualExclusion
<1> QED
  BY <1>1, Invariance, PTL

(* Once the key says sent, it says so for ever and nothing is sent.        *)
THEOREM SentStays == Spec => SentIsTerminal
<1> DEFINE A == RunTime < TTL /\ key = "sent" => key' = "sent" /\ sends' = sends
<1>1. ASSUME Inv, [Next]_vars PROVE A
  <2> SUFFICES ASSUME RunTime < TTL, key = "sent"
               PROVE  key' = "sent" /\ sends' = sends
    OBVIOUS
  <2>1. ttl = 0 /\ \A c \in Copies : ~Holding(c)
    BY <1>1 DEF Inv, ClaimInv
  <2>2. ASSUME NEW c \in Copies,
               Progress(c) \/ Lose(c) \/ SoftLimit(c) \/ HardLimit(c)
        PROVE  key' = "sent" /\ sends' = sends
    <3>1. ~SendEmail(c)
      BY <2>1 DEF SendEmail, At, Holding
    <3> QED
      BY <2>2, <3>1 DEF Progress, Start, Claim, Get, MarkSent, PublishRetry,
         Store, Ack, Drop, Lose, SoftLimit, HardLimit
  <2>3. CASE Tick
    BY <2>1, <2>3 DEF Tick
  <2>4. CASE Rest \/ UNCHANGED vars
    BY <2>4 DEF Rest, vars
  <2> QED
    BY <1>1, <2>2, <2>3, <2>4 DEF Next
<1>2. Inv /\ [Next]_vars => [A]_vars
  BY <1>1
<1> QED
  BY <1>2, Invariance, PTL DEF Spec, SentIsTerminal

-----------------------------------------------------------------------------
(* How often the e-mail is sent: once for the key to say sent, or to be    *)
(* about to, and otherwise only for executions that were cut short.        *)
Spent == key = "sent" \/ \E c \in Copies : At(c, "mark")

SendsInv == sends <= losses + limits + (IF Spent THEN 1 ELSE 0)

LEMMA SendsInvStep ==
    ASSUME RunTime < TTL, TypeOK, ClaimInv, SendsInv, [Next]_vars
    PROVE  SendsInv'
<1>0. copy \in [Copies -> Copy] /\ sends \in Nat /\ losses \in Nat /\ limits \in Nat
  BY DEF TypeOK, CopiesOK
<1>1. ASSUME NEW c \in Copies, SendEmail(c) PROVE SendsInv'
  <2>1. Holding(c) /\ At(c, "send")
    BY <1>1 DEF SendEmail, At, Holding
  <2>2. ~Spent
    BY <2>1 DEF Spent, ClaimInv, Holding, At
  <2>3. At(c, "mark")'
    BY <1>0, <1>1 DEF SendEmail, Go, At, Copy
  <2>4. Spent'
    BY <2>3 DEF Spent
  <2>5. sends' = sends + 1 /\ losses' = losses /\ limits' = limits
    BY <1>1 DEF SendEmail
  <2> QED
    BY <1>0, <2>2, <2>4, <2>5 DEF SendsInv
<1>2. ASSUME UNCHANGED <<sends, losses, limits>>, Spent => Spent'
      PROVE  SendsInv'
  BY <1>0, <1>2 DEF SendsInv
<1>3. ASSUME sends' = sends, losses' + limits' = losses + limits + 1
      PROVE  SendsInv'
  BY <1>0, <1>3 DEF SendsInv
<1>4. ASSUME NEW c \in Copies, MarkSent(c) PROVE SendsInv'
  BY <1>2, <1>4 DEF MarkSent, Spent
<1>5. ASSUME NEW c \in Copies, Lose(c) \/ SoftLimit(c) \/ HardLimit(c)
      PROVE  SendsInv'
  <2>1. sends' = sends
    BY <1>5 DEF Lose, SoftLimit, HardLimit
  <2>2. losses' + limits' = losses + limits + 1
    BY <1>0, <1>5 DEF Lose, SoftLimit, HardLimit
  <2> QED
    BY <1>3, <2>1, <2>2
<1>6. ASSUME UNCHANGED <<sends, losses, limits>>, key = "sent" => key' = "sent",
             \A e \in Copies : At(e, "mark") => At(e, "mark")'
      PROVE  SendsInv'
  BY <1>2, <1>6 DEF Spent
<1>7. ASSUME NEW c \in Copies, Start(c) \/ Claim(c) \/ Get(c) \/ Store(c)
      PROVE  SendsInv'
  <2>1. \A e \in Copies \ {c} : copy'[e] = copy[e]
    BY <1>0, <1>7 DEF Start, Claim, Get, Store, Go, End
  <2>2. ~At(c, "mark")
    BY <1>7 DEF Start, Claim, Get, Store, At
  <2>3. /\ UNCHANGED <<sends, losses, limits>>
        /\ key = "sent" => key' = "sent"
    BY <1>7 DEF Start, Claim, Get, Store
  <2> QED
    BY <1>6, <2>1, <2>2, <2>3 DEF At
<1>8. ASSUME NEW c \in Copies, Ack(c) \/ Drop(c) PROVE SendsInv'
  BY <1>0, <1>6, <1>8 DEF Ack, Drop, At
<1>9. ASSUME NEW c \in Copies, NEW new \in Copies, PublishRetry(c, new)
      PROVE  SendsInv'
  <2>1. /\ UNCHANGED <<key, sends, losses, limits>>
        /\ ~At(c, "mark") /\ ~At(new, "mark")
    BY <1>9 DEF PublishRetry, At
  <2>2. \A e \in Copies \ {c, new} : copy'[e] = copy[e]
    BY <1>0, <1>9 DEF PublishRetry
  <2> QED
    BY <1>6, <2>1, <2>2 DEF At
<1>10. CASE Tick
  <2>1. \A e \in Copies : copy'[e].pc = copy[e].pc
    BY <1>0, <1>10 DEF Tick, Aged, Copy
  <2>2. UNCHANGED <<sends, losses, limits>> /\ (key = "sent" => key' = "sent")
    BY <1>10 DEF Tick, ClaimInv
  <2> QED
    BY <1>6, <2>1, <2>2 DEF At
<1>11. CASE Rest \/ UNCHANGED vars
  BY <1>6, <1>11 DEF Rest, vars, At
<1> QED
  BY <1>1, <1>4, <1>5, <1>7, <1>8, <1>9, <1>10, <1>11 DEF Next, Progress

(* The e-mail is sent once, and once more at most for each execution that  *)
(* a crash or a time limit cut short.                                      *)
THEOREM SendsAreBounded == Spec => []SendsBounded
<1>1. Init => (RunTime < TTL => SendsInv)
  BY DEF Init, SendsInv
<1>2. Inv /\ (RunTime < TTL => SendsInv) /\ [Next]_vars
        => (RunTime < TTL => SendsInv)'
  BY SendsInvStep DEF Inv
<1>3. Inv /\ (RunTime < TTL => SendsInv) => SendsBounded
  BY DEF Inv, TypeOK, SendsInv, SendsBounded
<1> QED
  BY <1>1, <1>2, <1>3, Invariance, PTL DEF Spec

-----------------------------------------------------------------------------
(* What the results say.  Before the first e-mail nothing says that one    *)
(* was sent: not the key, not an execution on its way to a result, not a   *)
(* result.                                                                 *)
Says(c, out) == At(c, "store") /\ copy[c].out = out

Silent ==
    /\ key # "sent"
    /\ \A c \in Copies :
         ~At(c, "mark") /\ ~Says(c, "sent") /\ ~Says(c, "skipped")
    /\ \A t \in Tasks : result[t] \notin {"sent", "skipped"}

SentInv == sends >= 1 \/ Silent

LEMMA SentInvStep ==
    ASSUME TypeOK, SentInv, [Next]_vars
    PROVE  SentInv'
<1>0. copy \in [Copies -> Copy] /\ sends \in Nat
      /\ result \in [Tasks -> Outcome \cup {"none"}]
  BY DEF TypeOK, CopiesOK
<1>1. ASSUME sends' = sends, Silent => Silent' PROVE SentInv'
  BY <1>1 DEF SentInv
<1>2. ASSUME NEW c \in Copies, SendEmail(c) PROVE SentInv'
  BY <1>0, <1>2 DEF SendEmail, SentInv
<1>3. ASSUME NEW c \in Copies, MarkSent(c) PROVE SentInv'
  BY <1>1, <1>3 DEF MarkSent, Silent
<1>4. ASSUME sends' = sends, key' = "sent" => key = "sent", result' = result,
             NEW c \in Copies, \A e \in Copies \ {c} : copy'[e] = copy[e],
             ~At(c, "mark")',
             Silent => ~Says(c, "sent")' /\ ~Says(c, "skipped")'
      PROVE  SentInv'
  <2>1. ASSUME Silent PROVE Silent'
    <3>1. ASSUME NEW e \in Copies
          PROVE  (~At(e, "mark") /\ ~Says(e, "sent") /\ ~Says(e, "skipped"))'
      BY <1>4, <2>1 DEF Silent, Says, At
    <3> QED
      BY <1>4, <2>1, <3>1 DEF Silent
  <2> QED
    BY <1>1, <1>4, <2>1
<1>5. ASSUME NEW c \in Copies, Start(c) \/ Claim(c) PROVE SentInv'
  <2>1. /\ copy'[c].pc \in {"claim", "send", "get"}
        /\ \A e \in Copies \ {c} : copy'[e] = copy[e]
        /\ sends' = sends /\ (key' = "sent" => key = "sent")
        /\ result' = result
    BY <1>0, <1>5 DEF Start, Claim, Go, Copy
  <2> QED
    BY <1>4, <2>1 DEF Says, At
<1>6. ASSUME NEW c \in Copies, Get(c) PROVE SentInv'
  <2>1. /\ copy'[c].pc \in {"store", "retry"}
        /\ \A e \in Copies \ {c} : copy'[e] = copy[e]
        /\ sends' = sends /\ key' = key /\ result' = result
    BY <1>0, <1>6 DEF Get, Go, End, Copy
  <2>2. key # "sent" => ~Says(c, "sent")' /\ ~Says(c, "skipped")'
    BY <1>0, <1>6 DEF Get, Go, End, Copy, Says, At
  <2> QED
    BY <1>4, <2>1, <2>2 DEF At, Silent
<1>7. ASSUME NEW c \in Copies, NEW new \in Copies, PublishRetry(c, new)
      PROVE  SentInv'
  <2>1. /\ copy'[c].pc = "ack"
        /\ copy'[new].pc = "queued"
        /\ \A e \in Copies \ {c, new} : copy'[e] = copy[e]
    BY <1>0, <1>7, PublishShape
  <2>2. UNCHANGED <<key, result, sends>>
    BY <1>7 DEF PublishRetry
  <2>3. ASSUME Silent PROVE Silent'
    <3>1. ASSUME NEW e \in Copies
          PROVE  (~At(e, "mark") /\ ~Says(e, "sent") /\ ~Says(e, "skipped"))'
      BY <2>1, <2>3 DEF Silent, Says, At
    <3> QED
      BY <2>2, <2>3, <3>1 DEF Silent
  <2> QED
    BY <1>1, <2>2, <2>3
<1>8. ASSUME NEW c \in Copies, Store(c) PROVE SentInv'
  <2>1. /\ copy'[c].pc = "ack"
        /\ \A e \in Copies \ {c} : copy'[e] = copy[e]
        /\ sends' = sends /\ key' = key
    BY <1>0, <1>8 DEF Store, Go, Copy
  <2>2. ASSUME Silent PROVE Silent'
    <3>1. copy[c].out \notin {"sent", "skipped"}
      BY <1>8, <2>2 DEF Store, Silent, Says
    <3>2. \A t \in Tasks : result'[t] \notin {"sent", "skipped"}
      BY <1>0, <1>8, <2>2, <3>1 DEF Store, Record, Silent
    <3>3. ASSUME NEW e \in Copies
          PROVE  (~At(e, "mark") /\ ~Says(e, "sent") /\ ~Says(e, "skipped"))'
      BY <2>1, <2>2 DEF Silent, Says, At
    <3> QED
      BY <2>1, <2>2, <3>2, <3>3 DEF Silent
  <2> QED
    BY <1>1, <2>1, <2>2
<1>9. ASSUME NEW c \in Copies, Ack(c) \/ Drop(c) PROVE SentInv'
  <2>1. /\ copy'[c].pc = "free"
        /\ \A e \in Copies \ {c} : copy'[e] = copy[e]
        /\ sends' = sends /\ key' = key /\ result' = result
    BY <1>0, <1>9 DEF Ack, Drop, Free
  <2> QED
    BY <1>4, <2>1 DEF Says, At
<1>10. ASSUME NEW c \in Copies, HardLimit(c) PROVE SentInv'
  <2>1. /\ copy'[c].pc = "free"
        /\ \A e \in Copies \ {c} : copy'[e] = copy[e]
        /\ sends' = sends /\ key' = key
    BY <1>0, <1>10 DEF HardLimit, Free
  <2>2. ASSUME Silent PROVE Silent'
    <3>1. \A t \in Tasks : result'[t] \notin {"sent", "skipped"}
      BY <1>0, <1>10, <2>2 DEF HardLimit, Record, Silent
    <3>2. ASSUME NEW e \in Copies
          PROVE  (~At(e, "mark") /\ ~Says(e, "sent") /\ ~Says(e, "skipped"))'
      BY <2>1, <2>2 DEF Silent, Says, At
    <3> QED
      BY <2>1, <2>2, <3>1, <3>2 DEF Silent
  <2> QED
    BY <1>1, <2>1, <2>2
<1>11. ASSUME NEW c \in Copies, Lose(c) PROVE SentInv'
  <2>1. /\ copy'[c].pc \in {"queued", "dead"}
        /\ \A e \in Copies \ {c} : copy'[e] = copy[e]
    BY <1>0, <1>11, LoseShape
  <2>2. UNCHANGED <<key, result, sends>>
    BY <1>11 DEF Lose
  <2> QED
    BY <1>4, <2>1, <2>2 DEF Says, At
<1>12. ASSUME NEW c \in Copies, SoftLimit(c) PROVE SentInv'
  <2>1. /\ copy'[c].pc = "store" /\ copy'[c].out = "failed"
        /\ \A e \in Copies \ {c} : copy'[e] = copy[e]
        /\ UNCHANGED <<key, result, sends>>
    BY <1>0, <1>12 DEF SoftLimit, End, Copy
  <2> QED
    BY <1>4, <2>1 DEF Says, At
<1>13. CASE Tick
  <2>1. \A e \in Copies : /\ copy'[e].pc = copy[e].pc
                          /\ copy'[e].out = copy[e].out
    BY <1>0, <1>13 DEF Tick, Aged, Copy
  <2>2. /\ sends' = sends /\ result' = result
        /\ key' = "sent" => key = "sent"
    BY <1>13 DEF Tick
  <2> QED
    BY <1>1, <2>1, <2>2 DEF Silent, Says, At
<1>14. CASE Rest \/ UNCHANGED vars
  BY <1>1, <1>14 DEF Rest, vars, Silent, Says, At
<1> QED
  BY <1>2, <1>3, <1>5, <1>6, <1>7, <1>8, <1>9, <1>10, <1>11, <1>12, <1>13,
     <1>14 DEF Next, Progress

(* The right to say "I sent it" is a token: the mark that makes the key    *)
(* say sent creates it, and the key never stops saying so.                 *)
TokenInv ==
    /\ \A c \in Copies :
         Says(c, "sent") =>
             key = "sent" /\ \A t \in Tasks : result[t] # "sent"
    /\ \A c, e \in Copies : Says(c, "sent") /\ Says(e, "sent") => c = e
    /\ \A t \in Tasks : result[t] = "sent" => key = "sent"
    /\ \A t, u \in Tasks : result[t] = "sent" /\ result[u] = "sent" => t = u

LEMMA TokenInvStep ==
    ASSUME RunTime < TTL, TypeOK, ClaimInv, TokenInv, [Next]_vars
    PROVE  TokenInv'
<1>0. copy \in [Copies -> Copy]
      /\ result \in [Tasks -> Outcome \cup {"none"}]
      /\ \A c \in Copies : copy[c].pc # "free" => copy[c].task \in Tasks
  BY DEF TypeOK, CopiesOK
<1>1. ASSUME key = "sent" => key' = "sent",
             \A t \in Tasks : result'[t] = "sent" => result[t] = "sent",
             \A e \in Copies : Says(e, "sent")' => Says(e, "sent")
      PROVE  TokenInv'
  BY <1>1 DEF TokenInv
<1>2. ASSUME key = "sent" => key' = "sent", NEW c \in Copies,
             \A t \in Tasks : result'[t] = "sent" => result[t] = "sent",
             \A e \in Copies \ {c} : copy'[e] = copy[e], ~Says(c, "sent")'
      PROVE  TokenInv'
  BY <1>1, <1>2 DEF Says, At
<1>3. ASSUME NEW c \in Copies,
             \/ Start(c) \/ Claim(c) \/ Get(c) \/ SendEmail(c)
             \/ Ack(c) \/ Drop(c) \/ SoftLimit(c)
      PROVE  TokenInv'
  <2>1. \/ copy'[c].pc \in {"claim", "send", "get", "mark", "retry", "free"}
        \/ copy'[c].out \in {"skipped", "failed"}
    BY <1>0, <1>3 DEF Start, Claim, Get, SendEmail, Ack, Drop, SoftLimit, Go,
       End, Free, Copy
  <2>2. \A e \in Copies \ {c} : copy'[e] = copy[e]
    BY <1>0, <1>3 DEF Start, Claim, Get, SendEmail, Ack, Drop, SoftLimit, Go,
       End
  <2>3. result' = result /\ (key = "sent" => key' = "sent")
    BY <1>3 DEF Start, Claim, Get, SendEmail, Ack, Drop, SoftLimit
  <2> QED
    BY <1>2, <2>1, <2>2, <2>3 DEF Says, At
<1>4. ASSUME NEW c \in Copies, MarkSent(c) PROVE TokenInv'
  <2>1. key = "not_sent"
    BY <1>4 DEF MarkSent, ClaimInv, Holding, At
  <2>2. \A e \in Copies : ~Says(e, "sent")
    BY <2>1 DEF TokenInv
  <2>3. \A t \in Tasks : result'[t] # "sent"
    BY <1>4, <2>1 DEF TokenInv, MarkSent
  <2>4. key' = "sent" /\ \A e \in Copies \ {c} : copy'[e] = copy[e]
    BY <1>0, <1>4 DEF MarkSent, End
  <2>5. \A e \in Copies : Says(e, "sent")' => e = c
    BY <2>2, <2>4 DEF Says, At
  <2> QED
    BY <2>3, <2>4, <2>5 DEF TokenInv
<1>5. ASSUME NEW c \in Copies, NEW new \in Copies, PublishRetry(c, new)
      PROVE  TokenInv'
  <2>1. /\ copy'[c].pc = "ack"
        /\ copy'[new].pc = "queued"
        /\ \A e \in Copies \ {c, new} : copy'[e] = copy[e]
    BY <1>0, <1>5, PublishShape
  <2>2. UNCHANGED <<key, result>>
    BY <1>5 DEF PublishRetry
  <2>3. ASSUME NEW e \in Copies, Says(e, "sent")' PROVE Says(e, "sent")
    BY <2>1, <2>3 DEF Says, At
  <2> QED
    BY <1>1, <2>2, <2>3
<1>6. ASSUME NEW c \in Copies, Store(c) PROVE TokenInv'
  <2>1. copy'[c].pc = "ack" /\ \A e \in Copies \ {c} : copy'[e] = copy[e]
    BY <1>0, <1>6 DEF Store, Go, Copy
  <2>2. /\ key' = key
        /\ result' = [result EXCEPT ![copy[c].task] =
                         IF @ \in {"none", "timed_out"} THEN copy[c].out ELSE @]
    BY <1>6 DEF Store, Record
  <2>3. CASE copy[c].out # "sent"
    <3>1. \A t \in Tasks : result'[t] = "sent" => result[t] = "sent"
      BY <1>0, <2>2, <2>3
    <3> QED
      BY <1>2, <2>1, <2>2, <3>1 DEF Says, At
  <2>4. CASE copy[c].out = "sent"
    <3>1. Says(c, "sent")
      BY <1>6, <2>4 DEF Store, Says
    <3>2. key' = "sent" /\ \A t \in Tasks : result[t] # "sent"
      BY <2>2, <3>1 DEF TokenInv
    <3>3. \A t \in Tasks : result'[t] = "sent" => t = copy[c].task
      BY <1>0, <2>2, <3>2
    <3>4. \A e \in Copies : ~Says(e, "sent")'
      BY <2>1, <3>1 DEF TokenInv, Says, At
    <3> QED
      BY <3>2, <3>3, <3>4 DEF TokenInv
  <2> QED
    BY <2>3, <2>4
<1>7. ASSUME NEW c \in Copies, HardLimit(c) PROVE TokenInv'
  <2>1. copy'[c].pc = "free" /\ \A e \in Copies \ {c} : copy'[e] = copy[e]
    BY <1>0, <1>7 DEF HardLimit, Free
  <2>2. \A t \in Tasks : result'[t] = "sent" => result[t] = "sent"
    BY <1>0, <1>7 DEF HardLimit, Record
  <2>3. key' = key
    BY <1>7 DEF HardLimit
  <2> QED
    BY <1>2, <2>1, <2>2, <2>3 DEF Says, At
<1>8. ASSUME NEW c \in Copies, Lose(c) PROVE TokenInv'
  <2>1. /\ copy'[c].pc \in {"queued", "dead"}
        /\ \A e \in Copies \ {c} : copy'[e] = copy[e]
    BY <1>0, <1>8, LoseShape
  <2>2. UNCHANGED <<key, result>>
    BY <1>8 DEF Lose
  <2> QED
    BY <1>2, <2>1, <2>2 DEF Says, At
<1>9. CASE Tick
  <2>1. \A e \in Copies : /\ copy'[e].pc = copy[e].pc
                          /\ copy'[e].out = copy[e].out
    BY <1>0, <1>9 DEF Tick, Aged, Copy
  <2>2. result' = result /\ (key = "sent" => key' = "sent")
    BY <1>9 DEF Tick, ClaimInv
  <2> QED
    BY <1>1, <2>1, <2>2 DEF Says, At
<1>10. CASE Rest \/ UNCHANGED vars
  BY <1>1, <1>10 DEF Rest, vars, Says, At
<1> QED
  BY <1>3, <1>4, <1>5, <1>6, <1>7, <1>8, <1>9, <1>10 DEF Next, Progress

(* A notify that says another one sent the e-mail, or that it did, is      *)
(* right; and at most one says it did, if no execution outlives the TTL.   *)
THEOREM ResultsTrue == Spec => []ResultsAreTrue
<1>1. ASSUME Init PROVE Silent
  <2>1. key = "absent" /\ \A t \in Tasks : result[t] = "none"
    BY <1>1 DEF Init
  <2>2. \A c \in Copies : copy[c].pc \in {"queued", "free"}
    BY <1>1 DEF Init, NewCopy, Free
  <2> QED
    BY <2>1, <2>2 DEF Silent, Says, At
<1>2. Init => SentInv /\ (RunTime < TTL => TokenInv)
  BY <1>1 DEF SentInv, TokenInv, Silent
<1>3. /\ Inv /\ SentInv /\ (RunTime < TTL => TokenInv) /\ [Next]_vars
         => SentInv' /\ (RunTime < TTL => TokenInv)'
  BY SentInvStep, TokenInvStep DEF Inv
<1>4. SentInv /\ (RunTime < TTL => TokenInv) => ResultsAreTrue
  BY DEF SentInv, Silent, TokenInv, ResultsAreTrue
<1> QED
  BY <1>2, <1>3, <1>4, Invariance, PTL DEF Spec

-----------------------------------------------------------------------------
(* Why no duplicate runs out of retries while nothing is cut short.  A     *)
(* notify retries only while another one holds the claim, and each retry   *)
(* costs it RetryDelay: so many of them as it has made, less what is left  *)
(* of its present countdown, the holder has been running.                  *)
Calm == losses = 0 /\ limits = 0

Trying(c) == copy[c].pc \in {"queued", "claim", "get", "retry"}

Left(c) == IF copy[c].pc = "queued" THEN copy[c].timer ELSE 0

(* Nobody has retried before the first claim.                              *)
Untried ==
    key = "absent" =>
        \A c \in Copies : /\ copy[c].pc \in {"free", "queued", "claim"}
                          /\ copy[c].retries = 0

Held == key = "not_sent" => \E h \in Copies : Holding(h)

Patient ==
    \A c, h \in Copies :
        Trying(c) /\ Holding(h) =>
            copy[c].retries * RetryDelay <= copy[h].timer + Left(c)

NoFailure ==
    /\ \A c \in Copies :
         ~At(c, "dead") /\ (At(c, "store") => copy[c].out \in {"sent", "skipped"})
    /\ \A t \in Tasks : result[t] \in {"none", "sent", "skipped"}

SkipInv == Untried /\ Held /\ Patient /\ NoFailure

(* The holder has not been running for all the retries of another.         *)
InTime ==
    \A h \in Copies : Holding(h) => copy[h].timer < MaxRetries * RetryDelay

LEMMA Multiples ==
    \A r \in Nat : /\ r * RetryDelay \in Nat
                   /\ (r + 1) * RetryDelay = r * RetryDelay + RetryDelay
  OBVIOUS

LEMMA Facts ==
    ASSUME TypeOK
    PROVE  /\ copy \in [Copies -> Copy]
           /\ result \in [Tasks -> Outcome \cup {"none"}]
           /\ \A c \in Copies :
                /\ copy[c].timer \in Nat /\ copy[c].retries \in 0..MaxRetries
                /\ copy[c].retries \in Nat
                /\ Left(c) \in Nat
                /\ copy[c].pc # "free" => copy[c].task \in Tasks
  BY DEF TypeOK, CopiesOK, Copy, Left

(* A step of one copy that neither takes nor gives up the claim.           *)
LEMMA SkipQuiet ==
    ASSUME TypeOK, SkipInv, NEW c \in Copies, key' = key, result' = result,
           \A e \in Copies \ {c} : copy'[e] = copy[e],
           Holding(c)' <=> Holding(c), Holding(c) => copy'[c].timer = copy[c].timer,
           copy'[c].retries = copy[c].retries,
           Trying(c)' => Trying(c) /\ Left(c)' = Left(c),
           key = "absent" => copy'[c].pc \in {"free", "queued", "claim"},
           ~At(c, "dead")',
           At(c, "store")' => copy'[c].out \in {"sent", "skipped"}
    PROVE  SkipInv'
<1>1. ASSUME NEW e \in Copies
      PROVE  /\ Holding(e)' <=> Holding(e)
             /\ Holding(e) => copy'[e].timer = copy[e].timer
             /\ Trying(e)' => Trying(e) /\ Left(e)' = Left(e)
             /\ copy'[e].retries = copy[e].retries
             /\ key = "absent" => copy'[e].pc \in {"free", "queued", "claim"}
             /\ ~At(e, "dead")'
             /\ At(e, "store")' => copy'[e].out \in {"sent", "skipped"}
  BY DEF Holding, Trying, Left, SkipInv, Untried, NoFailure, At
<1>2. Untried'
  BY <1>1 DEF SkipInv, Untried
<1>3. Held'
  BY <1>1 DEF SkipInv, Held
<1>4. Patient'
  BY <1>1 DEF SkipInv, Patient
<1>5. NoFailure'
  BY <1>1 DEF SkipInv, NoFailure
<1> QED
  BY <1>2, <1>3, <1>4, <1>5 DEF SkipInv

(* A claim does not expire: it is held, and younger than the TTL.          *)
LEMMA ClaimStays ==
    ASSUME RunTime < TTL, TypeOK, ClaimInv, SkipInv, Tick
    PROVE  key' = key
<1>1. ttl = 1 => key = "absent"
  <2> SUFFICES ASSUME ttl = 1, key # "absent" PROVE FALSE
    OBVIOUS
  <2>1. key = "not_sent"
    BY DEF TypeOK, KeyState, ClaimInv
  <2>2. PICK h \in Copies : Holding(h)
    BY <2>1 DEF SkipInv, Held
  <2>3. copy[h].pc \in Running /\ ttl + copy[h].timer >= TTL
    BY <2>2 DEF ClaimInv, Holding, Running, Body
  <2>4. copy[h].timer < RunTime
    BY <2>3 DEF Tick
  <2> QED
    BY <2>3, <2>4, Facts
<1> QED
  BY <1>1 DEF Tick

LEMMA SkipInvStep ==
    ASSUME RunTime < TTL, TypeOK, ClaimInv, SkipInv, InTime, Calm', [Next]_vars
    PROVE  SkipInv'
<1>0. /\ copy \in [Copies -> Copy]
      /\ losses \in Nat /\ limits \in Nat
  BY DEF TypeOK, CopiesOK
<1>1. ASSUME NEW c \in Copies, Start(c) PROVE SkipInv'
  <2>1. /\ copy[c].pc = "queued" /\ copy[c].timer = 0
        /\ copy'[c].pc = "claim" /\ copy'[c].retries = copy[c].retries
        /\ \A e \in Copies \ {c} : copy'[e] = copy[e]
        /\ key' = key /\ result' = result
    BY <1>0, <1>1 DEF Start, Go, Copy, At
  <2> QED
    BY <2>1, SkipQuiet DEF Holding, Trying, Left, At
<1>2. ASSUME NEW c \in Copies, Claim(c), key # "absent" PROVE SkipInv'
  <2>1. /\ copy[c].pc = "claim"
        /\ copy'[c].pc = "get" /\ copy'[c].retries = copy[c].retries
        /\ \A e \in Copies \ {c} : copy'[e] = copy[e]
        /\ key' = key /\ result' = result
    BY <1>0, <1>2 DEF Claim, Go, Copy, At
  <2> QED
    BY <1>2, <2>1, SkipQuiet DEF Holding, Trying, Left, At
<1>3. ASSUME NEW c \in Copies, Claim(c), key = "absent" PROVE SkipInv'
  <2>1. /\ copy[c].pc = "claim" /\ copy'[c].pc = "send"
        /\ copy'[c].timer = copy[c].timer
        /\ \A e \in Copies \ {c} : copy'[e] = copy[e]
        /\ key' = "not_sent" /\ result' = result
    BY <1>0, <1>3 DEF Claim, Go, Copy, At
  <2>2. \A e \in Copies : /\ copy[e].pc \in {"free", "queued", "claim"}
                          /\ copy[e].retries = 0
    BY <1>3 DEF SkipInv, Untried
  <2>3. Holding(c)' /\ \A e \in Copies : Holding(e)' => e = c
    BY <2>1, <2>2 DEF Holding
  <2>4. ASSUME NEW e \in Copies, Trying(e)'
        PROVE  copy'[e].retries * RetryDelay <= copy'[c].timer + Left(e)'
    <3>1. e # c
      BY <2>1, <2>4 DEF Trying
    <3>2. copy'[e].retries = 0 /\ Left(e)' = Left(e)
      BY <2>1, <2>2, <3>1 DEF Left
    <3> QED
      BY <2>1, <3>2, Facts
  <2>5. NoFailure'
    BY <2>1 DEF SkipInv, NoFailure, At
  <2> QED
    BY <2>1, <2>3, <2>4, <2>5 DEF SkipInv, Untried, Held, Patient
<1>4. ASSUME NEW c \in Copies, Get(c) PROVE SkipInv'
  <2>1. /\ copy[c].pc = "get" /\ key # "absent"
        /\ \A e \in Copies \ {c} : copy'[e] = copy[e]
        /\ key' = key /\ result' = result
    BY <1>0, <1>4 DEF Get, Go, End, At, SkipInv, Untried
  <2>2. CASE key = "sent"
    <3>1. /\ copy'[c].pc = "store" /\ copy'[c].out = "skipped"
          /\ copy'[c].retries = copy[c].retries
      BY <1>0, <1>4, <2>2 DEF Get, End, Copy
    <3> QED
      BY <2>1, <3>1, SkipQuiet DEF Holding, Trying, At
  <2>3. CASE key # "sent"
    <3>1. PICK h \in Copies : Holding(h)
      BY <2>1, <2>3 DEF TypeOK, KeyState, SkipInv, Held
    <3>2. copy[c].retries * RetryDelay <= copy[h].timer
      BY <2>1, <3>1, Facts DEF SkipInv, Patient, Trying, Left
    <3>3. copy[h].timer < MaxRetries * RetryDelay
      BY <3>1 DEF InTime
    <3>4. copy[c].retries < MaxRetries
      <4>1. copy[c].retries # MaxRetries
        BY <3>2, <3>3, Facts, Multiples
      <4> QED
        BY <4>1, Facts
    <3>5. /\ copy'[c].pc = "retry" /\ copy'[c].retries = copy[c].retries
      BY <1>0, <1>4, <2>3, <3>4 DEF Get, Go, Copy
    <3> QED
      BY <2>1, <3>5, SkipQuiet DEF Holding, Trying, Left, At
  <2> QED
    BY <2>2, <2>3
<1>5. ASSUME NEW c \in Copies, SendEmail(c) PROVE SkipInv'
  <2>1. /\ copy[c].pc = "send" /\ copy'[c].pc = "mark"
        /\ copy'[c].retries = copy[c].retries
        /\ copy'[c].timer = copy[c].timer
        /\ \A e \in Copies \ {c} : copy'[e] = copy[e]
        /\ key' = key /\ result' = result
    BY <1>0, <1>5 DEF SendEmail, Go, Copy, At
  <2>2. key # "absent"
    BY <2>1 DEF SkipInv, Untried
  <2> QED
    BY <2>1, <2>2, SkipQuiet DEF Holding, Trying, At
<1>6. ASSUME NEW c \in Copies, MarkSent(c) PROVE SkipInv'
  <2>1. /\ copy[c].pc = "mark"
        /\ copy'[c].pc = "store" /\ copy'[c].out = "sent"
        /\ \A e \in Copies \ {c} : copy'[e] = copy[e]
        /\ key' = "sent" /\ result' = result
    BY <1>0, <1>6 DEF MarkSent, End, Copy, At
  <2>2. \A e \in Copies : ~Holding(e)'
    BY <2>1 DEF ClaimInv, Holding
  <2>3. NoFailure'
    BY <2>1 DEF SkipInv, NoFailure, At
  <2> QED
    BY <2>1, <2>2, <2>3 DEF SkipInv, Untried, Held, Patient
<1>7. ASSUME NEW c \in Copies, NEW new \in Copies, PublishRetry(c, new)
      PROVE  SkipInv'
  <2>1. /\ copy[c].pc = "retry" /\ copy[new].pc = "free" /\ c # new
        /\ copy'[c].pc = "ack" /\ copy'[new].pc = "queued"
        /\ copy'[new] = NewCopy(copy[c].task, copy[c].retries + 1, RetryDelay)
        /\ \A e \in Copies \ {c, new} : copy'[e] = copy[e]
    BY <1>0, <1>7, PublishShape
  <2>2. key' = key /\ result' = result
    BY <1>7 DEF PublishRetry
  <2>3. copy'[new].retries = copy[c].retries + 1 /\ Left(new)' = RetryDelay
    BY <2>1 DEF NewCopy, Left
  <2>4. key # "absent"
    BY <2>1 DEF SkipInv, Untried
  <2>5. \A e \in Copies : /\ Holding(e)' <=> Holding(e)
                          /\ Holding(e) => copy'[e].timer = copy[e].timer
    BY <2>1 DEF Holding
  <2>6. ASSUME NEW e \in Copies, NEW h \in Copies, Trying(e)', Holding(h)
        PROVE  copy'[e].retries * RetryDelay <= copy[h].timer + Left(e)'
    <3>1. CASE e = new
      <4>1. Trying(c) /\ Left(c) = 0
        BY <2>1 DEF Trying, Left
      <4>2. copy[c].retries * RetryDelay <= copy[h].timer
        BY <2>6, <4>1, Facts, Multiples DEF SkipInv, Patient
      <4>3. copy'[e].retries * RetryDelay
              = copy[c].retries * RetryDelay + RetryDelay
        BY <2>3, <3>1, Facts, Multiples
      <4> QED
        BY <2>3, <3>1, <4>2, <4>3, Facts, Multiples
    <3>2. CASE e # new
      <4>1. e # c /\ copy'[e] = copy[e]
        BY <2>1, <2>6, <3>2 DEF Trying
      <4>2. Trying(e) /\ Left(e)' = Left(e)
        BY <2>6, <4>1 DEF Trying, Left
      <4> QED
        BY <2>6, <4>1, <4>2 DEF SkipInv, Patient
    <3> QED
      BY <3>1, <3>2
  <2>7. Patient'
    BY <2>5, <2>6 DEF Patient
  <2>8. Held'
    BY <2>2, <2>5 DEF SkipInv, Held
  <2>9. NoFailure'
    BY <2>1, <2>2 DEF SkipInv, NoFailure, At
  <2> QED
    BY <2>2, <2>4, <2>7, <2>8, <2>9 DEF SkipInv, Untried
<1>8. ASSUME NEW c \in Copies, Store(c) PROVE SkipInv'
  <2>1. /\ copy[c].pc = "store" /\ copy'[c].pc = "ack"
        /\ copy[c].out \in {"sent", "skipped"}
        /\ \A e \in Copies \ {c} : copy'[e] = copy[e]
        /\ key' = key
    BY <1>0, <1>8 DEF Store, Go, Copy, At, SkipInv, NoFailure
  <2>2. \A t \in Tasks : result'[t] \in {"none", "sent", "skipped"}
    BY <1>8, <2>1, Facts DEF Store, Record, SkipInv, NoFailure
  <2>3. key # "absent"
    BY <2>1 DEF SkipInv, Untried
  <2>4. \A e \in Copies : /\ Holding(e)' <=> Holding(e)
                          /\ Holding(e) => copy'[e] = copy[e]
                          /\ Trying(e)' => copy'[e] = copy[e]
    BY <2>1 DEF Holding, Trying
  <2>5. Patient'
    BY <2>4 DEF SkipInv, Patient, Trying, Left
  <2>6. Held'
    BY <2>1, <2>4 DEF SkipInv, Held
  <2>7. NoFailure'
    BY <2>1, <2>2 DEF SkipInv, NoFailure, At
  <2> QED
    BY <2>1, <2>3, <2>5, <2>6, <2>7 DEF SkipInv, Untried
<1>9. ASSUME NEW c \in Copies, Ack(c) PROVE SkipInv'
  <2>1. /\ copy[c].pc = "ack" /\ copy'[c].pc = "free"
        /\ \A e \in Copies \ {c} : copy'[e] = copy[e]
        /\ key' = key /\ result' = result
    BY <1>0, <1>9 DEF Ack, Free, At
  <2>2. key # "absent"
    BY <2>1 DEF SkipInv, Untried
  <2>3. \A e \in Copies : /\ Holding(e)' <=> Holding(e)
                          /\ Holding(e) => copy'[e] = copy[e]
                          /\ Trying(e)' => copy'[e] = copy[e]
    BY <2>1 DEF Holding, Trying
  <2>4. Patient'
    BY <2>3 DEF SkipInv, Patient, Trying, Left
  <2>5. Held'
    BY <2>1, <2>3 DEF SkipInv, Held
  <2>6. NoFailure'
    BY <2>1 DEF SkipInv, NoFailure, At
  <2> QED
    BY <2>1, <2>2, <2>4, <2>5, <2>6 DEF SkipInv, Untried
<1>10. ASSUME NEW c \in Copies PROVE ~Drop(c)
  BY DEF Drop, SkipInv, NoFailure
<1>11. ASSUME NEW c \in Copies PROVE ~(Lose(c) \/ SoftLimit(c) \/ HardLimit(c))
  BY <1>0 DEF Lose, SoftLimit, HardLimit, Calm
<1>12. CASE Tick
  <2>1. ASSUME NEW e \in Copies
        PROVE  /\ copy'[e].pc = copy[e].pc /\ copy'[e].out = copy[e].out
               /\ copy'[e].retries = copy[e].retries
               /\ copy[e].pc \in Running =>
                    /\ copy'[e].timer = copy[e].timer + 1
                    /\ copy[e].timer < RunTime
               /\ copy[e].pc = "queued" =>
                    copy'[e].timer
                      = IF copy[e].timer = 0 THEN 0 ELSE copy[e].timer - 1
    BY <1>0, <1>12 DEF Tick, Aged, Copy, Running, Body
  <2>2. result' = result
    BY <1>12 DEF Tick
  <2>4. key' = key
    BY <1>12, ClaimStays
  <2>5. \A e \in Copies : /\ Holding(e)' <=> Holding(e)
                          /\ Trying(e)' <=> Trying(e)
                          /\ Holding(e) => copy'[e].timer = copy[e].timer + 1
                          /\ Left(e)' + 1 >= Left(e)
    BY <2>1, Facts DEF Holding, Trying, Left, Running, Body
  <2>6. ASSUME NEW e \in Copies, NEW h \in Copies, Trying(e)', Holding(h)'
        PROVE  copy'[e].retries * RetryDelay <= copy'[h].timer + Left(e)'
    <3>1. copy[e].retries * RetryDelay <= copy[h].timer + Left(e)
      BY <2>5, <2>6 DEF SkipInv, Patient
    <3>2. copy'[h].timer = copy[h].timer + 1 /\ Left(e)' + 1 >= Left(e)
      BY <2>5, <2>6
    <3>3. Left(e)' \in Nat
      BY <2>1, Facts DEF Left
    <3> QED
      BY <2>1, <3>1, <3>2, <3>3, Facts, Multiples
  <2>7. Patient'
    BY <2>6 DEF Patient
  <2>8. Untried' /\ Held'
    BY <2>1, <2>4, <2>5 DEF SkipInv, Untried, Held
  <2>9. NoFailure'
    BY <2>1, <2>2 DEF SkipInv, NoFailure, At
  <2> QED
    BY <2>7, <2>8, <2>9 DEF SkipInv
<1>13. CASE Rest \/ UNCHANGED vars
  BY <1>13 DEF Rest, vars, SkipInv, Untried, Held, Patient, NoFailure, Trying,
     Holding, Left, At
<1> QED
  BY <1>1, <1>2, <1>3, <1>4, <1>5, <1>6, <1>7, <1>8, <1>9, <1>10, <1>11,
     <1>12, <1>13 DEF Next, Progress


LEMMA CalmStep == TypeOK /\ Calm' /\ [Next]_vars => Calm
<1> SUFFICES ASSUME TypeOK, Calm', [Next]_vars PROVE Calm
  OBVIOUS
<1>1. losses \in Nat /\ limits \in Nat
  BY DEF TypeOK
<1>2. ASSUME NEW c \in Copies,
             Progress(c) \/ Lose(c) \/ SoftLimit(c) \/ HardLimit(c)
      PROVE  losses' >= losses /\ limits' >= limits
  BY <1>1, <1>2 DEF Progress, Start, Claim, Get, SendEmail, MarkSent,
     PublishRetry, Store, Ack, Drop, Lose, SoftLimit, HardLimit
<1>3. CASE Tick \/ Rest \/ UNCHANGED vars
  BY <1>3 DEF Tick, Rest, vars, Calm
<1> QED
  BY <1>1, <1>2, <1>3 DEF Next, Calm

LEMMA SkipInvInit == Init => SkipInv
<1> SUFFICES ASSUME Init PROVE SkipInv
  OBVIOUS
<1>1. \A c \in Copies : copy[c].pc \in {"queued", "free"} /\ copy[c].retries = 0
  BY DEF Init, NewCopy, Free
<1>2. key = "absent" /\ \A t \in Tasks : result[t] = "none"
  BY DEF Init
<1> QED
  BY <1>1, <1>2 DEF SkipInv, Untried, Held, Patient, NoFailure, Holding, At

(* Left alone and with time enough, one notify sends and every other one   *)
(* finds the e-mail sent: none ends in a failure envelope.                 *)
THEOREM NoneFails == Spec => []DuplicatesSkip
<1> DEFINE Ample == RunTime < TTL /\ RunTime < MaxRetries * RetryDelay
           J == Ample /\ Calm => SkipInv
<1>1. Init => J
  BY SkipInvInit
<1>2. ASSUME Inv, J, [Next]_vars PROVE J'
  <2> SUFFICES ASSUME Ample, Calm' PROVE SkipInv'
    BY DEF Calm
  <2>1. ClaimInv /\ TypeOK
    BY <1>2 DEF Inv
  <2>2. SkipInv
    BY <1>2, <2>1, CalmStep
  <2>3. InTime
    BY <2>1, Facts, Multiples DEF ClaimInv, InTime, Holding, Running, Body
  <2> QED
    BY <1>2, <2>1, <2>2, <2>3, SkipInvStep
<1>3. J => DuplicatesSkip
  BY DEF DuplicatesSkip, SkipInv, NoFailure, Calm
<1> HIDE DEF J
<1> QED
  BY <1>1, <1>2, <1>3, Invariance, PTL DEF Spec

-----------------------------------------------------------------------------
(* What the compositions add: a notify that arrives while others run.      *)
Arrive(t, new) ==
    /\ At(new, "free")
    /\ copy' = [copy EXCEPT ![new] = NewCopy(t, 0, 0)]
    /\ UNCHANGED <<key, ttl, result, sends, contended, losses, limits>>

LEMMA ArriveKeeps ==
    ASSUME TypeOK, NEW t \in Tasks, NEW new \in Copies, Arrive(t, new)
    PROVE  /\ TypeOK'
           /\ ClaimInv => ClaimInv'
           /\ SendsInv => SendsInv'
           /\ SentInv => SentInv'
           /\ TokenInv => TokenInv'
           /\ SkipInv => SkipInv'
<1> DEFINE k == NewCopy(t, 0, 0)
<1>1. k \in Copy /\ k.pc = "queued" /\ k.task = t /\ k.retries = 0 /\ k.timer = 0
  BY NewCopyType DEF NewCopy
<1> HIDE DEF k
<1>2. /\ copy[new].pc = "free" /\ copy'[new] = k
      /\ \A e \in Copies \ {new} : copy'[e] = copy[e]
      /\ copy' \in [Copies -> Copy]
  BY <1>1, Facts DEF Arrive, At, k
<1>3. UNCHANGED <<key, ttl, result, sends, contended, losses, limits>>
  BY DEF Arrive
<1>4. TypeOK'
  BY <1>1, <1>2, <1>3 DEF TypeOK, CopiesOK
<1>5. \A e \in Copies : copy'[e].pc \notin {"free", "queued"} => copy'[e] = copy[e]
  BY <1>1, <1>2
<1>6. \A e \in Copies : Holding(e)' <=> Holding(e)
  BY <1>1, <1>2 DEF Holding
<1>7. ClaimInv => ClaimInv'
  BY <1>3, <1>5, <1>6 DEF ClaimInv, Running, Body, Holding
<1>8. \A e \in Copies : At(e, "mark")' <=> At(e, "mark")
  BY <1>1, <1>2 DEF At
<1>9. SendsInv => SendsInv'
  BY <1>3, <1>8 DEF SendsInv, Spent
<1>10. \A e \in Copies, out \in Outcome : Says(e, out)' <=> Says(e, out)
  BY <1>1, <1>2 DEF Says, At
<1>11. SentInv => SentInv'
  BY <1>3, <1>8, <1>10 DEF SentInv, Silent, Outcome
<1>12. TokenInv => TokenInv'
  BY <1>3, <1>10 DEF TokenInv, Outcome
<1>13. ASSUME SkipInv PROVE SkipInv'
  <2>1. Untried' /\ Held'
    BY <1>1, <1>2, <1>3, <1>6, <1>13 DEF SkipInv, Untried, Held
  <2>2. ASSUME NEW e \in Copies, NEW h \in Copies, Trying(e)', Holding(h)'
        PROVE  copy'[e].retries * RetryDelay <= copy'[h].timer + Left(e)'
    <3>1. Holding(h) /\ copy'[h] = copy[h]
      BY <1>5, <1>6, <2>2 DEF Holding
    <3>2. CASE e = new
      BY <1>1, <1>2, <3>1, <3>2, Facts DEF Left
    <3>3. CASE e # new
      BY <1>2, <1>13, <2>2, <3>1, <3>3 DEF SkipInv, Patient, Trying, Left
    <3> QED
      BY <3>2, <3>3
  <2>3. Patient'
    BY <2>2 DEF Patient
  <2>4. NoFailure'
    BY <1>1, <1>2, <1>3, <1>13 DEF SkipInv, NoFailure, At
  <2> QED
    BY <2>1, <2>3, <2>4 DEF SkipInv
<1> QED
  BY <1>4, <1>7, <1>9, <1>11, <1>12, <1>13

=============================================================================
