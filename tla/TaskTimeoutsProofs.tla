------------------------- MODULE TaskTimeoutsProofs -------------------------
(***************************************************************************)
(* Proofs about TaskTimeouts, for all limits, numbers of executions and    *)
(* stalls.  The inductive invariant follows the timer through the wrapper: *)
(* where its handler is in place, where it is off, and how much of the     *)
(* body's time is left on it.  From that the age of an execution is        *)
(* bounded, and so the backstop is out of reach of all but deaf bodies.    *)
(***************************************************************************)
EXTENDS TaskTimeouts, TLAPS

(* The code between the statements of the wrapper.                         *)
Handled ==
    /\ pc \in {"install", "armed"} => handler = "alarm"
    /\ pc = "restore" => ~armed
    /\ pc \in {"try", "install", "armed", "disarm", "restore", "ended",
              "published"} => kind # "plain"
    /\ AlarmIsHandled
    /\ AlarmIsCleared

(* The clocks of an execution.                                             *)
Counted ==
    /\ age = inBody + stalls
    /\ stalls <= MaxStalls
    /\ pc \in {"enter", "try", "install", "armed"} => inBody = 0
    /\ kind \notin {"deaf", "plain"} => inBody <= Hard
    /\ pc = "armed" \/ (pc = "body" /\ kind \notin {"deaf", "plain"}) =>
         armed /\ left + inBody <= Hard /\ Hard <= left + inBody + stalls

(* What an execution has published and stored.                             *)
Recorded ==
    /\ pc # "idle" => stored = "none"
    /\ outcome = "transient" => kind = "transient"
    /\ published =>
         /\ kind = "transient"
         /\ \/ pc \in {"published", "again"}
            \/ "published" \in hits
            \/ pc = "idle" /\ stored = "none"
    /\ pc = "escape" => hits \cap {"enter", "except"} # {}
    /\ FailureIsRare

IInv == TypeOK /\ Handled /\ Counted /\ Recorded

(* A timer that is off has no ticks left.                                  *)
LEMMA ZeroLeft == 0 \in 0..Hard
  BY TaskTimeoutsAssumption

(* Every step keeps the types.                                             *)
LEMMA TypeStep ==
    ASSUME TypeOK, Next
    PROVE  TypeOK'
<1> USE TaskTimeoutsAssumption DEF TypeOK, timer, clocks, task, effects, Go, Wrapper, Python, Tracer, Kind
<1>1. ASSUME NEW k \in Kind, NEW b \in BOOLEAN, Accept(k, b)
      PROVE  TypeOK'
  BY <1>1 DEF Accept
<1>2. CASE EnterTry
  BY <1>2 DEF EnterTry
<1>3. CASE InstallHandler
  BY <1>3 DEF InstallHandler
<1>4. CASE SetTimer
  BY <1>4 DEF SetTimer
<1>5. CASE EnterBody
  BY <1>5 DEF EnterBody
<1>6. CASE BodyEnds
  BY <1>6 DEF BodyEnds
<1>7. CASE ClearTimer
  BY <1>7, ZeroLeft DEF ClearTimer
<1>8. CASE RestoreHandler
  BY <1>8 DEF RestoreHandler
<1>9. CASE PublishRetry
  BY <1>9 DEF PublishRetry
<1>10. CASE PassOn
  BY <1>10 DEF PassOn
<1>11. CASE RaiseRetry
  BY <1>11 DEF RaiseRetry
<1>12. CASE Envelope
  BY <1>12 DEF Envelope
<1>13. CASE Store
  BY <1>13 DEF Store
<1>14. CASE SoftLimit
  BY <1>14 DEF SoftLimit, Raise, Catcher, Reachable, SoftDue, AlarmDue
<1>15. CASE Alarm
  BY <1>15 DEF Alarm, Raise, Catcher, Reachable, SoftDue, AlarmDue
<1>16. CASE AlarmInIdle
  BY <1>16 DEF AlarmInIdle, Reachable, SoftDue, AlarmDue
<1>17. CASE Kill
  <2>1. pc' = "idle" /\ handler' = "default" /\ left' \in 0..Hard
    BY <1>17, ZeroLeft DEF Kill
  <2>2. armed' \in BOOLEAN
    BY <1>17 DEF Kill
  <2>3. stored' = "FAILURE" /\ done' \in Nat
    BY <1>17 DEF Kill
  <2>4. UNCHANGED <<kind, budget, outcome, previous, age, inBody, slept,
                    stalls, soft, hits, published>>
    BY <1>17 DEF Kill
  <2> QED
    BY <2>1, <2>2, <2>3, <2>4
<1>18. CASE Tick
  BY <1>18 DEF Tick, Reachable, SoftDue, AlarmDue
<1>19. CASE Over
  BY <1>19 DEF Over, vars
<1> QED
  BY <1>1, <1>2, <1>3, <1>4, <1>5, <1>6, <1>7, <1>8, <1>9, <1>10, <1>11, <1>12, <1>13, <1>14, <1>15, <1>16, <1>17, <1>18, <1>19 DEF Next, Run

(* Every step keeps the timer and its handler in order.                    *)
LEMMA HandledStep ==
    ASSUME TypeOK, Handled, Next
    PROVE  Handled'
<1> USE TaskTimeoutsAssumption DEF TypeOK, timer, clocks, task, effects, Go, Wrapper, Python, Tracer, Kind, Handled, AlarmIsHandled, AlarmIsCleared
<1>1. ASSUME NEW k \in Kind, NEW b \in BOOLEAN, Accept(k, b)
      PROVE  Handled'
  BY <1>1 DEF Accept
<1>2. CASE EnterTry
  BY <1>2 DEF EnterTry
<1>3. CASE InstallHandler
  BY <1>3 DEF InstallHandler
<1>4. CASE SetTimer
  BY <1>4 DEF SetTimer
<1>5. CASE EnterBody
  BY <1>5 DEF EnterBody
<1>6. CASE BodyEnds
  BY <1>6 DEF BodyEnds
<1>7. CASE ClearTimer
  BY <1>7 DEF ClearTimer
<1>8. CASE RestoreHandler
  BY <1>8 DEF RestoreHandler
<1>9. CASE PublishRetry
  BY <1>9 DEF PublishRetry
<1>10. CASE PassOn
  BY <1>10 DEF PassOn
<1>11. CASE RaiseRetry
  BY <1>11 DEF RaiseRetry
<1>12. CASE Envelope
  BY <1>12 DEF Envelope
<1>13. CASE Store
  BY <1>13 DEF Store
<1>14. CASE SoftLimit
  BY <1>14 DEF SoftLimit, Raise, Catcher, Reachable, SoftDue, AlarmDue
<1>15. CASE Alarm
  BY <1>15 DEF Alarm, Raise, Catcher, Reachable, SoftDue, AlarmDue
<1>16. CASE AlarmInIdle
  BY <1>16 DEF AlarmInIdle, Reachable, SoftDue, AlarmDue
<1>17. CASE Kill
  BY <1>17 DEF Kill
<1>18. CASE Tick
  BY <1>18 DEF Tick, Reachable, SoftDue, AlarmDue
<1>19. CASE Over
  BY <1>19 DEF Over, vars
<1> QED
  BY <1>1, <1>2, <1>3, <1>4, <1>5, <1>6, <1>7, <1>8, <1>9, <1>10, <1>11, <1>12, <1>13, <1>14, <1>15, <1>16, <1>17, <1>18, <1>19 DEF Next, Run

(* Every step keeps the clocks within their bounds.                        *)
LEMMA CountedStep ==
    ASSUME TypeOK, Handled, Counted, Next
    PROVE  Counted'
<1> USE TaskTimeoutsAssumption DEF TypeOK, timer, clocks, task, effects, Go, Wrapper, Python, Tracer, Kind, Handled, Counted, AlarmIsHandled
<1>1. ASSUME NEW k \in Kind, NEW b \in BOOLEAN, Accept(k, b)
      PROVE  Counted'
  BY <1>1 DEF Accept
<1>2. CASE EnterTry
  BY <1>2 DEF EnterTry
<1>3. CASE InstallHandler
  BY <1>3 DEF InstallHandler
<1>4. CASE SetTimer
  BY <1>4 DEF SetTimer
<1>5. CASE EnterBody
  BY <1>5 DEF EnterBody
<1>6. CASE BodyEnds
  BY <1>6 DEF BodyEnds
<1>7. CASE ClearTimer
  BY <1>7 DEF ClearTimer
<1>8. CASE RestoreHandler
  BY <1>8 DEF RestoreHandler
<1>9. CASE PublishRetry
  BY <1>9 DEF PublishRetry
<1>10. CASE PassOn
  BY <1>10 DEF PassOn
<1>11. CASE RaiseRetry
  BY <1>11 DEF RaiseRetry
<1>12. CASE Envelope
  BY <1>12 DEF Envelope
<1>13. CASE Store
  BY <1>13 DEF Store
<1>14. CASE SoftLimit
  BY <1>14 DEF SoftLimit, Raise, Catcher, Reachable, SoftDue, AlarmDue
<1>15. CASE Alarm
  BY <1>15 DEF Alarm, Raise, Catcher, Reachable, SoftDue, AlarmDue
<1>16. CASE AlarmInIdle
  BY <1>16 DEF AlarmInIdle, Reachable, SoftDue, AlarmDue
<1>17. CASE Kill
  BY <1>17 DEF Kill
<1>18. CASE Tick
  BY <1>18 DEF Tick, Reachable, SoftDue, AlarmDue
<1>19. CASE Over
  BY <1>19 DEF Over, vars
<1> QED
  BY <1>1, <1>2, <1>3, <1>4, <1>5, <1>6, <1>7, <1>8, <1>9, <1>10, <1>11, <1>12, <1>13, <1>14, <1>15, <1>16, <1>17, <1>18, <1>19 DEF Next, Run

(* Every step keeps what is published and stored consistent.               *)
LEMMA RecordedStep ==
    ASSUME TypeOK, Handled, Counted, Recorded, Next
    PROVE  Recorded'
<1> USE TaskTimeoutsAssumption DEF TypeOK, timer, clocks, task, effects, Go, Wrapper, Python, Tracer, Kind, Counted, Recorded, FailureIsRare
<1>1. ASSUME NEW k \in Kind, NEW b \in BOOLEAN, Accept(k, b)
      PROVE  Recorded'
  BY <1>1 DEF Accept
<1>2. CASE EnterTry
  BY <1>2 DEF EnterTry
<1>3. CASE InstallHandler
  BY <1>3 DEF InstallHandler
<1>4. CASE SetTimer
  BY <1>4 DEF SetTimer
<1>5. CASE EnterBody
  BY <1>5 DEF EnterBody
<1>6. CASE BodyEnds
  BY <1>6 DEF BodyEnds
<1>7. CASE ClearTimer
  BY <1>7 DEF ClearTimer
<1>8. CASE RestoreHandler
  BY <1>8 DEF RestoreHandler
<1>9. CASE PublishRetry
  BY <1>9 DEF PublishRetry
<1>10. CASE PassOn
  BY <1>10 DEF PassOn
<1>11. CASE RaiseRetry
  BY <1>11 DEF RaiseRetry
<1>12. CASE Envelope
  BY <1>12 DEF Envelope
<1>13. CASE Store
  BY <1>13 DEF Store
<1>14. CASE SoftLimit
  BY <1>14 DEF SoftLimit, Raise, Catcher, Reachable, SoftDue, AlarmDue
<1>15. CASE Alarm
  BY <1>15 DEF Alarm, Raise, Catcher, Reachable, SoftDue, AlarmDue
<1>16. CASE AlarmInIdle
  BY <1>16 DEF AlarmInIdle, Reachable, SoftDue, AlarmDue
<1>17. CASE Kill
  BY <1>17 DEF Kill
<1>18. CASE Tick
  BY <1>18 DEF Tick, Reachable, SoftDue, AlarmDue
<1>19. CASE Over
  BY <1>19 DEF Over, vars
<1> QED
  BY <1>1, <1>2, <1>3, <1>4, <1>5, <1>6, <1>7, <1>8, <1>9, <1>10, <1>11, <1>12, <1>13, <1>14, <1>15, <1>16, <1>17, <1>18, <1>19 DEF Next, Run

-----------------------------------------------------------------------------
(* The invariant holds initially and is preserved.                         *)
LEMMA Inductive == Spec => []IInv
<1>1. Init => IInv
  <2>1. Init => TypeOK
    <3> SUFFICES ASSUME Init PROVE TypeOK
      OBVIOUS
    <3>1. /\ budget \in BOOLEAN /\ armed \in BOOLEAN
          /\ soft \in BOOLEAN /\ published \in BOOLEAN
      BY DEF Init
    <3>2. /\ pc \in Python \cup Tracer \cup {"idle"} /\ kind \in Kind
          /\ outcome = "none" /\ handler = "default" /\ previous = "default"
          /\ hits \subseteq Python /\ stored = "none"
      BY DEF Init, Kind
    <3>3. /\ left \in 0..Hard /\ age \in Nat /\ inBody \in Nat
          /\ slept \in Nat /\ stalls \in Nat /\ done \in Nat
      BY ZeroLeft DEF Init
    <3> QED
      BY <3>1, <3>2, <3>3 DEF TypeOK
  <2>2. Init => Handled /\ Counted /\ Recorded
    BY TaskTimeoutsAssumption
    DEF Init, Handled, Counted, Recorded, AlarmIsHandled, AlarmIsCleared,
        FailureIsRare
  <2> QED
    BY <2>1, <2>2 DEF IInv
<1>2. IInv /\ [Next]_vars => IInv'
  <2> SUFFICES ASSUME IInv, [Next]_vars PROVE IInv'
    OBVIOUS
  <2>1. CASE Next
    BY <2>1, TypeStep, HandledStep, CountedStep, RecordedStep DEF IInv
  <2>2. CASE UNCHANGED vars
    BY <2>2
    DEF vars, IInv, TypeOK, Handled, Counted, Recorded, AlarmIsHandled,
        AlarmIsCleared, FailureIsRare
  <2> QED
    BY <2>1, <2>2
<1> QED
  BY <1>1, <1>2, PTL DEF Spec

(* Every reachable state is well typed.                                    *)
THEOREM TypeCorrect == Spec => []TypeOK
<1>1. IInv => TypeOK
  BY TaskTimeoutsAssumption DEF IInv, TypeOK
<1> QED
  BY <1>1, Inductive, PTL

(* The alarm never finds the default handler, which would kill the         *)
(* process.                                                                *)
THEOREM AlarmHandled == Spec => []AlarmIsHandled
<1>1. IInv => AlarmIsHandled
  BY TaskTimeoutsAssumption DEF IInv, Handled
<1> QED
  BY <1>1, Inductive, PTL

(* The body's alarm cannot hit the retry or the envelope after the body.   *)
THEOREM AlarmCleared == Spec => []AlarmIsCleared
<1>1. IInv => AlarmIsCleared
  BY TaskTimeoutsAssumption DEF IInv, Handled
<1> QED
  BY <1>1, Inductive, PTL

(* No earlier execution shortens or lengthens a body's alarm.              *)
THEOREM AlarmOwn == Spec => []AlarmIsOwn
<1>1. IInv => AlarmIsOwn
  BY TaskTimeoutsAssumption DEF IInv, TypeOK, Counted, AlarmIsOwn
<1> QED
  BY <1>1, Inductive, PTL

(* A body that can be interrupted ends within the alarm's time.            *)
THEOREM SlotFreed == Spec => []SlotIsFreed
<1>1. IInv => SlotIsFreed
  BY TaskTimeoutsAssumption DEF IInv, TypeOK, Counted, SlotIsFreed
<1> QED
  BY <1>1, Inductive, PTL

(* A retry and a part of one execution need a soft limit in between.       *)
THEOREM RetryExcludesPart == Spec => []RetryOrPart
<1>1. IInv => RetryOrPart
  BY TaskTimeoutsAssumption DEF IInv, TypeOK, Recorded, RetryOrPart
<1> QED
  BY <1>1, Inductive, PTL

(* Only a signal outside enveloped's try, or the backstop, stores FAILURE. *)
THEOREM FailureNeedsSignal == Spec => []FailureIsRare
<1>1. IInv => FailureIsRare
  BY TaskTimeoutsAssumption DEF IInv, Recorded
<1> QED
  BY <1>1, Inductive, PTL

=============================================================================
