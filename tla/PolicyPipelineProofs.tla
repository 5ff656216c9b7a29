------------------------ MODULE PolicyPipelineProofs ------------------------
(***************************************************************************)
(* Proofs about PolicyPipeline, for every set of policies and every bound: *)
(* the inductive invariant, the safety properties that follow from it, and *)
(* that the pipeline implements PolicyHandover.                            *)
(***************************************************************************)
EXTENDS PolicyPipeline, TLAPS

-----------------------------------------------------------------------------
(* Facts about one push and one pop of a queue. *)

(* Dropping the first element of a non-empty queue. *)
LEMMA PopFacts ==
  ASSUME NEW q \in Seq(Output), q # <<>>
  PROVE  /\ Head(q) = q[1]
         /\ Head(q) \in Output
         /\ Tail(q) \in Seq(Output)
         /\ Len(q) > 0
         /\ Len(Tail(q)) = Len(q) - 1
         /\ \A i \in 1..Len(Tail(q)) : i + 1 \in 1..Len(q) /\ Tail(q)[i] = q[i+1]
  OBVIOUS

(* Adding an element at the end of a queue. *)
LEMMA PushFacts ==
  ASSUME NEW q \in Seq(Output), NEW o \in Output
  PROVE  /\ Append(q, o) \in Seq(Output)
         /\ Len(Append(q, o)) = Len(q) + 1
         /\ \A i \in 1..Len(q) : Append(q, o)[i] = q[i]
         /\ Append(q, o)[Len(q) + 1] = o
  OBVIOUS

(* A pop keeps a queue consecutive up to the same last tick, and what it *)
(* returns is the oldest tick.                                           *)
LEMMA ConsecutivePop ==
  ASSUME NEW q \in Seq(Output), q # <<>>, NEW last \in Int, Consecutive(q, last)
  PROVE  /\ Consecutive(Tail(q), last)
         /\ Head(q).tick = last - Len(q) + 1
  BY PopFacts DEF Consecutive

(* A push of the next tick keeps a queue consecutive. *)
LEMMA ConsecutivePush ==
  ASSUME NEW q \in Seq(Output), NEW o \in Output, NEW last \in Int,
         Consecutive(q, last), o.tick = last + 1
  PROVE  Consecutive(Append(q, o), last + 1)
  <1> SUFFICES ASSUME NEW i \in 1..(Len(q) + 1)
               PROVE  Append(q, o)[i].tick = i + last - Len(q)
    BY PushFacts DEF Consecutive
  <1>1. CASE i \in 1..Len(q)
    BY <1>1, PushFacts DEF Consecutive
  <1>2. CASE i = Len(q) + 1
    BY <1>2, PushFacts
  <1>3. QED
    BY <1>1, <1>2

(* A pop and a push of the same entry keep a queue stamped with it. *)
LEMMA StampedPop ==
  ASSUME NEW q \in Seq(Output), q # <<>>, NEW e \in Nat, Stamped(q, e)
  PROVE  Stamped(Tail(q), e) /\ Head(q).entry = e
  BY PopFacts DEF Stamped

LEMMA StampedPush ==
  ASSUME NEW q \in Seq(Output), NEW o \in Output, NEW e \in Nat,
         Stamped(q, e), o.entry = e
  PROVE  Stamped(Append(q, o), e)
  <1> SUFFICES ASSUME NEW i \in 1..(Len(q) + 1)
               PROVE  Append(q, o)[i].entry = e
    BY PushFacts DEF Stamped
  <1>1. CASE i \in 1..Len(q)
    BY <1>1, PushFacts DEF Stamped
  <1>2. CASE i = Len(q) + 1
    BY <1>2, PushFacts
  <1>3. QED
    BY <1>1, <1>2
-----------------------------------------------------------------------------
(* Type correctness. *)

LEMMA TypeInit == Init => TypeOK
  <1> HAVE Init
  <1>1. NoOutput \in Output
    BY DEF NoOutput, Output
  <1>2. /\ applied \in [pos : Output, vel : Output]
        /\ out \in Output /\ popped \in Output
    BY <1>1 DEF Init
  <1>3. entering \in BOOLEAN /\ interpolating \in BOOLEAN /\ rlInitDone \in BOOLEAN
    BY DEF Init
  <1>4. posQueue \in Seq(Output) /\ velQueue \in Seq(Output)
    BY DEF Init
  <1>5. current \in States /\ next \in States
    BY DEF Init, States
  <1>6. QED
    BY <1>2, <1>3, <1>4, <1>5 DEF Init, TypeOK

(* Every step keeps the types. *)
LEMMA TypeStep == TypeOK /\ [Next]_vars => TypeOK'
  <1> SUFFICES ASSUME TypeOK, [Next]_vars
               PROVE  TypeOK'
    OBVIOUS
  <1> USE PipelineAssumption DEF TypeOK
  <1>1. CASE IdleCycle
    BY <1>1 DEF IdleCycle, Choose, States, controlVars, mutexVars, queueVars, policyVars
  <1>2. CASE PolicyCycle
    BY <1>2 DEF PolicyCycle, controlVars, mutexVars, queueVars, policyVars
  <1>3. CASE EnterPolicy
    <2>1. interpolating' \in BOOLEAN
      BY <1>3 DEF EnterPolicy
    <2>2. rlInitDone' \in BOOLEAN
      BY <1>3 DEF EnterPolicy, Exit
    <2>3. /\ pc' = "lockPolicy" /\ current' = next /\ entry' = entry + 1
          /\ entering' = TRUE
          /\ UNCHANGED <<next, mode, popped, applied, mutexVars, model, queueVars,
                         policyVars, out, lost>>
      BY <1>3 DEF EnterPolicy
    <2>4. QED
      BY <2>1, <2>2, <2>3 DEF controlVars, mutexVars, queueVars, policyVars
  <1>4. CASE EnterIdle
    BY <1>4 DEF EnterIdle, Exit, controlVars, mutexVars, queueVars, policyVars
  <1>5. CASE LockPolicy
    BY <1>5 DEF LockPolicy, controlVars, mutexVars, queueVars, policyVars
  <1>6. CASE LockModel
    BY <1>6 DEF LockModel, controlVars, mutexVars, queueVars, policyVars
  <1>7. CASE InitRL
    BY <1>7 DEF InitRL, Output, controlVars, mutexVars, queueVars, policyVars
  <1>8. CASE Unlock
    BY <1>8 DEF Unlock, States, controlVars, mutexVars, queueVars, policyVars
  <1>9. CASE DrainPos
    BY <1>9 DEF DrainPos, controlVars, mutexVars, queueVars, policyVars
  <1>10. CASE DrainVel
    BY <1>10 DEF DrainVel, controlVars, mutexVars, queueVars, policyVars
  <1>11. CASE DrainTau
    BY <1>11 DEF DrainTau, controlVars, mutexVars, queueVars, policyVars
  <1>12. CASE Run
    BY <1>12 DEF Run, AfterRun, controlVars, mutexVars, queueVars, policyVars
  <1>13. CASE PopPos
    <2>1. CASE posQueue = <<>>
      BY <1>13, <2>1 DEF PopPos, AfterRun, controlVars, mutexVars, queueVars, policyVars
    <2>2. CASE posQueue # <<>>
      <3>1. Head(posQueue) \in Output /\ Tail(posQueue) \in Seq(Output)
        BY <2>2, PopFacts
      <3>2. /\ pc' = "popVel" /\ popped' = Head(posQueue)
            /\ posQueue' = Tail(posQueue)
        BY <1>13, <2>2 DEF PopPos
      <3>3. QED
        BY <1>13, <3>1, <3>2 DEF PopPos, controlVars, mutexVars, queueVars, policyVars
    <2>3. QED
      BY <2>1, <2>2
  <1>14. CASE PopVel
    <2>1. CASE velQueue = <<>>
      BY <1>14, <2>1 DEF PopVel, AfterRun, controlVars, mutexVars, queueVars, policyVars
    <2>2. CASE velQueue # <<>>
      <3>1. Head(velQueue) \in Output /\ Tail(velQueue) \in Seq(Output)
        BY <2>2, PopFacts
      <3>2. /\ applied' = [pos |-> popped, vel |-> Head(velQueue)]
            /\ velQueue' = Tail(velQueue)
            /\ lost' = lost
        BY <1>14, <2>2 DEF PopVel
      <3>3. applied' \in [pos : Output, vel : Output]
        BY <3>1, <3>2
      <3>4. QED
        BY <1>14, <3>1, <3>2, <3>3
           DEF PopVel, AfterRun, controlVars, mutexVars, queueVars, policyVars
    <2>3. QED
      BY <2>1, <2>2
  <1>15. CASE CheckChange
    BY <1>15 DEF CheckChange, Choose, States, controlVars, mutexVars, queueVars, policyVars
  <1>16. CASE RunModelLock
    BY <1>16 DEF RunModelLock, controlVars, mutexVars, queueVars, policyVars
  <1>17. CASE RunModelCheck
    BY <1>17 DEF RunModelCheck, controlVars, mutexVars, queueVars, policyVars
  <1>18. CASE TryModel
    BY <1>18 DEF TryModel, Output, controlVars, mutexVars, queueVars, policyVars
  <1>19. CASE Forward
    BY <1>19 DEF Forward, Output, controlVars, mutexVars, queueVars, policyVars
  <1>20. CASE PushPos
    BY <1>20, PushFacts DEF PushPos, controlVars, mutexVars, queueVars, policyVars
  <1>21. CASE PushVel
    BY <1>21, PushFacts DEF PushVel, controlVars, mutexVars, queueVars, policyVars
  <1>22. CASE PushTau
    BY <1>22 DEF PushTau, controlVars, mutexVars, queueVars, policyVars
  <1>23. CASE RunModelUnlock
    BY <1>23 DEF RunModelUnlock, controlVars, mutexVars, queueVars, policyVars
  <1>24. CASE UNCHANGED vars
    BY <1>24 DEF vars, controlVars, mutexVars, queueVars, policyVars
  <1>25. QED
    BY <1>1, <1>2, <1>3, <1>4, <1>5, <1>6, <1>7, <1>8, <1>9, <1>10, <1>11, <1>12, <1>13, <1>14,
       <1>15, <1>16, <1>17, <1>18, <1>19, <1>20, <1>21, <1>22, <1>23, <1>24
       DEF Next, Control, RunModel

(* Types are right in every state: the counters never go below zero, and   *)
(* the program counters stay on the steps of FSM::Run and RunModel.        *)
THEOREM TypeCorrect == Spec => []TypeOK
  BY TypeInit, TypeStep, PTL DEF Spec
-----------------------------------------------------------------------------
(* Mutual exclusion and the quiet hand-over. *)

LEMMA ControlInit == Init => MutexInv /\ PhaseInv /\ QuietInv
  BY PipelineAssumption DEF Init, MutexInv, PhaseInv, QuietInv, Initialising, Draining

(* Who holds the mutexes follows the two program counters. *)
LEMMA MutexStep == TypeOK /\ MutexInv /\ [Next]_vars => MutexInv'
  <1> SUFFICES ASSUME TypeOK, MutexInv, [Next]_vars
               PROVE  MutexInv'
    OBVIOUS
  <1> USE DEF TypeOK, MutexInv, Initialising
  <1>1. CASE IdleCycle
    BY <1>1 DEF IdleCycle, Choose, controlVars, mutexVars, queueVars, policyVars
  <1>2. CASE PolicyCycle
    BY <1>2 DEF PolicyCycle, controlVars, mutexVars, queueVars, policyVars
  <1>3. CASE EnterPolicy
    BY <1>3 DEF EnterPolicy, Exit, controlVars, mutexVars, queueVars, policyVars
  <1>4. CASE EnterIdle
    BY <1>4 DEF EnterIdle, Exit, controlVars, mutexVars, queueVars, policyVars
  <1>5. CASE LockPolicy
    BY <1>5 DEF LockPolicy, controlVars, mutexVars, queueVars, policyVars
  <1>6. CASE LockModel
    BY <1>6 DEF LockModel, controlVars, mutexVars, queueVars, policyVars
  <1>7. CASE InitRL
    BY <1>7 DEF InitRL, controlVars, mutexVars, queueVars, policyVars
  <1>8. CASE Unlock
    BY <1>8 DEF Unlock, controlVars, mutexVars, queueVars, policyVars
  <1>9. CASE DrainPos
    BY <1>9 DEF DrainPos, controlVars, mutexVars, queueVars, policyVars
  <1>10. CASE DrainVel
    BY <1>10 DEF DrainVel, controlVars, mutexVars, queueVars, policyVars
  <1>11. CASE DrainTau
    BY <1>11 DEF DrainTau, controlVars, mutexVars, queueVars, policyVars
  <1>12. CASE Run
    BY <1>12 DEF Run, AfterRun, controlVars, mutexVars, queueVars, policyVars
  <1>13. CASE PopPos
    BY <1>13 DEF PopPos, AfterRun, controlVars, mutexVars, queueVars, policyVars
  <1>14. CASE PopVel
    BY <1>14 DEF PopVel, AfterRun, controlVars, mutexVars, queueVars, policyVars
  <1>15. CASE CheckChange
    BY <1>15 DEF CheckChange, Choose, controlVars, mutexVars, queueVars, policyVars
  <1>16. CASE RunModelLock
    BY <1>16 DEF RunModelLock, controlVars, mutexVars, queueVars, policyVars
  <1>17. CASE RunModelCheck
    BY <1>17 DEF RunModelCheck, controlVars, mutexVars, queueVars, policyVars
  <1>18. CASE TryModel
    BY <1>18 DEF TryModel, controlVars, mutexVars, queueVars, policyVars
  <1>19. CASE Forward
    BY <1>19 DEF Forward, controlVars, mutexVars, queueVars, policyVars
  <1>20. CASE PushPos
    BY <1>20 DEF PushPos, controlVars, mutexVars, queueVars, policyVars
  <1>21. CASE PushVel
    BY <1>21 DEF PushVel, controlVars, mutexVars, queueVars, policyVars
  <1>22. CASE PushTau
    BY <1>22 DEF PushTau, controlVars, mutexVars, queueVars, policyVars
  <1>23. CASE RunModelUnlock
    BY <1>23 DEF RunModelUnlock, controlVars, mutexVars, queueVars, policyVars
  <1>24. CASE UNCHANGED vars
    BY <1>24 DEF vars, controlVars, mutexVars, queueVars, policyVars
  <1>25. QED
    BY <1>1, <1>2, <1>3, <1>4, <1>5, <1>6, <1>7, <1>8, <1>9, <1>10, <1>11, <1>12, <1>13, <1>14,
       <1>15, <1>16, <1>17, <1>18, <1>19, <1>20, <1>21, <1>22, <1>23, <1>24
       DEF Next, Control, RunModel

(* The state machine switches the policy off before it loads another, and  *)
(* RunModel cannot enter its body meanwhile.                               *)
LEMMA PhaseStep ==
  TypeOK /\ MutexInv /\ PhaseInv /\ QuietInv /\ FreshInv /\ [Next]_vars =>
    PhaseInv' /\ QuietInv'
  <1> SUFFICES ASSUME TypeOK, MutexInv, PhaseInv, QuietInv, FreshInv, [Next]_vars
               PROVE  PhaseInv' /\ QuietInv'
    OBVIOUS
  <1> USE PipelineAssumption DEF TypeOK, States, MutexInv, PhaseInv, QuietInv, Initialising, Draining
  <1>1. CASE IdleCycle
    BY <1>1 DEF IdleCycle, Choose, controlVars, mutexVars, queueVars, policyVars
  <1>2. CASE PolicyCycle
    BY <1>2 DEF PolicyCycle, controlVars, mutexVars, queueVars, policyVars
  <1>3. CASE EnterPolicy
    BY <1>3 DEF EnterPolicy, Exit, controlVars, mutexVars, queueVars, policyVars
  <1>4. CASE EnterIdle
    BY <1>4 DEF EnterIdle, Exit, controlVars, mutexVars, queueVars, policyVars
  <1>5. CASE LockPolicy
    BY <1>5 DEF LockPolicy, controlVars, mutexVars, queueVars, policyVars
  <1>6. CASE LockModel
    BY <1>6 DEF LockModel, controlVars, mutexVars, queueVars, policyVars
  <1>7. CASE InitRL
    BY <1>7 DEF InitRL, controlVars, mutexVars, queueVars, policyVars
  <1>8. CASE Unlock
    BY <1>8 DEF Unlock, controlVars, mutexVars, queueVars, policyVars
  <1>9. CASE DrainPos
    BY <1>9 DEF DrainPos, controlVars, mutexVars, queueVars, policyVars
  <1>10. CASE DrainVel
    BY <1>10 DEF DrainVel, controlVars, mutexVars, queueVars, policyVars
  <1>11. CASE DrainTau
    BY <1>11 DEF DrainTau, controlVars, mutexVars, queueVars, policyVars
  <1>12. CASE Run
    BY <1>12 DEF Run, AfterRun, controlVars, mutexVars, queueVars, policyVars
  <1>13. CASE PopPos
    BY <1>13 DEF PopPos, AfterRun, controlVars, mutexVars, queueVars, policyVars
  <1>14. CASE PopVel
    BY <1>14 DEF PopVel, AfterRun, controlVars, mutexVars, queueVars, policyVars
  <1>15. CASE CheckChange
    BY <1>15 DEF CheckChange, Choose, controlVars, mutexVars, queueVars, policyVars
  <1>16. CASE RunModelLock
    BY <1>16 DEF RunModelLock, controlVars, mutexVars, queueVars, policyVars
  <1>17. CASE RunModelCheck
    BY <1>17 DEF RunModelCheck, controlVars, mutexVars, queueVars, policyVars
  <1>18. CASE TryModel
    BY <1>18 DEF TryModel, controlVars, mutexVars, queueVars, policyVars
  <1>19. CASE Forward
    BY <1>19 DEF Forward, controlVars, mutexVars, queueVars, policyVars
  <1>20. CASE PushPos
    BY <1>20 DEF PushPos, controlVars, mutexVars, queueVars, policyVars
  <1>21. CASE PushVel
    BY <1>21 DEF PushVel, controlVars, mutexVars, queueVars, policyVars
  <1>22. CASE PushTau
    BY <1>22 DEF PushTau, controlVars, mutexVars, queueVars, policyVars
  <1>23. CASE RunModelUnlock
    BY <1>23 DEF RunModelUnlock, controlVars, mutexVars, queueVars, policyVars
  <1>24. CASE UNCHANGED vars
    BY <1>24 DEF vars, controlVars, mutexVars, queueVars, policyVars
  <1>25. QED
    BY <1>1, <1>2, <1>3, <1>4, <1>5, <1>6, <1>7, <1>8, <1>9, <1>10, <1>11, <1>12, <1>13, <1>14,
       <1>15, <1>16, <1>17, <1>18, <1>19, <1>20, <1>21, <1>22, <1>23, <1>24
       DEF Next, Control, RunModel
-----------------------------------------------------------------------------
(* Only the present episode's policy feeds the queues. *)

LEMMA FreshInit == Init => FreshInv
  BY PipelineAssumption DEF Init, FreshInv, Draining, Settled, Stamped

LEMMA FreshStep ==
  TypeOK /\ MutexInv /\ PhaseInv /\ QuietInv /\ FreshInv /\ [Next]_vars => FreshInv'
  <1> SUFFICES ASSUME TypeOK, MutexInv, PhaseInv, QuietInv, FreshInv, [Next]_vars
               PROVE  FreshInv'
    OBVIOUS
  <1> USE PipelineAssumption
      DEF TypeOK, States, MutexInv, PhaseInv, QuietInv, FreshInv, Initialising,
          Draining, Settled
  <1>1. CASE IdleCycle
    BY <1>1 DEF IdleCycle, Choose, controlVars, mutexVars, queueVars, policyVars
  <1>2. CASE PolicyCycle
    BY <1>2 DEF PolicyCycle, controlVars, mutexVars, queueVars, policyVars
  <1>3. CASE EnterPolicy
    BY <1>3 DEF EnterPolicy, Exit, controlVars, mutexVars, queueVars, policyVars
  <1>4. CASE EnterIdle
    BY <1>4 DEF EnterIdle, Exit, controlVars, mutexVars, queueVars, policyVars
  <1>5. CASE LockPolicy
    BY <1>5 DEF LockPolicy, controlVars, mutexVars, queueVars, policyVars
  <1>6. CASE LockModel
    BY <1>6 DEF LockModel, controlVars, mutexVars, queueVars, policyVars
  <1>7. CASE InitRL
    BY <1>7 DEF InitRL, controlVars, mutexVars, queueVars, policyVars
  <1>8. CASE Unlock
    BY <1>8 DEF Unlock, controlVars, mutexVars, queueVars, policyVars
  <1>9. CASE DrainPos
    <2>1. Stamped(<<>>, entry)
      BY DEF Stamped
    <2>2. QED
      BY <1>9, <2>1 DEF DrainPos, controlVars, mutexVars, queueVars, policyVars
  <1>10. CASE DrainVel
    <2>1. Stamped(<<>>, entry)
      BY DEF Stamped
    <2>2. QED
      BY <1>10, <2>1 DEF DrainVel, controlVars, mutexVars, queueVars, policyVars
  <1>11. CASE DrainTau
    <2>1. Stamped(<<>>, entry)
      BY DEF Stamped
    <2>2. QED
      BY <1>11, <2>1 DEF DrainTau, controlVars, mutexVars, queueVars, policyVars
  <1>12. CASE Run
    BY <1>12 DEF Run, AfterRun, controlVars, mutexVars, queueVars, policyVars
  <1>13. CASE PopPos
    <2>1. CASE posQueue = <<>>
      BY <1>13, <2>1 DEF PopPos, AfterRun, controlVars, mutexVars, queueVars, policyVars
    <2>2. CASE posQueue # <<>>
      <3>1. Stamped(Tail(posQueue), entry) /\ Head(posQueue).entry = entry
        BY <1>13, <2>2, StampedPop DEF PopPos
      <3>2. QED
        BY <1>13, <2>2, <3>1 DEF PopPos, controlVars, mutexVars, queueVars, policyVars
    <2>3. QED
      BY <2>1, <2>2
  <1>14. CASE PopVel
    <2>1. CASE velQueue = <<>>
      BY <1>14, <2>1 DEF PopVel, AfterRun, controlVars, mutexVars, queueVars, policyVars
    <2>2. CASE velQueue # <<>>
      <3>1. Stamped(Tail(velQueue), entry)
        BY <1>14, <2>2, StampedPop DEF PopVel
      <3>2. QED
        BY <1>14, <2>2, <3>1 DEF PopVel, AfterRun, controlVars, mutexVars, queueVars, policyVars
    <2>3. QED
      BY <2>1, <2>2
  <1>15. CASE CheckChange
    BY <1>15 DEF CheckChange, Choose, controlVars, mutexVars, queueVars, policyVars
  <1>16. CASE RunModelLock
    BY <1>16 DEF RunModelLock, controlVars, mutexVars, queueVars, policyVars
  <1>17. CASE RunModelCheck
    BY <1>17 DEF RunModelCheck, controlVars, mutexVars, queueVars, policyVars
  <1>18. CASE TryModel
    BY <1>18 DEF TryModel, controlVars, mutexVars, queueVars, policyVars
  <1>19. CASE Forward
    BY <1>19 DEF Forward, controlVars, mutexVars, queueVars, policyVars
  <1>20. CASE PushPos
    <2>1. Settled => Stamped(Append(posQueue, out), entry)
      BY <1>20, StampedPush DEF PushPos
    <2>2. QED
      BY <1>20, <2>1 DEF PushPos, controlVars, mutexVars, queueVars, policyVars
  <1>21. CASE PushVel
    <2>1. Settled => Stamped(Append(velQueue, out), entry)
      BY <1>21, StampedPush DEF PushVel
    <2>2. QED
      BY <1>21, <2>1 DEF PushVel, controlVars, mutexVars, queueVars, policyVars
  <1>22. CASE PushTau
    BY <1>22 DEF PushTau, controlVars, mutexVars, queueVars, policyVars
  <1>23. CASE RunModelUnlock
    BY <1>23 DEF RunModelUnlock, controlVars, mutexVars, queueVars, policyVars
  <1>24. CASE UNCHANGED vars
    BY <1>24 DEF vars, controlVars, mutexVars, queueVars, policyVars
  <1>25. QED
    BY <1>1, <1>2, <1>3, <1>4, <1>5, <1>6, <1>7, <1>8, <1>9, <1>10, <1>11, <1>12, <1>13, <1>14,
       <1>15, <1>16, <1>17, <1>18, <1>19, <1>20, <1>21, <1>22, <1>23, <1>24
       DEF Next, Control, RunModel

-----------------------------------------------------------------------------
(* The queues hold consecutive inferences, oldest first. *)

LEMMA OrderInit == Init => OrderInv
  BY DEF Init, OrderInv, LastPos, LastVel, Consecutive, NoOutput

LEMMA OrderStep ==
  TypeOK /\ MutexInv /\ PhaseInv /\ QuietInv /\ OrderInv /\ [Next]_vars => OrderInv'
  <1> SUFFICES ASSUME TypeOK, MutexInv, PhaseInv, QuietInv, OrderInv, [Next]_vars
               PROVE  OrderInv'
    OBVIOUS
  <1> USE DEF TypeOK, MutexInv, PhaseInv, QuietInv, OrderInv, Initialising, Draining,
              LastPos, LastVel
  <1>1. CASE IdleCycle
    BY <1>1 DEF IdleCycle, Choose, controlVars, mutexVars, queueVars, policyVars
  <1>2. CASE PolicyCycle
    BY <1>2 DEF PolicyCycle, controlVars, mutexVars, queueVars, policyVars
  <1>3. CASE EnterPolicy
    BY <1>3 DEF EnterPolicy, Exit, controlVars, mutexVars, queueVars, policyVars
  <1>4. CASE EnterIdle
    BY <1>4 DEF EnterIdle, Exit, controlVars, mutexVars, queueVars, policyVars
  <1>5. CASE LockPolicy
    BY <1>5 DEF LockPolicy, controlVars, mutexVars, queueVars, policyVars
  <1>6. CASE LockModel
    BY <1>6 DEF LockModel, controlVars, mutexVars, queueVars, policyVars
  <1>7. CASE InitRL
    BY <1>7 DEF InitRL, controlVars, mutexVars, queueVars, policyVars
  <1>8. CASE Unlock
    BY <1>8 DEF Unlock, controlVars, mutexVars, queueVars, policyVars
  <1>9. CASE DrainPos
    <2>1. /\ Consecutive(<<>>, LastPos)
          /\ Len(posQueue) \in Nat /\ Len(<<>>) = 0
          /\ applied.pos.tick \in Nat
      BY DEF Consecutive, Output
    <2>2. /\ posQueue' = <<>> /\ pc' # "popVel"
          /\ LastPos' = LastPos /\ LastVel' = LastVel
          /\ UNCHANGED <<rlPc, out, tick, velQueue, applied>>
      BY <1>9 DEF DrainPos, controlVars, mutexVars, queueVars, policyVars
    <2>3. QED
      BY <2>1, <2>2
  <1>10. CASE DrainVel
    <2>1. Consecutive(<<>>, LastVel)
      BY DEF Consecutive
    <2>2. QED
      BY <1>10, <2>1 DEF DrainVel, controlVars, mutexVars, queueVars, policyVars
  <1>11. CASE DrainTau
    BY <1>11 DEF DrainTau, controlVars, mutexVars, queueVars, policyVars
  <1>12. CASE Run
    BY <1>12 DEF Run, AfterRun, controlVars, mutexVars, queueVars, policyVars
  <1>13. CASE PopPos
    <2>1. CASE posQueue = <<>>
      BY <1>13, <2>1 DEF PopPos, AfterRun, controlVars, mutexVars, queueVars, policyVars
    <2>2. CASE posQueue # <<>>
      <3>1. /\ Consecutive(Tail(posQueue), LastPos)
            /\ Head(posQueue).tick = LastPos - Len(posQueue) + 1
            /\ Len(Tail(posQueue)) = Len(posQueue) - 1
        BY <1>13, <2>2, ConsecutivePop, PopFacts
      <3>2. /\ popped' = Head(posQueue) /\ posQueue' = Tail(posQueue)
            /\ LastPos' = LastPos /\ LastVel' = LastVel
            /\ UNCHANGED <<rlPc, out, tick, velQueue, applied>>
        BY <1>13, <2>2 DEF PopPos, controlVars, mutexVars, queueVars, policyVars
      <3>3. Len(posQueue') = Len(posQueue) - 1 /\ LastPos' = LastPos
        BY <3>1, <3>2
      <3>4. Len(posQueue) \in Nat /\ applied.pos.tick \in Nat /\ LastPos \in Int
        BY DEF Output
      <3>5. Consecutive(posQueue', LastPos') /\ Consecutive(velQueue', LastVel')
        BY <3>1, <3>2
      <3>6. popped'.tick = LastPos - Len(posQueue) + 1 /\ applied'.pos = applied.pos
        BY <3>1, <3>2
      <3>7. /\ applied'.pos.tick < popped'.tick
            /\ popped'.tick = LastPos' - Len(posQueue')
            /\ applied'.pos.tick <= LastPos' - Len(posQueue')
        <4>1. applied.pos.tick <= LastPos - Len(posQueue)
          OBVIOUS
        <4> HIDE DEF TypeOK, MutexInv, PhaseInv, QuietInv, OrderInv, LastPos, LastVel
        <4>2. QED
          BY <3>3, <3>4, <3>6, <4>1
      <3>8. QED
        BY <3>2, <3>5, <3>7
    <2>3. QED
      BY <2>1, <2>2
  <1>14. CASE PopVel
    <2>1. CASE velQueue = <<>>
      BY <1>14, <2>1 DEF PopVel, AfterRun, controlVars, mutexVars, queueVars, policyVars
    <2>2. CASE velQueue # <<>>
      <3>1. Consecutive(Tail(velQueue), LastVel)
        BY <1>14, <2>2, ConsecutivePop
      <3>2. /\ applied'.pos.tick = popped.tick
            /\ velQueue' = Tail(velQueue)
            /\ pc' # "popVel"
            /\ LastPos' = LastPos /\ LastVel' = LastVel
            /\ UNCHANGED <<rlPc, out, tick, posQueue>>
        BY <1>14, <2>2 DEF PopVel, AfterRun, controlVars, mutexVars, queueVars, policyVars
      <3>3. QED
        BY <1>14, <3>1, <3>2 DEF PopVel
    <2>3. QED
      BY <2>1, <2>2
  <1>15. CASE CheckChange
    BY <1>15 DEF CheckChange, Choose, controlVars, mutexVars, queueVars, policyVars
  <1>16. CASE RunModelLock
    BY <1>16 DEF RunModelLock, controlVars, mutexVars, queueVars, policyVars
  <1>17. CASE RunModelCheck
    BY <1>17 DEF RunModelCheck, controlVars, mutexVars, queueVars, policyVars
  <1>18. CASE TryModel
    BY <1>18 DEF TryModel, controlVars, mutexVars, queueVars, policyVars
  <1>19. CASE Forward
    BY <1>19 DEF Forward, controlVars, mutexVars, queueVars, policyVars
  <1>20. CASE PushPos
    <2>1. /\ Consecutive(Append(posQueue, out), tick)
          /\ Len(Append(posQueue, out)) = Len(posQueue) + 1
      BY <1>20, ConsecutivePush, PushFacts DEF PushPos
    <2>2. QED
      BY <1>20, <2>1 DEF PushPos, controlVars, mutexVars, queueVars, policyVars
  <1>21. CASE PushVel
    <2>1. Consecutive(Append(velQueue, out), tick)
      BY <1>21, ConsecutivePush, PushFacts DEF PushVel
    <2>2. QED
      BY <1>21, <2>1 DEF PushVel, controlVars, mutexVars, queueVars, policyVars
  <1>22. CASE PushTau
    BY <1>22 DEF PushTau, controlVars, mutexVars, queueVars, policyVars
  <1>23. CASE RunModelUnlock
    BY <1>23 DEF RunModelUnlock, controlVars, mutexVars, queueVars, policyVars
  <1>24. CASE UNCHANGED vars
    BY <1>24 DEF vars, controlVars, mutexVars, queueVars, policyVars
  <1>25. QED
    BY <1>1, <1>2, <1>3, <1>4, <1>5, <1>6, <1>7, <1>8, <1>9, <1>10, <1>11, <1>12, <1>13, <1>14,
       <1>15, <1>16, <1>17, <1>18, <1>19, <1>20, <1>21, <1>22, <1>23, <1>24
       DEF Next, Control, RunModel
-----------------------------------------------------------------------------
(* The two queues stay paired up to one lost position. *)

LEMMA PairingInit == Init => PairingInv
  BY DEF Init, PairingInv, NoOutput, Initialising, Draining

(* The velocity written with a position is behind it by the positions lost. *)
LEMMA WrittenLag ==
  ASSUME TypeOK, OrderInv, PairingInv, PopVel, velQueue # <<>>
  PROVE  applied'.pos.tick - applied'.vel.tick = lost
  <1>1. /\ applied'.pos.tick = popped.tick
        /\ applied'.vel.tick = Head(velQueue).tick
    BY DEF PopVel
  <1>2. popped.tick = LastPos - Len(posQueue)
    BY DEF PopVel, OrderInv
  <1>3. LastPos \in Int /\ LastVel \in Int
    BY DEF LastPos, LastVel, TypeOK
  <1>4. Head(velQueue).tick = LastVel - Len(velQueue) + 1
    BY <1>3, ConsecutivePop DEF OrderInv, TypeOK
  <1>5. LastPos - LastVel = IF rlPc = "pushVel" THEN 1 ELSE 0
    BY DEF LastPos, LastVel, TypeOK
  <1>6. Len(velQueue) + (IF rlPc = "pushVel" THEN 1 ELSE 0) = Len(posQueue) + lost + 1
    BY DEF PairingInv, PopVel
  <1>7. Len(posQueue) \in Nat /\ Len(velQueue) \in Nat /\ lost \in Nat
    BY DEF TypeOK
  <1>8. QED
    BY <1>1, <1>2, <1>3, <1>4, <1>5, <1>6, <1>7

LEMMA PairingStep ==
  TypeOK /\ MutexInv /\ PhaseInv /\ QuietInv /\ FreshInv /\ OrderInv /\ PairingInv
    /\ [Next]_vars => PairingInv'
  <1> SUFFICES ASSUME TypeOK, MutexInv, PhaseInv, QuietInv, FreshInv, OrderInv, PairingInv, [Next]_vars
               PROVE  PairingInv'
    OBVIOUS
  <1>a. /\ Len(posQueue) \in Nat /\ Len(velQueue) \in Nat /\ entry \in Nat
        /\ applied.pos.entry \in Nat /\ applied.pos.tick \in Nat
        /\ applied.vel.tick \in Nat /\ Len(<<>>) = 0
    BY DEF TypeOK, Output
  <1> USE <1>a DEF PairingInv, Initialising, Draining
  <1>1. CASE IdleCycle
    BY <1>1 DEF IdleCycle, Choose, controlVars, mutexVars, queueVars, policyVars
  <1>2. CASE PolicyCycle
    BY <1>2 DEF PolicyCycle, controlVars, mutexVars, queueVars, policyVars
  <1>3. CASE EnterPolicy
    BY <1>3 DEF EnterPolicy, Exit, controlVars, mutexVars, queueVars, policyVars
  <1>4. CASE EnterIdle
    BY <1>4 DEF EnterIdle, Exit, controlVars, mutexVars, queueVars, policyVars
  <1>5. CASE LockPolicy
    BY <1>5 DEF LockPolicy, controlVars, mutexVars, queueVars, policyVars
  <1>6. CASE LockModel
    BY <1>6 DEF LockModel, controlVars, mutexVars, queueVars, policyVars
  <1>7. CASE InitRL
    BY <1>7 DEF InitRL, controlVars, mutexVars, queueVars, policyVars
  <1>8. CASE Unlock
    BY <1>8 DEF Unlock, controlVars, mutexVars, queueVars, policyVars
  <1>9. CASE DrainPos
    BY <1>9 DEF DrainPos, controlVars, mutexVars, queueVars, policyVars
  <1>10. CASE DrainVel
    <2>1. posQueue = <<>> /\ rlPc # "pushVel" /\ applied.pos.entry < entry
      BY <1>10 DEF DrainVel, FreshInv, PhaseInv, QuietInv
    <2>2. QED
      BY <1>10, <2>1 DEF DrainVel, controlVars, mutexVars, queueVars, policyVars
  <1>11. CASE DrainTau
    BY <1>11 DEF DrainTau, controlVars, mutexVars, queueVars, policyVars
  <1>12. CASE Run
    BY <1>12 DEF Run, AfterRun, controlVars, mutexVars, queueVars, policyVars
  <1>13. CASE PopPos
    <2>1. CASE posQueue = <<>>
      <3>1. /\ pc = "popPos" /\ pc' \in {"cycle", "check"}
            /\ UNCHANGED <<rlPc, posQueue, velQueue, lost, applied, entry>>
        BY <1>13, <2>1 DEF PopPos, AfterRun, controlVars, mutexVars, queueVars, policyVars
      <3>2. QED
        BY <3>1
    <2>2. CASE posQueue # <<>>
      <3>1. Len(posQueue') = Len(posQueue) - 1
        BY <1>13, <2>2, PopFacts DEF PopPos, TypeOK
      <3>2. QED
        BY <1>13, <2>2, <3>1 DEF PopPos, controlVars, mutexVars, queueVars, policyVars
    <2>3. QED
      BY <2>1, <2>2
  <1>14. CASE PopVel
    <2>1. CASE velQueue = <<>>
      <3>1. lost = 0
        BY <1>14, <2>1 DEF PopVel
      <3>2. QED
        BY <1>14, <2>1, <3>1 DEF PopVel, AfterRun, controlVars, mutexVars, queueVars, policyVars
    <2>2. CASE velQueue # <<>>
      <3>1. Len(velQueue') = Len(velQueue) - 1
        BY <1>14, <2>2, PopFacts DEF PopVel, TypeOK
      <3>2. /\ applied'.pos.entry = entry
            /\ lost' = lost /\ pc' \in {"cycle", "check"}
            /\ UNCHANGED <<rlPc, posQueue, entry>>
        BY <1>14, <2>2 DEF PopVel, AfterRun, FreshInv, controlVars, mutexVars, queueVars, policyVars
      <3>3. applied'.pos.tick - applied'.vel.tick = lost
        BY <1>14, <2>2, WrittenLag
      <3>4. QED
        BY <1>14, <3>1, <3>2, <3>3 DEF PopVel
    <2>3. QED
      BY <2>1, <2>2
  <1>15. CASE CheckChange
    BY <1>15 DEF CheckChange, Choose, controlVars, mutexVars, queueVars, policyVars
  <1>16. CASE RunModelLock
    BY <1>16 DEF RunModelLock, controlVars, mutexVars, queueVars, policyVars
  <1>17. CASE RunModelCheck
    BY <1>17 DEF RunModelCheck, controlVars, mutexVars, queueVars, policyVars
  <1>18. CASE TryModel
    BY <1>18 DEF TryModel, controlVars, mutexVars, queueVars, policyVars
  <1>19. CASE Forward
    BY <1>19 DEF Forward, controlVars, mutexVars, queueVars, policyVars
  <1>20. CASE PushPos
    <2>1. Len(posQueue') = Len(posQueue) + 1
      BY <1>20, PushFacts DEF PushPos, TypeOK
    <2>2. pc # "drainTau"
      BY <1>20 DEF PushPos, PhaseInv, QuietInv
    <2>3. QED
      BY <1>20, <2>1, <2>2 DEF PushPos, controlVars, mutexVars, queueVars, policyVars
  <1>21. CASE PushVel
    <2>1. Len(velQueue') = Len(velQueue) + 1
      BY <1>21, PushFacts DEF PushVel, TypeOK
    <2>2. QED
      BY <1>21, <2>1 DEF PushVel, controlVars, mutexVars, queueVars, policyVars
  <1>22. CASE PushTau
    BY <1>22 DEF PushTau, controlVars, mutexVars, queueVars, policyVars
  <1>23. CASE RunModelUnlock
    BY <1>23 DEF RunModelUnlock, controlVars, mutexVars, queueVars, policyVars
  <1>24. CASE UNCHANGED vars
    BY <1>24 DEF vars, controlVars, mutexVars, queueVars, policyVars
  <1>25. QED
    BY <1>1, <1>2, <1>3, <1>4, <1>5, <1>6, <1>7, <1>8, <1>9, <1>10, <1>11, <1>12, <1>13, <1>14,
       <1>15, <1>16, <1>17, <1>18, <1>19, <1>20, <1>21, <1>22, <1>23, <1>24
       DEF Next, Control, RunModel

-----------------------------------------------------------------------------
(* The theorems. *)

(* The conjunction of the parts is an inductive invariant. *)
THEOREM Invariance == Spec => []IInv
  <1>1. Init => IInv
    BY TypeInit, ControlInit, FreshInit, OrderInit, PairingInit DEF IInv
  <1>2. IInv /\ [Next]_vars => IInv'
    BY TypeStep, MutexStep, PhaseStep, FreshStep, OrderStep, PairingStep DEF IInv
  <1>3. QED
    BY <1>1, <1>2, PTL DEF Spec

(* At most one position target per episode is dropped for want of its *)
(* velocity, however RLControl and RunModel interleave.               *)
THEOREM LossBounded == Spec => []AtMostOneLost
  <1>1. IInv => AtMostOneLost
    BY DEF IInv, PairingInv, AtMostOneLost
  <1>2. QED
    BY <1>1, Invariance, PTL

(* The pair RLControl writes is never more than one inference apart. *)
THEOREM SkewBounded == Spec => []BoundedSkew
  <1>1. IInv => BoundedSkew
    BY DEF IInv, PairingInv, BoundedSkew
  <1>2. QED
    BY <1>1, Invariance, PTL

(* Forward runs on a model that is loaded, and on the right one. *)
THEOREM ModelReadiness == Spec => []ModelReady
  <1>1. IInv => ModelReady
    BY DEF IInv, TypeOK, PhaseInv, FreshInv, ModelReady
  <1>2. QED
    BY <1>1, Invariance, PTL

(* Forward's try_to_lock never fails, so its fallback is dead code. *)
THEOREM FallbackNeverUsed == Spec => []FallbackUnused
  <1>1. IInv => FallbackUnused
    BY DEF IInv, TypeOK, MutexInv, FallbackUnused, Initialising
  <1>2. QED
    BY <1>1, Invariance, PTL

(* An RL state starts on three empty queues. *)
THEOREM StartsClean == Spec => []CleanStart
  <1>1. IInv => CleanStart
    BY DEF IInv, PhaseInv, QuietInv, FreshInv, CleanStart
  <1>2. QED
    BY <1>1, Invariance, PTL

(* A step that writes targets, which only PopVel is. *)
LEMMA WriteStep ==
  ASSUME IInv, [Next]_vars, applied' # applied
  PROVE  /\ current \in Policies /\ rlInitDone
         /\ applied'.pos.entry = entry /\ applied'.vel.entry = entry
         /\ applied'.pos.tick > applied.pos.tick
         /\ applied'.pos.tick - applied'.vel.tick = lost
         /\ UNCHANGED <<current, entry, rlInitDone>>
  <1>1. PopVel /\ velQueue # <<>>
    BY DEF Next, Control, RunModel, IdleCycle, PolicyCycle, EnterPolicy, EnterIdle,
       LockPolicy, LockModel, InitRL, Unlock, DrainPos, DrainVel, DrainTau, Run,
       PopPos, PopVel, CheckChange, RunModelLock, RunModelCheck, TryModel, Forward,
       PushPos, PushVel, PushTau, RunModelUnlock, vars, controlVars
  <1>2. Head(velQueue).entry = entry
    BY <1>1, StampedPop DEF IInv, TypeOK, FreshInv, PhaseInv, Settled, PopVel
  <1>3. applied' = [pos |-> popped, vel |-> Head(velQueue)]
    BY <1>1 DEF PopVel
  <1>4. popped.entry = entry /\ popped.tick > applied.pos.tick
    BY <1>1 DEF IInv, TypeOK, Output, FreshInv, OrderInv, PopVel
  <1>5. applied'.pos.tick - applied'.vel.tick = lost
    BY <1>1, WrittenLag DEF IInv
  <1>6. QED
    BY <1>1, <1>2, <1>3, <1>4, <1>5 DEF IInv, PhaseInv, PopVel

(* Only the present episode's policy reaches the motors. *)
THEOREM Freshness == Spec => FreshTargets
  <1>1. IInv /\ [Next]_vars =>
          [applied' # applied => /\ current \in Policies
                                 /\ applied'.pos.entry = entry
                                 /\ applied'.vel.entry = entry]_vars
    BY WriteStep
  <1>2. QED
    BY <1>1, Invariance, PTL DEF Spec, FreshTargets

(* Position targets reach the motors in order, none of them twice. *)
THEOREM InOrder == Spec => TargetsInOrder
  <1>1. IInv /\ [Next]_vars =>
          [applied' # applied => applied'.pos.tick > applied.pos.tick]_vars
    BY WriteStep
  <1>2. QED
    BY <1>1, Invariance, PTL DEF Spec, TargetsInOrder

(* The pipeline implements PolicyHandover: every step of the two threads is *)
(* a step of the promise or leaves Phase, entry and applied as they are.    *)
THEOREM Refinement == Spec => ImplementsHandover
  <1>1. Init => Handover!Init
    BY DEF Init, Handover!Init, Phase, NoOutput
  <1>2. IInv /\ [Next]_vars => [Handover!Next]_(Handover!vars)
    <2> SUFFICES ASSUME IInv, [Next]_vars
                 PROVE  [Handover!Next]_(Handover!vars)
      OBVIOUS
    <2>1. CASE applied' # applied
      <3>1. Phase = "engaged" /\ Phase' = Phase
        BY <2>1, WriteStep, PipelineAssumption DEF Phase
      <3>2. /\ Handover!Lag(applied') = lost
            /\ applied.pos.entry = entry => Handover!Lag(applied) <= lost
            /\ lost \in {0, 1}
        BY <2>1, WriteStep DEF Handover!Lag, IInv, PairingInv
      <3>3. applied.pos.entry = entry => Handover!Lag(applied') >= Handover!Lag(applied)
        BY <3>2 DEF Handover!Lag, IInv, TypeOK, Output
      <3>4. Handover!Write
        BY <2>1, <3>1, <3>2, <3>3, WriteStep DEF Handover!Write
      <3>5. QED
        BY <3>4 DEF Handover!Next
    <2>2. CASE applied' = applied /\ EnterPolicy
      <3>1. Handover!Begin
        BY <2>2, PipelineAssumption DEF EnterPolicy, Exit, Handover!Begin, Phase, IInv, PhaseInv
      <3>2. QED
        BY <3>1 DEF Handover!Next
    <2>3. CASE applied' = applied /\ EnterIdle
      <3>1. Handover!End
        BY <2>3 DEF EnterIdle, Handover!End, Phase
      <3>2. QED
        BY <3>1 DEF Handover!Next
    <2>4. CASE applied' = applied /\ Run
      <3>1. Handover!Engage \/ UNCHANGED Handover!vars
        BY <2>4, PipelineAssumption
        DEF Run, Handover!Engage, Handover!vars, Phase, IInv, PhaseInv
      <3>2. QED
        BY <3>1 DEF Handover!Next
    <2>5. CASE applied' = applied /\ Unlock
      <3>1. rlInitDone = FALSE
        BY <2>5 DEF Unlock, IInv, TypeOK, PhaseInv, Initialising
      <3>2. UNCHANGED <<current, entry, rlInitDone>>
        BY <2>5, <3>1 DEF Unlock
      <3>3. QED
        BY <2>5, <3>2 DEF Handover!vars, Phase
    <2>6. CASE applied' = applied /\ ~EnterPolicy /\ ~EnterIdle /\ ~Run /\ ~Unlock
      <3>1. UNCHANGED <<current, entry, rlInitDone>>
        BY <2>6 DEF Next, Control, RunModel, IdleCycle, PolicyCycle,
           LockPolicy, LockModel, InitRL, DrainPos, DrainVel, DrainTau,
           PopPos, PopVel, CheckChange, RunModelLock, RunModelCheck, TryModel, Forward,
           PushPos, PushVel, PushTau, RunModelUnlock, vars, controlVars
      <3>2. QED
        BY <2>6, <3>1 DEF Handover!vars, Phase
    <2>7. QED
      BY <2>1, <2>2, <2>3, <2>4, <2>5, <2>6
  <1>3. QED
    BY <1>1, <1>2, Invariance, PTL DEF Spec, ImplementsHandover, Handover!Spec
=============================================================================
