--------------------------- MODULE UikaFsmProofs ---------------------------
(***************************************************************************)
(* Proofs about UikaFsm, for every control rate, every set of inputs and   *)
(* (where nothing else is said) every number of presses per cycle.         *)
(***************************************************************************)
EXTENDS UikaFsm, TLAPS

Percents == [pre : Percent, up : Percent, down : Percent, glide : Percent]

-----------------------------------------------------------------------------
(* One step of an interpolation leaves its start and stays in range. *)
LEMMA InterpolateFacts ==
  ASSUME NEW p \in Percent, NEW from, NEW to, NEW step \in {Slow, Fast}
  PROVE  /\ Interpolate(p, from, to, step) \in Percent
         /\ Interpolate(p, from, to, step) > 0
         /\ p = Full => Interpolate(p, from, to, step) = Full
  BY FsmAssumption DEF Interpolate, Percent, Full, Slow, Fast

(* Full is a percentage, and not 0. *)
LEMMA FullFacts == Full \in Percent /\ 0 \in Percent /\ Full > 0
  BY FsmAssumption DEF Percent, Full

(* What a state's Run does to its own percent and to the command. *)
LEMMA RunFacts ==
  ASSUME TypeOK, NEW s \in States, NEW p \in Percents, NEW fp \in BOOLEAN,
         NEW from \in Poses, Run(s, p, fp, from)
  PROVE  /\ percent' \in Percents
         /\ command' \in Commands
         /\ s = "Passive" => command' = Damped
         /\ s = "GetUp" /\ fp => percent'.pre > 0
         /\ s = "GetUp" /\ ~fp => percent'.up > 0
         /\ s = "GetUp" /\ percent'.up = Full =>
              \/ command' = Track(DefaultPose(config), Full)
              \/ command' = command /\ p.up = Full
              \/ p.up = Full /\ fp /\ p.pre # Full
         /\ s = "GetUp" /\ fp =>
              /\ percent'.up # p.up => percent'.pre = Full
              /\ p.pre = Full => percent'.pre = Full
         /\ s = "GetDown" => percent'.down > 0
         /\ s = "RLLowBar" => /\ percent'.glide > 0
                              /\ p.glide = Full => percent'.glide = Full
         /\ s \in RLStates => \/ command' = command
                              \/ command'.kind \notin {"none", "damp"}
  <1> USE DEF Percents
  <1>1. CASE s = "Passive" /\ RunPassive(p)
    BY <1>1 DEF RunPassive, Damped, Commands, Poses, RLStates
  <1>2. CASE s = "GetUp" /\ fp /\ RunGetUpFromPassive(p, from)
    <2> DEFINE pre == Interpolate(p.pre, from, "prep", Fast)
               up == Interpolate(p.up, "prep", DefaultPose(config), Slow)
    <2>1. /\ pre \in Percent /\ pre > 0
          /\ up \in Percent /\ up > 0
          /\ p.pre = Full => pre = Full
      BY InterpolateFacts
    <2>2. DefaultPose(config) \in Poses
      BY DEF DefaultPose, Poses
    <2> HIDE DEF pre, up
    <2>3. CASE pre < Full /\ percent' = [p EXCEPT !.pre = pre]
               /\ command' = Track("prep", pre)
      <3>1. percent' \in Percents /\ percent'.pre = pre /\ percent'.up = p.up
        BY <2>1, <2>3
      <3>2. Track("prep", pre) \in Commands
        BY DEF Track, Commands, Poses
      <3>3. pre # Full /\ p.pre # Full
        BY <2>1, <2>3, FullFacts DEF Percent
      <3>4. QED
        BY <1>2, <2>1, <2>3, <3>1, <3>2, <3>3 DEF RLStates
    <2>4. CASE pre = Full /\ percent' = [p EXCEPT !.pre = pre, !.up = up]
               /\ command' = IF p.up = Full THEN command ELSE Track(DefaultPose(config), up)
      <3>1. command \in Commands
        BY DEF TypeOK
      <3>2. percent' \in Percents /\ percent'.pre = pre /\ percent'.up = up
        BY <2>1, <2>4
      <3>3. Track(DefaultPose(config), up) \in Commands
        BY <2>2 DEF Track, Commands
      <3>4. QED
        BY <1>2, <2>1, <2>4, <3>1, <3>2, <3>3 DEF RLStates
    <2>5. QED
      BY <1>2, <2>3, <2>4 DEF RunGetUpFromPassive, pre, up
  <1>3. CASE s = "GetUp" /\ ~fp /\ RunGetUpDirectly(p, from)
    <2> DEFINE up == Interpolate(p.up, from, DefaultPose(config), Fast)
    <2>1. up \in Percent /\ up > 0
      BY InterpolateFacts
    <2>2. /\ percent' = [p EXCEPT !.up = up]
          /\ command' = IF p.up = Full THEN command ELSE Track(DefaultPose(config), up)
      BY <1>3 DEF RunGetUpDirectly
    <2> HIDE DEF up
    <2>3. percent' \in Percents /\ percent'.up = up
      BY <2>1, <2>2
    <2>4. Track(DefaultPose(config), up) \in Commands /\ command \in Commands
      BY DEF Track, Commands, DefaultPose, Poses, TypeOK
    <2>5. QED
      BY <1>3, <2>1, <2>2, <2>3, <2>4 DEF RLStates
  <1>4. CASE s = "GetDown" /\ RunGetDown(p, from)
    <2> DEFINE down == Interpolate(p.down, from, startPose, Slow)
    <2>1. down \in Percent /\ down > 0
      BY InterpolateFacts
    <2>2. /\ percent' = [p EXCEPT !.down = down]
          /\ command' = IF p.down = Full THEN command ELSE Track(startPose, down)
      BY <1>4 DEF RunGetDown
    <2> HIDE DEF down
    <2>3. percent' \in Percents /\ percent'.down = down
      BY <2>1, <2>2
    <2>4. Track(startPose, down) \in Commands /\ command \in Commands
      BY DEF Track, Commands, TypeOK
    <2>5. QED
      BY <1>4, <2>1, <2>2, <2>3, <2>4 DEF RLStates
  <1>5. CASE s = "RLLocomotion" /\ RunLocomotion(p)
    <2>1. command \in Commands
      BY DEF TypeOK
    <2>2. /\ PolicyTarget("RLLocomotion") \in Commands
          /\ PolicyTarget("RLLocomotion").kind \notin {"none", "damp"}
      BY DEF PolicyTarget, Commands, Poses, RLStates
    <2>3. QED
      BY <1>5, <2>1, <2>2 DEF RunLocomotion, RLStates
  <1>6. CASE s = "RLLowBar" /\ RunLowBar(p, from)
    <2> DEFINE glide == Interpolate(p.glide, from, "crouch", Fast)
               tracking == IF p.glide = Full THEN command ELSE Track("crouch", glide)
    <2>1. glide \in Percent /\ glide > 0 /\ (p.glide = Full => glide = Full)
      BY InterpolateFacts
    <2>2. /\ percent' = [p EXCEPT !.glide = glide]
          /\ command' = tracking \/ command' = PolicyTarget("RLLowBar")
      BY <1>6 DEF RunLowBar
    <2> HIDE DEF glide
    <2>3. percent' \in Percents /\ percent'.glide = glide
      BY <2>1, <2>2
    <2>4. /\ PolicyTarget("RLLowBar") \in Commands
          /\ PolicyTarget("RLLowBar").kind \notin {"none", "damp"}
      BY DEF PolicyTarget, Commands, Poses, RLStates
    <2>5. /\ Track("crouch", glide) \in Commands /\ command \in Commands
          /\ Track("crouch", glide).kind = "track"
      BY DEF Track, Commands, Poses, TypeOK
    <2>6. QED
      BY <1>6, <2>1, <2>2, <2>3, <2>4, <2>5 DEF RLStates
  <1>7. QED
    BY <1>1, <1>2, <1>3, <1>4, <1>5, <1>6 DEF Run

-----------------------------------------------------------------------------
(* Type correctness. *)

LEMMA TypeInit == Init => TypeOK
  <1> SUFFICES ASSUME Init PROVE TypeOK
    OBVIOUS
  <1>1. percent \in Percents
    BY FullFacts DEF Init, Percents
  <1>2. command \in Commands
    BY DEF Init, Unpowered, Commands, Poses
  <1>3. pressed \in 0..Burst
    BY FsmAssumption DEF Init
  <1>4. QED
    BY <1>1, <1>2, <1>3 DEF Init, TypeOK, Percents, States, Configs, Poses

(* A choice of CheckChange is a state. *)
LEMMA CheckChangeType ==
  ASSUME current \in States, NEW p
  PROVE  CheckChange(p) \in States
  <1>1. ChangeGetUp(p) \in States
    BY DEF ChangeGetUp, States, RLStates
  <1>2. ChangeGetDown(p) \in States
    BY DEF ChangeGetDown, States
  <1>3. current \in RLStates => ChangeRL \in States
    BY DEF ChangeRL, States, RLStates
  <1>4. QED
    BY <1>1, <1>2, <1>3 DEF CheckChange, States, RLStates

(* What Enter makes of the percentages. *)
LEMMA EnterPercentFacts ==
  ASSUME TypeOK, NEW s \in States
  PROVE  /\ EnterPercent(s) \in Percents
         /\ s = "GetUp" => EnterPercent(s).up = 0
  BY FullFacts DEF EnterPercent, TypeOK, Percents, States, RLStates

LEMMA TypeStep == TypeOK /\ [Next]_vars => TypeOK'
  <1> SUFFICES ASSUME TypeOK, [Next]_vars PROVE TypeOK'
    OBVIOUS
  <1>1. CASE SensorsArrive
    BY <1>1 DEF SensorsArrive, TypeOK, fsmVars, inputVars, motionVars
  <1>2. ASSUME NEW k \in Keys \cup {"P"}, SetKeyboard(k)
        PROVE  /\ keyboard' \in Keys \cup {"P", "None"}
               /\ lastKeyboard' \in Keys \cup {"P", "None"}
               /\ pressed' \in 0..Burst
               /\ gamepad' \in Pads \cup {"None"}
    BY <1>2, FsmAssumption DEF SetKeyboard, TypeOK
  <1>3. ASSUME NEW k \in Keys, PressKey(k) PROVE TypeOK'
    <2>1. SetKeyboard(k)
      BY <1>3 DEF PressKey
    <2>2. QED
      BY <1>2, <1>3, <2>1 DEF PressKey, TypeOK, fsmVars, motionVars
  <1>4. CASE AttitudeProtect
    <2>1. SetKeyboard("P")
      BY <1>4 DEF AttitudeProtect
    <2>2. QED
      BY <1>2, <1>4, <2>1 DEF AttitudeProtect, TypeOK, fsmVars, motionVars
  <1>5. ASSUME NEW b \in Pads, PressPad(b) PROVE TypeOK'
    BY <1>5 DEF PressPad, TypeOK, fsmVars, motionVars
  <1>6. CASE NormalCycle
    <2>1. percent' \in Percents /\ command' \in Commands
      BY <1>6, RunFacts DEF NormalCycle, TypeOK, Percents, Poses
    <2>2. CheckChange(percent') \in States
      BY CheckChangeType DEF TypeOK
    <2>3. rlInitDone' \in BOOLEAN /\ stopping' \in BOOLEAN
      BY <1>6 DEF NormalCycle
    <2>4. next' \in States /\ mode' \in {"NORMAL", "CHANGE"}
      BY <1>6, <2>2 DEF NormalCycle, TypeOK
    <2>5. QED
      BY <1>6, <2>1, <2>3, <2>4 DEF NormalCycle, TypeOK, Percents, inputVars
  <1>7. CASE EnterState
    <2>1. PICK q \in Poses :
            /\ standFromPassive' = IF next = "GetUp" THEN current = "Passive"
                                                     ELSE standFromPassive
            /\ startPose' = IF next = "GetUp" THEN q ELSE startPose
            /\ Run(next, EnterPercent(next), current = "Passive", q)
            /\ restPose' = IF current = "Passive" THEN q ELSE restPose
      BY <1>7 DEF EnterState
    <2>2. percent' \in Percents /\ command' \in Commands
      BY <2>1, RunFacts, EnterPercentFacts DEF TypeOK
    <2>3. /\ standFromPassive' \in BOOLEAN /\ startPose' \in Poses
          /\ restPose' \in Poses
      BY <2>1 DEF TypeOK
    <2>4. /\ rlInitDone' \in BOOLEAN /\ stopping' \in BOOLEAN
          /\ asked' \in BOOLEAN /\ wanted' \in BOOLEAN
      BY <1>7 DEF EnterState
    <2>5. config' \in Configs
      BY <1>7 DEF EnterState, TypeOK, ConfigOf, Configs
    <2>6. QED
      BY <1>7, <2>2, <2>3, <2>4, <2>5 DEF EnterState, TypeOK, Percents, inputVars
  <1>8. CASE EnterFails
    <2>1. config' \in Configs
      BY <1>8 DEF EnterFails, TypeOK, ConfigOf, Configs
    <2>2. percent' \in Percents
      BY <1>8, EnterPercentFacts DEF EnterFails, TypeOK
    <2>3. QED
      BY <1>8, <2>1, <2>2 DEF EnterFails, TypeOK, Percents, inputVars, States
  <1>9. CASE ClearInput
    BY <1>9, FsmAssumption DEF ClearInput, TypeOK, fsmVars, motionVars
  <1>10. CASE UNCHANGED vars
    BY <1>10 DEF vars, fsmVars, inputVars, motionVars, TypeOK
  <1>11. QED
    BY <1>1, <1>3, <1>4, <1>5, <1>6, <1>7, <1>8, <1>9, <1>10
    DEF Next, RobotControl

(* Every variable keeps its type: percentages stay within an interpolation, *)
(* the state machine among its five states.                                *)
THEOREM TypeCorrect == Spec => []TypeOK
  BY TypeInit, TypeStep, PTL DEF Spec

-----------------------------------------------------------------------------
(* The inductive invariant. *)

LEMMA InvInit == Init => IInv
  <1> SUFFICES ASSUME Init PROVE IInv
    OBVIOUS
  <1>1. TypeOK
    BY TypeInit
  <1>2. QED
    BY <1>1 DEF Init, IInv, ChangeInv, StandInv, NeverLimp, OwnConfig, StopInv,
                ConfigInv, StartedInv, RLStates

(* Where the choices of CheckChange come from. *)
LEMMA CheckChangeFacts ==
  ASSUME current \in States, NEW p
  PROVE  /\ AskStop /\ current # "Passive" => CheckChange(p) = "Passive"
         /\ CheckChange(p) \in RLStates /\ current \notin RLStates =>
              current = "GetUp" /\ p.up = Full
  <1>1. /\ AskStop => ChangeGetUp(p) = "Passive"
        /\ ChangeGetUp(p) \in RLStates => p.up = Full
    BY DEF ChangeGetUp, RLStates
  <1>2. /\ AskStop => ChangeGetDown(p) = "Passive"
        /\ ChangeGetDown(p) \notin RLStates
    BY DEF ChangeGetDown, RLStates
  <1>3. AskStop => ChangeRL = "Passive"
    BY DEF ChangeRL
  <1>4. QED
    BY <1>1, <1>2, <1>3 DEF CheckChange, States, RLStates

(* The inputs change nothing that the invariant speaks of. *)
LEMMA InvInput ==
  ASSUME IInv, TypeOK', UNCHANGED <<fsmVars, motionVars, stopping>>
  PROVE  IInv'
  BY DEF IInv, fsmVars, motionVars, ChangeInv, StandInv, NeverLimp, OwnConfig,
         StopInv, ConfigInv, StartedInv

LEMMA InvNormal ==
  ASSUME IInv, TypeOK', NormalCycle
  PROVE  IInv'
  <1>1. TypeOK
    BY DEF IInv
  <1>2. /\ mode = "NORMAL" /\ current' = current /\ config' = config
        /\ standFromPassive' = standFromPassive
        /\ Run(current, percent, standFromPassive, "ground")
        /\ rlInitDone' = (rlInitDone \/ Engages(current, percent'))
        /\ stopping' = (stopping \/ (AskStop /\ current # "Passive"))
    BY DEF NormalCycle
  <1>3. /\ current \in States /\ percent \in Percents
        /\ standFromPassive \in BOOLEAN /\ "ground" \in Poses
    BY <1>1 DEF TypeOK, Percents, Poses
  <1>4. CheckChange(percent') = current => next' = next /\ mode' = "NORMAL"
    BY <1>2 DEF NormalCycle
  <1>5. CheckChange(percent') # current =>
          next' = CheckChange(percent') /\ mode' = "CHANGE"
    BY DEF NormalCycle
  <1>6. ChangeInv'
    <2>1. next = current
      BY <1>2 DEF IInv, ChangeInv
    <2>2. QED
      BY <1>2, <1>3, <1>4, <1>5, <2>1, CheckChangeFacts DEF ChangeInv
  <1>7. StandInv'
    <2>1. SUFFICES ASSUME current = "GetUp"
                   PROVE  /\ percent'.up = Full =>
                               command' = Track(DefaultPose(config), Full)
                          /\ standFromPassive /\ percent'.up > 0 =>
                               percent'.pre = Full
      BY <1>2 DEF StandInv
    <2>2. /\ percent.up = Full => command = Track(DefaultPose(config), Full)
          /\ standFromPassive /\ percent.up > 0 => percent.pre = Full
      BY <2>1 DEF IInv, StandInv
    <2>3. percent.up = Full => percent.up > 0
      BY FullFacts
    <2>4. QED
      BY <1>1, <1>2, <1>3, <2>1, <2>2, <2>3, RunFacts
  <1>8. NeverLimp'
    BY <1>1, <1>2, <1>3, RunFacts DEF IInv, NeverLimp
  <1>9. OwnConfig'
    BY <1>1, <1>2, <1>3, RunFacts DEF IInv, OwnConfig, ConfigInv, Engages, RLStates
  <1>10. StopInv'
    <2>1. ~stopping
      BY <1>2 DEF IInv, StopInv
    <2>2. QED
      BY <1>2, <1>3, <1>5, <2>1, CheckChangeFacts DEF StopInv
  <1>11. ConfigInv'
    BY <1>2 DEF IInv, ConfigInv, Engages
  <1>12. StartedInv'
    BY <1>1, <1>2, <1>3, RunFacts DEF StartedInv
  <1>13. QED
    BY <1>6, <1>7, <1>8, <1>9, <1>10, <1>11, <1>12 DEF IInv

(* The command with which an RL state is entered holds the robot up. *)
LEMMA EntryHolds ==
  ASSUME IInv, mode = "CHANGE", next \in RLStates
  PROVE  command.kind \notin {"none", "damp"}
  <1>1. CASE current \in RLStates
    BY <1>1 DEF IInv, NeverLimp
  <1>2. CASE current \notin RLStates
    BY <1>2 DEF IInv, ChangeInv, StandInv, Track
  <1>3. QED
    BY <1>1, <1>2

LEMMA InvEnter ==
  ASSUME IInv, TypeOK', EnterState
  PROVE  IInv'
  <1>1. TypeOK
    BY DEF IInv
  <1>2. PICK q \in Poses :
          /\ standFromPassive' = IF next = "GetUp" THEN current = "Passive"
                                                   ELSE standFromPassive
          /\ Run(next, EnterPercent(next), current = "Passive", q)
    BY DEF EnterState
  <1>3. /\ mode = "CHANGE" /\ current' = next /\ next' = next /\ mode' = "NORMAL"
        /\ config' = IF next \in RLStates THEN ConfigOf(next) ELSE config
        /\ rlInitDone' = (Exit \/ Engages(next, percent'))
        /\ stopping' = (stopping /\ next # "Passive")
    BY DEF EnterState
  <1>4. /\ next \in States /\ EnterPercent(next) \in Percents
        /\ next = "GetUp" => EnterPercent(next).up = 0
        /\ (current = "Passive") \in BOOLEAN
    BY <1>1, EnterPercentFacts DEF TypeOK
  <1>5. ChangeInv'
    BY <1>3 DEF ChangeInv
  <1>6. StandInv'
    <2>1. SUFFICES ASSUME next = "GetUp"
                   PROVE  /\ percent'.up = Full =>
                               command' = Track(DefaultPose(config), Full)
                          /\ standFromPassive' /\ percent'.up > 0 =>
                               percent'.pre = Full
      BY <1>3 DEF StandInv, RLStates
    <2>2. EnterPercent(next).up = 0 /\ EnterPercent(next).up # Full
      BY <1>4, <2>1, FullFacts
    <2>3. standFromPassive' = (current = "Passive")
      BY <1>2, <2>1
    <2>4. percent'.up > 0 => percent'.up # 0
      OBVIOUS
    <2>5. QED
      BY <1>1, <1>2, <1>4, <2>1, <2>2, <2>3, <2>4, RunFacts
  <1>7. NeverLimp'
    BY <1>1, <1>2, <1>3, <1>4, EntryHolds, RunFacts DEF NeverLimp
  <1>8. OwnConfig'
    <2>1. ~Exit
      BY DEF Exit, IInv, OwnConfig
    <2>2. QED
      BY <1>3, <2>1 DEF OwnConfig, Engages, RLStates
  <1>9. StopInv'
    BY <1>3 DEF IInv, StopInv
  <1>10. ConfigInv'
    BY <1>3 DEF ConfigInv, Engages
  <1>11. StartedInv'
    BY <1>1, <1>2, <1>3, <1>4, RunFacts DEF StartedInv
  <1>12. QED
    BY <1>5, <1>6, <1>7, <1>8, <1>9, <1>10, <1>11 DEF IInv

LEMMA InvFails ==
  ASSUME IInv, TypeOK', EnterFails
  PROVE  IInv'
  <1>1. /\ mode' = "CHANGE" /\ next' = "Passive" /\ current' \in RLStates
        /\ command' = command /\ ~rlInitDone'
    BY DEF EnterFails
  <1>2. NeverLimp'
    BY <1>1, EntryHolds DEF EnterFails, NeverLimp
  <1>3. QED
    BY <1>1, <1>2 DEF IInv, ChangeInv, StandInv, OwnConfig, StopInv, ConfigInv,
                      StartedInv, RLStates

LEMMA InvStep == IInv /\ [Next]_vars => IInv'
  <1> SUFFICES ASSUME IInv, [Next]_vars PROVE IInv'
    OBVIOUS
  <1>1. TypeOK'
    BY TypeStep DEF IInv
  <1>2. CASE NormalCycle
    BY <1>1, <1>2, InvNormal
  <1>3. CASE EnterState
    BY <1>1, <1>3, InvEnter
  <1>4. CASE EnterFails
    BY <1>1, <1>4, InvFails
  <1>5. CASE \/ SensorsArrive \/ AttitudeProtect \/ ClearInput \/ UNCHANGED vars
             \/ \E k \in Keys : PressKey(k)
             \/ \E b \in Pads : PressPad(b)
    <2>1. UNCHANGED <<fsmVars, motionVars, stopping>>
      BY <1>5 DEF SensorsArrive, AttitudeProtect, ClearInput, PressKey, PressPad, vars
    <2>2. QED
      BY <1>1, <2>1, InvInput
  <1>6. QED
    BY <1>2, <1>3, <1>4, <1>5 DEF Next, RobotControl

(* The state machine changes state only where its states ask for it, with  *)
(* the percentages, the configuration and the command they rely on.        *)
THEOREM Invariance == Spec => []IInv
  BY InvInit, InvStep, PTL DEF Spec

-----------------------------------------------------------------------------
(* The properties. *)

(* The motors are never limp in an RL state, from its entry to its exit.   *)
THEOREM NeverLimpHolds == Spec => []NeverLimp
  <1>1. IInv => NeverLimp
    BY DEF IInv
  <1>2. QED
    BY <1>1, Invariance, PTL

(* A running policy has its own configuration, and its own start pose.     *)
THEOREM OwnConfigHolds == Spec => []OwnConfig
  <1>1. IInv => OwnConfig
    BY DEF IInv
  <1>2. QED
    BY <1>1, Invariance, PTL

(* Policies are entered from a finished GetUp, or from one another.        *)
THEOREM StandsFirstHolds == Spec => StandsFirst
  <1>1. IInv /\ [Next]_vars =>
          [current' \in RLStates /\ current \notin RLStates =>
             /\ current = "GetUp"
             /\ percent.up = Full
             /\ command = Track(DefaultPose(config), Full)]_vars
    <2> SUFFICES ASSUME IInv, [Next]_vars, current' \in RLStates,
                        current \notin RLStates
                 PROVE  /\ current = "GetUp"
                        /\ percent.up = Full
                        /\ command = Track(DefaultPose(config), Full)
      OBVIOUS
    <2>1. EnterState \/ EnterFails
      BY DEF Next, RobotControl, SensorsArrive, PressKey, PressPad, AttitudeProtect,
             NormalCycle, ClearInput, vars, fsmVars
    <2>2. mode = "CHANGE" /\ next \in RLStates
      BY <2>1 DEF EnterState, EnterFails
    <2>3. QED
      BY <2>2 DEF IInv, ChangeInv, StandInv
  <1>2. QED
    BY <1>1, Invariance, PTL DEF Spec, StandsFirst

(* After a stop, or a policy that failed to load, the next cycle damps.    *)
THEOREM StopDampsHolds == Spec => StopDamps
  <1>1. IInv /\ [Next]_vars =>
          [stopping /\ pc = "run" /\ pc' = "clear" =>
             current' = "Passive" /\ command' = Damped]_vars
    <2> SUFFICES ASSUME IInv, [Next]_vars, stopping, pc = "run", pc' = "clear"
                 PROVE  current' = "Passive" /\ command' = Damped
      OBVIOUS
    <2>1. mode = "CHANGE" /\ next = "Passive"
      BY DEF IInv, StopInv
    <2>2. NormalCycle \/ EnterState \/ EnterFails
      BY DEF Next, RobotControl, SensorsArrive, PressKey, PressPad, AttitudeProtect,
             ClearInput, vars
    <2>3. EnterState
      BY <2>1, <2>2 DEF NormalCycle, EnterFails, RLStates
    <2>4. QED
      BY <2>1, <2>3 DEF EnterState, Run, RunPassive
  <1>2. QED
    BY <1>1, Invariance, PTL DEF Spec, StopDamps

-----------------------------------------------------------------------------
(* With at most one key per control cycle, no key outlives its cycle. *)

LEMMA InputInit == Init => InputInv
  BY DEF Init, InputInv, LeavesPassiveWhenAsked, AskUp

(* A press is the first since ClearInput, and becomes the only key latched. *)
LEMMA PressFacts ==
  ASSUME Burst <= 1, TypeOK, InputInv, NEW k, SetKeyboard(k)
  PROVE  /\ pressed' = 1 /\ lastKeyboard' = "None" /\ keyboard' = k
         /\ gamepad' = gamepad
  <1>1. pressed = 0 /\ pressed' = 1
    BY FsmAssumption DEF SetKeyboard, TypeOK
  <1>2. keyboard = "None"
    BY <1>1 DEF InputInv
  <1>3. QED
    BY <1>1, <1>2 DEF SetKeyboard, InputInv

LEMMA InputStep ==
  ASSUME Burst <= 1, IInv, InputInv, [Next]_vars
  PROVE  InputInv'
  <1>1. TypeOK /\ OwnConfig
    BY DEF IInv
  <1>2. ASSUME NEW k \in Keys, PressKey(k) PROVE InputInv'
    <2>1. SetKeyboard(k)
      BY <1>2 DEF PressKey
    <2>2. pressed' = 1 /\ lastKeyboard' = "None" /\ keyboard' = k /\ gamepad' = gamepad
      BY <1>1, <2>1, PressFacts
    <2>3. QED
      BY <1>2, <2>2 DEF PressKey, InputInv, AskUp, LeavesPassiveWhenAsked, fsmVars
  <1>3. CASE AttitudeProtect
    <2>1. SetKeyboard("P") /\ current # "Passive"
      BY <1>1, <1>3 DEF AttitudeProtect, OwnConfig, RLStates
    <2>2. pressed' = 1 /\ lastKeyboard' = "None"
      BY <1>1, <2>1, PressFacts
    <2>3. current' # "Passive"
      BY <1>3, <2>1 DEF AttitudeProtect, fsmVars
    <2>4. QED
      BY <2>2, <2>3 DEF InputInv, LeavesPassiveWhenAsked
  <1>4. ASSUME NEW b \in Pads, PressPad(b) PROVE InputInv'
    BY <1>4 DEF PressPad, InputInv, AskUp, LeavesPassiveWhenAsked, fsmVars
  <1>5. CASE NormalCycle
    <2>1. pc' = "clear" /\ current' = current /\ asked' = asked
      BY <1>5 DEF NormalCycle
    <2>2. lastKeyboard' = lastKeyboard /\ keyboard' = keyboard /\ pressed' = pressed
      BY <1>5 DEF NormalCycle, inputVars
    <2>3. current = "Passive" /\ mode' = "CHANGE" => AskUp
      <3>1. current = "Passive" /\ ~AskUp => CheckChange(percent') = "Passive"
        BY DEF CheckChange, RLStates
      <3>2. CheckChange(percent') = current => mode' = mode
        BY <1>5 DEF NormalCycle
      <3>3. QED
        BY <1>5, <3>1, <3>2 DEF NormalCycle
    <2>4. pc = "run"
      BY <1>5 DEF NormalCycle
    <2>5. QED
      BY <2>1, <2>2, <2>3, <2>4 DEF InputInv, LeavesPassiveWhenAsked
  <1>6. CASE EnterState
    BY <1>6 DEF EnterState, InputInv, LeavesPassiveWhenAsked, inputVars
  <1>7. CASE EnterFails
    BY <1>7 DEF EnterFails, InputInv, LeavesPassiveWhenAsked, inputVars, RLStates
  <1>8. CASE ClearInput
    BY <1>8 DEF ClearInput, InputInv, LeavesPassiveWhenAsked, AskUp, fsmVars
  <1>9. CASE SensorsArrive \/ UNCHANGED vars
    BY <1>9 DEF SensorsArrive, vars, fsmVars, inputVars, InputInv, AskUp,
                LeavesPassiveWhenAsked
  <1>10. QED
    BY <1>2, <1>3, <1>4, <1>5, <1>6, <1>7, <1>8, <1>9 DEF Next, RobotControl

(* If no two keys are pressed within one control cycle, the robot leaves   *)
(* Passive only when it was asked to since Passive was entered.            *)
THEOREM LeavesPassiveWhenAskedHolds ==
  ASSUME Burst <= 1
  PROVE  Spec => []LeavesPassiveWhenAsked
  <1>1. IInv /\ InputInv /\ [Next]_vars => InputInv'
    BY InputStep
  <1>2. InputInv => LeavesPassiveWhenAsked
    BY DEF InputInv
  <1>3. QED
    BY <1>1, <1>2, InputInit, Invariance, PTL DEF Spec
=============================================================================
