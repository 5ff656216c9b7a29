----------------------- MODULE OperatorCommandProofs -----------------------
(***************************************************************************)
(* Proofs about OperatorCommand, for any number of axes, any policies and  *)
(* limits, any keys and any messages.                                      *)
(*                                                                         *)
(* The range of the speeds is an invariant of the control cycle: at its    *)
(* end the clamp has brought every speed within the limits, from there a   *)
(* key moves one by one step, and the joystick may put any of them to a    *)
(* position of the stick at any time. InitRL, which changes the limits,    *)
(* excludes the policy loop and clears what was typed before.              *)
(***************************************************************************)
EXTENDS OperatorCommand, TLAPS

(* The axes start with 1, and the next one is an axis. *)
LEMMA AxesFacts ==
  /\ 1 \in Axes /\ NumAxes \in Axes
  /\ Axes \subseteq Int
  /\ \A a \in Axes : a < NumAxes => a + 1 \in Axes
  /\ \A a \in Axes : ~ a < 1 /\ a <= NumAxes
BY CommandAssumption DEF Axes

(* What is settled: nothing, a clamped speed, a position of the stick. *)
LEMMA SettledFacts ==
  ASSUME NEW p \in Policies, NEW a \in Axes
  PROVE  /\ Settled(p, 0, a)
         /\ \A v \in Int :
              /\ v < Lower[p][a] => Settled(p, Lower[p][a], a)
              /\ v > Upper[p][a] => Settled(p, Upper[p][a], a)
              /\ ~ v < Lower[p][a] /\ ~ v > Upper[p][a] => Settled(p, v, a)
         /\ \A m \in Messages : Settled(p, m.axes[a], a)
<1>1. /\ Lower[p][a] \in Int /\ Upper[p][a] \in Int
      /\ Lower[p][a] <= 0 /\ 0 <= Upper[p][a]
  BY CommandAssumption
<1> QED
  BY <1>1 DEF Settled, Stick

(* One step from a settled speed is near it. *)
LEMMA NearFacts ==
  ASSUME NEW p, NEW a, NEW v \in Int
  PROVE  /\ Settled(p, v, a) => /\ Near(p, v, a)
                                /\ Near(p, v + 1, a)
                                /\ Near(p, v - 1, a)
         /\ Settled(p, v - 1, a) => Near(p, v, a)
<1>1. ASSUME NEW u \in Int, u \in {v, v + 1, v - 1} PROVE v \in {u - 1, u, u + 1}
  BY <1>1
<1>2. ASSUME NEW u \in Int, u \in {v, v + 1, v - 1}, Settled(p, v, a)
      PROVE  Near(p, u, a)
  BY <1>1, <1>2, Zenon DEF Near
<1>3. v \in {v, v + 1, v - 1} /\ v + 1 \in Int /\ v - 1 \in Int
  OBVIOUS
<1>4. v + 1 \in {v, v + 1, v - 1} /\ v - 1 \in {v, v + 1, v - 1}
  OBVIOUS
<1>5. Settled(p, v - 1, a) => Near(p, v, a)
  BY Zenon DEF Near
<1> QED
  BY <1>2, <1>3, <1>4, <1>5, Zenon

(* JoyCallback sets gamepad to one of its values. *)
LEMMA PadsInRange ==
  ASSUME NEW buttons, NEW i \in DOMAIN PadsOf(buttons)
  PROVE  PadsOf(buttons)[i] \in Pads
  BY DEF PadsOf, Pads

-----------------------------------------------------------------------------
(* Every variable keeps its type. *)
LEMMA TypeStep == TypeOK /\ JoyInv /\ MutexInv /\ [Next]_vars => TypeOK'
<1> SUFFICES ASSUME TypeOK, JoyInv, MutexInv, [Next]_vars PROVE TypeOK'
  OBVIOUS
<1> USE DEF TypeOK, Goto, EachAxis, NextAxis, controlVars, inputVars, joyVars, policyVars,
            onlyControlPc, notPolicy
<1>1. CASE NormalCycle
  BY <1>1, AxesFacts DEF NormalCycle, RunSetsReady, Modes
<1>2. CASE ChangeCycle
  <2>1. ready' \in BOOLEAN
    BY <1>2 DEF ChangeCycle
  <2> QED
    BY <1>2, <2>1, AxesFacts DEF ChangeCycle
<1>3. CASE InitRL
  BY <1>3, AxesFacts DEF InitRL, MutexInv
<1>4. CASE InitControl
  BY <1>4, AxesFacts DEF InitControl
<1>5. CASE InitDone
  BY <1>5, AxesFacts DEF InitDone, RunSetsReady
<1>6. CASE InitFails
  BY <1>6, AxesFacts DEF InitFails, Modes
<1>7. CASE LoadPlus
  BY <1>7, AxesFacts DEF LoadPlus
<1>8. CASE StorePlus
  BY <1>8 DEF StorePlus
<1>9. CASE LoadMinus
  BY <1>9, AxesFacts DEF LoadMinus
<1>10. CASE StoreMinus
  BY <1>10, AxesFacts DEF StoreMinus
<1>11. CASE TestSpace
  BY <1>11, AxesFacts DEF TestSpace
<1>12. CASE Stop
  BY <1>12, AxesFacts DEF Stop
<1>13. CASE LoadLimit
  BY <1>13, AxesFacts DEF LoadLimit
<1>14. CASE StoreLimit
  <2>1. CASE limits \in Policies
    <3>1. Lower[limits][at] \in Int /\ Upper[limits][at] \in Int
      BY <2>1, CommandAssumption
    <3>2. vel' \in [Axes -> Int]
      BY <1>14, <3>1 DEF StoreLimit
    <3> QED
      BY <1>14, <3>2, AxesFacts DEF StoreLimit
  <2> QED
    BY <1>14, <2>1 DEF StoreLimit, MutexInv, Modes
<1>15. CASE ToggleNav
  <2>1. nav' \in BOOLEAN
    BY <1>15 DEF ToggleNav
  <2> QED
    BY <1>15, <2>1, AxesFacts DEF ToggleNav
<1>16. CASE ClearInput
  BY <1>16, AxesFacts DEF ClearInput
<1>17. ASSUME NEW k \in Keys, SetKeyboard(k) PROVE TypeOK'
  BY <1>17, CommandAssumption DEF SetKeyboard
<1>18. ASSUME NEW m \in Messages, JoyCallback(m) PROVE TypeOK'
  BY <1>18, CommandAssumption DEF JoyCallback
<1>19. CASE SetGamepad
  <2>1. PadsOf(joy.buttons)[jat] \in Pads
    BY <1>19, PadsInRange DEF SetGamepad
  <2> QED
    BY <1>19, <2>1 DEF SetGamepad
<1>20. CASE SetSpeed
  BY <1>20 DEF SetSpeed
<1>21. ASSUME NEW a \in Axes, NEW v \in NavSpeeds, CmdVelCallback(a, v) PROVE TypeOK'
  BY <1>21, CommandAssumption DEF CmdVelCallback
<1>22. CASE RunModel
  BY <1>22, AxesFacts DEF RunModel
<1>23. CASE ReadSpeed
  BY <1>23, AxesFacts DEF ReadSpeed
<1>24. CASE TestNav
  BY <1>24 DEF TestNav
<1>25. CASE ReadCmdVel
  BY <1>25, AxesFacts DEF ReadCmdVel
<1>26. CASE Forward
  BY <1>26 DEF Forward
<1>27. CASE UNCHANGED vars
  BY <1>27 DEF vars
<1> QED
  BY <1>1, <1>2, <1>3, <1>4, <1>5, <1>6, <1>7, <1>8, <1>9, <1>10, <1>11, <1>12, <1>13,
     <1>14, <1>15, <1>16, <1>17, <1>18, <1>19, <1>20, <1>21, <1>22, <1>23, <1>24, <1>25,
     <1>26, <1>27 DEF Next, ControlLoop, Inputs, PolicyLoop

-----------------------------------------------------------------------------
(* InitRL and the policy loop exclude each other. *)
LEMMA MutexStep == TypeOK /\ MutexInv /\ [Next]_vars => MutexInv'
<1> SUFFICES ASSUME TypeOK, MutexInv, [Next]_vars PROVE MutexInv'
  OBVIOUS
<1> USE CommandAssumption
    DEF TypeOK, MutexInv, Live, Modes, Goto, EachAxis, NextAxis, controlVars, inputVars,
        joyVars, policyVars, onlyControlPc, notPolicy, RunSetsReady
<1>1. CASE NormalCycle
  BY <1>1 DEF NormalCycle
<1>2. CASE ChangeCycle
  BY <1>2 DEF ChangeCycle
<1>3. CASE InitRL
  BY <1>3 DEF InitRL
<1>4. CASE InitControl
  BY <1>4 DEF InitControl
<1>5. CASE InitDone
  BY <1>5 DEF InitDone
<1>6. CASE InitFails
  BY <1>6 DEF InitFails
<1>7. CASE LoadPlus
  BY <1>7 DEF LoadPlus
<1>8. CASE StorePlus
  BY <1>8 DEF StorePlus
<1>9. CASE LoadMinus
  BY <1>9 DEF LoadMinus
<1>10. CASE StoreMinus
  BY <1>10 DEF StoreMinus
<1>11. CASE TestSpace
  BY <1>11 DEF TestSpace
<1>12. CASE Stop
  BY <1>12 DEF Stop
<1>13. CASE LoadLimit
  BY <1>13 DEF LoadLimit
<1>14. CASE StoreLimit
  BY <1>14 DEF StoreLimit
<1>15. CASE ToggleNav
  BY <1>15 DEF ToggleNav
<1>16. CASE ClearInput
  BY <1>16 DEF ClearInput
<1>17. ASSUME NEW k \in Keys, SetKeyboard(k) PROVE MutexInv'
  BY <1>17 DEF SetKeyboard
<1>18. ASSUME NEW m \in Messages, JoyCallback(m) PROVE MutexInv'
  BY <1>18 DEF JoyCallback
<1>19. CASE SetGamepad
  BY <1>19 DEF SetGamepad
<1>20. CASE SetSpeed
  BY <1>20 DEF SetSpeed
<1>21. ASSUME NEW a \in Axes, NEW v \in NavSpeeds, CmdVelCallback(a, v) PROVE MutexInv'
  BY <1>21 DEF CmdVelCallback
<1>22. CASE RunModel
  BY <1>22 DEF RunModel
<1>23. CASE ReadSpeed
  BY <1>23 DEF ReadSpeed
<1>24. CASE TestNav
  BY <1>24 DEF TestNav
<1>25. CASE ReadCmdVel
  BY <1>25 DEF ReadCmdVel
<1>26. CASE Forward
  BY <1>26 DEF Forward
<1>27. CASE UNCHANGED vars
  BY <1>27 DEF vars
<1> QED
  BY <1>1, <1>2, <1>3, <1>4, <1>5, <1>6, <1>7, <1>8, <1>9, <1>10, <1>11, <1>12,
     <1>13, <1>14, <1>15, <1>16, <1>17, <1>18, <1>19, <1>20, <1>21, <1>22, <1>23,
     <1>24, <1>25, <1>26, <1>27 DEF Next, ControlLoop, Inputs, PolicyLoop

(* JoyCallback handles a message it was given. *)
LEMMA JoyStep == TypeOK /\ JoyInv /\ [Next]_vars => JoyInv'
<1> SUFFICES ASSUME TypeOK, JoyInv, [Next]_vars PROVE JoyInv'
  OBVIOUS
<1> USE DEF JoyInv, controlVars, inputVars, joyVars, policyVars, onlyControlPc, notPolicy
<1>1. CASE NormalCycle
  BY <1>1 DEF NormalCycle
<1>2. CASE ChangeCycle
  BY <1>2 DEF ChangeCycle
<1>3. CASE InitRL
  BY <1>3 DEF InitRL
<1>4. CASE InitControl
  BY <1>4 DEF InitControl
<1>5. CASE InitDone
  BY <1>5 DEF InitDone
<1>6. CASE InitFails
  BY <1>6 DEF InitFails
<1>7. CASE LoadPlus
  BY <1>7 DEF LoadPlus
<1>8. CASE StorePlus
  BY <1>8 DEF StorePlus
<1>9. CASE LoadMinus
  BY <1>9 DEF LoadMinus
<1>10. CASE StoreMinus
  BY <1>10 DEF StoreMinus
<1>11. CASE TestSpace
  BY <1>11 DEF TestSpace
<1>12. CASE Stop
  BY <1>12 DEF Stop
<1>13. CASE LoadLimit
  BY <1>13 DEF LoadLimit
<1>14. CASE StoreLimit
  BY <1>14 DEF StoreLimit
<1>15. CASE ToggleNav
  BY <1>15 DEF ToggleNav
<1>16. CASE ClearInput
  BY <1>16 DEF ClearInput
<1>17. ASSUME NEW k \in Keys, SetKeyboard(k) PROVE JoyInv'
  BY <1>17 DEF SetKeyboard
<1>18. ASSUME NEW m \in Messages, JoyCallback(m) PROVE JoyInv'
  BY <1>18 DEF JoyCallback
<1>19. CASE SetGamepad
  BY <1>19 DEF SetGamepad, PadsOf
<1>20. CASE SetSpeed
  BY <1>20, CommandAssumption DEF SetSpeed
<1>21. ASSUME NEW a \in Axes, NEW v \in NavSpeeds, CmdVelCallback(a, v) PROVE JoyInv'
  BY <1>21 DEF CmdVelCallback
<1>22. CASE RunModel
  BY <1>22 DEF RunModel
<1>23. CASE ReadSpeed
  BY <1>23 DEF ReadSpeed
<1>24. CASE TestNav
  BY <1>24 DEF TestNav
<1>25. CASE ReadCmdVel
  BY <1>25 DEF ReadCmdVel
<1>26. CASE Forward
  BY <1>26 DEF Forward
<1>27. CASE UNCHANGED vars
  BY <1>27 DEF vars
<1> QED
  BY <1>1, <1>2, <1>3, <1>4, <1>5, <1>6, <1>7, <1>8, <1>9, <1>10, <1>11, <1>12,
     <1>13, <1>14, <1>15, <1>16, <1>17, <1>18, <1>19, <1>20, <1>21, <1>22, <1>23,
     <1>24, <1>25, <1>26, <1>27 DEF Next, ControlLoop, Inputs, PolicyLoop

-----------------------------------------------------------------------------
(* The range of the speeds: what a step of the control loop does to it... *)
LEMMA ControlRange ==
  ASSUME TypeOK, MutexInv, RangeInv, TypeOK', MutexInv', ControlLoop PROVE RangeInv'
<1> SUFFICES ASSUME limits' # "none", NEW a \in Axes PROVE AxisInv(a)'
  BY DEF RangeInv
<1>1. /\ limits' \in Policies /\ limits \in Policies \cup {"none"}
      /\ vel \in [Axes -> Int] /\ at \in Axes /\ reg \in Int
  BY DEF TypeOK
<1>2. limits' = limits => AxisInv(a)
  BY DEF RangeInv
<1>3. /\ Settled(limits', 0, a)
      /\ \A v \in Int : Settled(limits', v, a) =>
           Near(limits', v, a) /\ Near(limits', v + 1, a) /\ Near(limits', v - 1, a)
      /\ \A v \in Int : Settled(limits', v - 1, a) => Near(limits', v, a)
  BY <1>1, SettledFacts, NearFacts
<1> USE <1>1, <1>2, <1>3, AxesFacts
    DEF AxisInv, Adjusting, Live, Goto, EachAxis, policyVars, joyVars, inputVars,
        onlyControlPc
<1>4. CASE NormalCycle
  BY <1>4 DEF NormalCycle
<1>5. CASE ChangeCycle
  BY <1>5 DEF ChangeCycle
<1>6. CASE InitRL
  BY <1>6 DEF InitRL
<1>7. CASE InitControl
  <2>1. /\ vel'[a] = IF a = at THEN 0 ELSE vel[a]
        /\ limits' = limits
    BY <1>7 DEF InitControl
  <2> QED
    BY <1>7, <2>1 DEF InitControl
<1>8. CASE InitDone
  BY <1>8 DEF InitDone
<1>9. CASE InitFails
  BY <1>9 DEF InitFails, MutexInv
<1>10. CASE LoadPlus
  BY <1>10 DEF LoadPlus
<1>11. CASE StorePlus
  <2>1. /\ vel'[a] = IF a = at THEN reg + 1 ELSE vel[a]
        /\ limits' = limits /\ reg + 1 - 1 = reg
    BY <1>11 DEF StorePlus
  <2> QED
    BY <1>11, <2>1 DEF StorePlus
<1>12. CASE LoadMinus
  BY <1>12 DEF LoadMinus
<1>13. CASE StoreMinus
  <2>1. /\ vel'[a] = IF a = at THEN reg - 1 ELSE vel[a]
        /\ limits' = limits
    BY <1>13 DEF StoreMinus
  <2> QED
    BY <1>13, <2>1 DEF StoreMinus
<1>14. CASE TestSpace
  BY <1>14 DEF TestSpace
<1>15. CASE Stop
  <2>1. /\ vel'[a] = IF a = at THEN 0 ELSE vel[a]
        /\ limits' = limits
    BY <1>15 DEF Stop
  <2> QED
    BY <1>15, <2>1 DEF Stop
<1>16. CASE LoadLimit
  BY <1>16 DEF LoadLimit
<1>17. CASE StoreLimit
  <2>1. limits' = limits /\ (a # at => vel'[a] = vel[a])
    BY <1>17 DEF StoreLimit
  <2>2. a = at => Settled(limits', vel'[a], a)
    BY <1>17, <2>1, SettledFacts DEF StoreLimit
  <2>3. vel'[a] \in Int
    BY DEF TypeOK
  <2> QED
    BY <1>17, <2>1, <2>2, <2>3 DEF StoreLimit
<1>18. CASE ToggleNav
  BY <1>18 DEF ToggleNav
<1>19. CASE ClearInput
  BY <1>19 DEF ClearInput
<1> QED
  BY <1>4, <1>5, <1>6, <1>7, <1>8, <1>9, <1>10, <1>11, <1>12, <1>13, <1>14, <1>15, <1>16,
     <1>17, <1>18, <1>19 DEF ControlLoop

(* ...what the inputs do... *)
LEMMA InputRange ==
  ASSUME TypeOK, RangeInv, JoyInv, TypeOK', MutexInv', Inputs PROVE RangeInv'
<1> SUFFICES ASSUME limits' # "none", NEW a \in Axes PROVE AxisInv(a)'
  BY DEF RangeInv
<1>1. UNCHANGED <<limits, cpc, at, reg, ready, ppc>>
  BY DEF Inputs, SetKeyboard, JoyCallback, SetGamepad, SetSpeed, CmdVelCallback,
         controlVars, policyVars
<1>2. AxisInv(a) /\ limits \in Policies
  BY <1>1 DEF RangeInv, TypeOK
<1>3. CASE vel'[a] = vel[a]
  BY <1>1, <1>2, <1>3 DEF AxisInv, Adjusting, Live
<1>4. CASE vel'[a] # vel[a]
  <2>1. SetSpeed /\ vel'[a] = joy.axes[a] /\ joy \in Messages
    BY <1>4 DEF Inputs, SetKeyboard, JoyCallback, SetGamepad, SetSpeed, CmdVelCallback,
                TypeOK, JoyInv
  <2>2. Settled(limits, vel'[a], a)
    BY <1>2, <2>1, SettledFacts
  <2>3. Near(limits, vel'[a], a)
    BY <2>2, NearFacts DEF TypeOK
  <2> QED
    BY <1>1, <1>2, <2>2, <2>3 DEF AxisInv, Adjusting, Live
<1> QED
  BY <1>3, <1>4

(* ...and that the policy loop leaves it alone. *)
LEMMA PolicyRange ==
  ASSUME TypeOK, RangeInv, PolicyLoop PROVE RangeInv'
<1>1. /\ UNCHANGED <<limits, cpc, at, reg, ready, vel>>
      /\ ready \/ ppc # "idle"
  BY DEF PolicyLoop, RunModel, ReadSpeed, TestNav, ReadCmdVel, Forward, notPolicy, controlVars
<1> QED
  BY <1>1 DEF RangeInv, AxisInv, Adjusting, Live

LEMMA RangeStep ==
  ASSUME TypeOK, MutexInv, RangeInv, JoyInv, TypeOK', MutexInv', [Next]_vars
  PROVE  RangeInv'
<1>1. CASE UNCHANGED vars
  BY <1>1 DEF vars, controlVars, inputVars, joyVars, policyVars, RangeInv, AxisInv,
              Adjusting, Live
<1> QED
  BY <1>1, ControlRange, InputRange, PolicyRange DEF Next

-----------------------------------------------------------------------------
(* While a policy is under way every speed is near its range. *)
LEMMA LiveNear ==
  ASSUME TypeOK, MutexInv, RangeInv, ppc # "idle", NEW a \in Axes
  PROVE  Near(limits, vel[a], a)
BY DEF MutexInv, Live, RangeInv, AxisInv, Adjusting

(* So what RunModel puts together is bounded. *)
LEMMA CommandStep ==
  ASSUME TypeOK, MutexInv, RangeInv, CommandInv, TypeOK', MutexInv', [Next]_vars
  PROVE  CommandInv'
<1>1. CASE UNCHANGED vars
  BY <1>1 DEF vars, controlVars, inputVars, joyVars, policyVars, CommandInv, CommandBounded
<1>2. CASE ControlLoop
  <2>1. UNCHANGED <<ppc, pat, command, cmdVel>>
    BY <1>2 DEF ControlLoop, NormalCycle, ChangeCycle, InitRL, InitControl, InitDone,
       InitFails, LoadPlus, StorePlus, LoadMinus, StoreMinus, TestSpace, Stop, LoadLimit,
       StoreLimit, ToggleNav, ClearInput, onlyControlPc, policyVars
  <2>2. limits' = limits \/ InitRL
    BY <1>2 DEF ControlLoop, NormalCycle, ChangeCycle, InitRL, InitControl, InitDone,
       InitFails, LoadPlus, StorePlus, LoadMinus, StoreMinus, TestSpace, Stop, LoadLimit,
       StoreLimit, ToggleNav, ClearInput, onlyControlPc
  <2>3. InitRL => ppc = "idle"
    BY DEF InitRL, MutexInv, TypeOK
  <2> QED
    BY <2>1, <2>2, <2>3 DEF CommandInv, CommandBounded
<1>3. CASE Inputs
  <2>1. UNCHANGED <<ppc, pat, command, limits>>
    BY <1>3 DEF Inputs, SetKeyboard, JoyCallback, SetGamepad, SetSpeed, CmdVelCallback,
                controlVars, policyVars
  <2>2. \A a \in Axes : cmdVel'[a] \in NavSpeeds \cup {0}
    BY <1>3 DEF Inputs, SetKeyboard, JoyCallback, SetGamepad, SetSpeed, CmdVelCallback,
                CommandInv, TypeOK
  <2> QED
    BY <2>1, <2>2 DEF CommandInv, CommandBounded
<1>4. CASE PolicyLoop
  <2>1. limits' = limits /\ cmdVel' = cmdVel
    BY <1>4 DEF PolicyLoop, RunModel, ReadSpeed, TestNav, ReadCmdVel, Forward, notPolicy,
                controlVars
  <2>2. CASE RunModel
    BY <2>1, <2>2, AxesFacts DEF RunModel, CommandInv, CommandBounded
  <2>3. CASE ReadSpeed
    <3>1. \A a \in Axes : command'[a] = IF a = pat THEN vel[pat] ELSE command[a]
      BY <2>3 DEF ReadSpeed, TypeOK
    <3>2. Near(limits, vel[pat], pat)
      BY <2>3, LiveNear DEF ReadSpeed, TypeOK
    <3>3. \A a \in Axes : a < pat + 1 \/ pat = NumAxes => a < pat \/ a = pat
      BY AxesFacts DEF Axes, TypeOK
    <3>4. \A a \in Axes : a < pat + 1 \/ pat = NumAxes => Near(limits, command'[a], a)
      BY <2>3, <3>1, <3>2, <3>3 DEF ReadSpeed, CommandInv
    <3> QED
      BY <2>1, <2>3, <3>4 DEF ReadSpeed, NextAxis, CommandInv, CommandBounded
  <2>4. CASE TestNav
    BY <2>1, <2>4 DEF TestNav, CommandInv, CommandBounded
  <2>5. CASE ReadCmdVel
    <3>1. \A a \in Axes : command'[a] = IF a = pat THEN cmdVel[pat] ELSE command[a]
      BY <2>5 DEF ReadCmdVel, TypeOK
    <3> QED
      BY <2>1, <2>5, <3>1 DEF ReadCmdVel, NextAxis, CommandInv, CommandBounded, TypeOK
  <2>6. CASE Forward
    BY <2>1, <2>6 DEF Forward, CommandInv, CommandBounded
  <2> QED
    BY <1>4, <2>2, <2>3, <2>4, <2>5, <2>6 DEF PolicyLoop
<1> QED
  BY <1>1, <1>2, <1>3, <1>4 DEF Next

-----------------------------------------------------------------------------
(* The inductive invariant: who excludes whom, and how far each speed is   *)
(* from its range at each point of the control cycle.                      *)
THEOREM Invariance == Spec => []IInv
<1>1. ASSUME Init PROVE IInv
  <2> USE <1>1 DEF Init
  <2>1. Zero \in [Axes -> Int]
    BY DEF Zero
  <2>2. TypeOK
    <3>1. ready \in BOOLEAN /\ nav \in BOOLEAN
      BY Zenon
    <3>2. joy \in [buttons : SUBSET Buttons, axes : [Axes -> Int]]
      BY <2>1
    <3>3. key \in AllKeys /\ lastKey \in AllKeys
      BY DEF AllKeys, NoKey
    <3> QED
      BY <2>1, <3>1, <3>2, <3>3, AxesFacts DEF TypeOK, Modes
  <2>3. MutexInv
    BY CommandAssumption DEF MutexInv, Live
  <2>4. RangeInv /\ JoyInv
    BY DEF RangeInv, JoyInv
  <2>5. CommandInv
    BY DEF CommandInv, CommandBounded, Zero
  <2> QED
    BY <2>2, <2>3, <2>4, <2>5 DEF IInv
<1>2. IInv /\ [Next]_vars => IInv'
  BY TypeStep, MutexStep, JoyStep, RangeStep, CommandStep DEF IInv
<1> QED
  BY <1>1, <1>2, PTL DEF Spec

(* Every variable keeps its type. *)
THEOREM TypeCorrect == Spec => []TypeOK
<1>1. IInv => TypeOK
  BY DEF IInv
<1> QED
  BY <1>1, Invariance, PTL

(* The command RunModel gives a policy is within one key step of the       *)
(* policy's own limits or of a position of the stick, or it is cmd_vel.    *)
THEOREM BoundedCommand == Spec => []CommandBounded
<1>1. IInv => CommandBounded
  BY DEF IInv, CommandInv
<1> QED
  BY <1>1, Invariance, PTL
=============================================================================
