---------------------------- MODULE GazeboProofs ----------------------------
(***************************************************************************)
(* Gazebo and those who call it, proved for any number of presses, throws, *)
(* calls in flight and lost calls. First the node: what it believes of     *)
(* Gazebo, and how many requests a press makes (GazeboNode). Then the ball *)
(* that is hidden, seen and shown (Catchball). The two share no state.     *)
(***************************************************************************)
EXTENDS GazeboNode, Catchball, TLAPS

Toggles == {c \in calls : Counts(c[2])}
Wanted == IF simulation_running THEN "unpause" ELSE "pause"

(* A number belongs to one call. ROS 1 has none in flight. *)
CallsKnown ==
  /\ \A c, d \in calls : c[1] = d[1] => c = d
  /\ build = "ros1" => calls = {}

(* As long as no toggle was lost or overtaken, the one made last will make *)
(* Gazebo do what the node believes, and if none is in flight it does.     *)
BeliefInv ==
  ~disorder =>
    /\ Toggles = {} => paused = ~simulation_running
    /\ \A c \in Toggles : (\A d \in Toggles : d[1] <= c[1]) => c[2] = Wanted

(* Requests a latched key or button may still make. *)
KeyLeft == IF current_keyboard = "None" THEN 0 ELSE 1
ButtonLeft ==
  IF \/ step = "reset" /\ current_gamepad # "None"
     \/ step = "toggle" /\ current_gamepad = "RB_X"
  THEN 1 ELSE 0

(* With Prompt no key is behind the current one, and every request, made   *)
(* or still to make, has a press of its own.                               *)
BudgetInv ==
  Prompt => last_keyboard = "None" /\ requests + KeyLeft + ButtonLeft <= presses

IInv == TypeOK /\ CallsKnown /\ BeliefInv /\ BudgetInv

-----------------------------------------------------------------------------

(* Every step keeps the types. *)
LEMMA TypeStep ==
  ASSUME TypeOK, [Next]_vars
  PROVE  TypeOK'
<1> USE NodeAssumption DEF TypeOK, inputVars, callVars, Keys, Buttons, Services
<1>1. ASSUME NEW k \in Keys, SetKeyboard(k)
      PROVE  TypeOK'
  BY <1>1 DEF SetKeyboard, Press
<1>2. ASSUME NEW b \in Buttons, JoyCallback(b)
      PROVE  TypeOK'
  BY <1>2 DEF JoyCallback, Press
<1>3. ASSUME NEW service \in Services, Request(service)
      PROVE  /\ requests' \in Nat /\ lost' \in 0..MaxLost
             /\ {disorder', paused'} \subseteq BOOLEAN
             /\ calls' \subseteq (0..requests') \X Services
  <2>1. disorder' \in BOOLEAN /\ paused' \in BOOLEAN
    BY <1>3, Zenon DEF Request, Apply, Counts
  <2>2. requests' = requests + 1 /\ lost' \in 0..MaxLost
    BY <1>3 DEF Request
  <2>3. calls' = calls \/ calls' = calls \cup {<<requests', service>>}
    BY <1>3 DEF Request
  <2>4. calls' \subseteq (0..requests') \X Services
    BY <2>2, <2>3
  <2> QED
    BY <2>1, <2>2, <2>4
<1>4. CASE RobotControlReset
  BY <1>3, <1>4 DEF RobotControlReset
<1>5. CASE RobotControlToggle
  BY <1>3, <1>5 DEF RobotControlToggle, ToggleTo
<1>6. CASE ClearInput
  BY <1>6 DEF ClearInput, ClearTo
<1>7. CASE Serve
  BY <1>7 DEF Serve, Apply, Counts, Overtakes
<1>8. CASE Lose
  BY <1>8 DEF Lose, Counts
<1>9. CASE UNCHANGED vars
  BY <1>9 DEF vars
<1> QED
  BY <1>1, <1>2, <1>4, <1>5, <1>6, <1>7, <1>8, <1>9 DEF Next, RobotControl

(* A new call has the highest number. *)
LEMMA RequestKnown ==
  ASSUME TypeOK, CallsKnown, NEW service \in Services, Request(service), build' = build
  PROVE  CallsKnown'
BY DEF TypeOK, CallsKnown, Request

(* Every step keeps calls apart by their numbers. *)
LEMMA CallsStep ==
  ASSUME TypeOK, CallsKnown, [Next]_vars
  PROVE  CallsKnown'
<1> USE DEF callVars, Services
<1>1. ASSUME UNCHANGED <<calls, build>>
      PROVE  CallsKnown'
  BY <1>1 DEF CallsKnown
<1>2. CASE RobotControlReset
  BY <1>1, <1>2, RequestKnown DEF RobotControlReset
<1>3. CASE RobotControlToggle
  BY <1>1, <1>3, RequestKnown DEF RobotControlToggle, ToggleTo
<1>4. CASE Serve
  BY <1>4 DEF Serve, CallsKnown
<1>5. CASE Lose
  BY <1>5 DEF Lose, CallsKnown
<1> QED
  BY <1>1, <1>2, <1>3, <1>4, <1>5
  DEF Next, RobotControl, SetKeyboard, JoyCallback, Press, ClearInput, ClearTo, vars

(* A reset changes nothing the belief is about. *)
LEMMA ResetKeepsBelief ==
  ASSUME TypeOK, CallsKnown, BeliefInv, Request("reset"),
         simulation_running' = simulation_running
  PROVE  BeliefInv'
<1>1. Toggles' = Toggles /\ paused' = paused
  BY DEF Request, Apply, Toggles, Counts
<1>2. disorder' = disorder \/ disorder' = (disorder \/ Counts("reset"))
  BY DEF Request
<1>3. disorder' => disorder
  BY <1>2, Zenon DEF TypeOK, Counts
<1>4. disorder => disorder'
  BY <1>2, Zenon DEF TypeOK
<1> QED
  BY <1>1, <1>3, <1>4 DEF BeliefInv, Wanted

(* A toggle is the last call of all, and what the node comes to believe. *)
LEMMA ToggleKeepsBelief ==
  ASSUME TypeOK, CallsKnown, BeliefInv,
         Request(IF simulation_running THEN "pause" ELSE "unpause"),
         simulation_running' = ~simulation_running
  PROVE  BeliefInv'
<1> DEFINE service == IF simulation_running THEN "pause" ELSE "unpause"
<1>1. service = Wanted' /\ Counts(service)
  BY DEF Wanted, Counts, TypeOK
<1>2. CASE calls' = calls \cup {<<requests', service>>} /\ requests' = requests + 1
  <2>1. Toggles' = Toggles \cup {<<requests', service>>}
    BY <1>1, <1>2 DEF Toggles
  <2>2. \A c \in Toggles : c[1] < requests'
    BY <1>2 DEF Toggles, TypeOK
  <2>3. <<requests', service>> \in Toggles'
    BY <2>1
  <2>4. ASSUME NEW c \in Toggles', \A d \in Toggles' : d[1] <= c[1]
        PROVE  c[2] = Wanted'
    <3>1. c = <<requests', service>>
      BY <1>2, <2>1, <2>2, <2>3, <2>4 DEF TypeOK, Toggles
    <3> QED
      BY <1>1, <3>1
  <2> QED
    BY <2>3, <2>4 DEF BeliefInv
<1>3. CASE build = "ros1" /\ calls' = calls /\ disorder' = disorder /\ Apply(service)
  <2>1. Toggles' = {}
    BY <1>3 DEF CallsKnown, Toggles
  <2>2. paused' = ~simulation_running'
    BY <1>1, <1>3 DEF Apply, TypeOK, Counts
  <2> QED
    BY <2>1, <2>2 DEF BeliefInv
<1>4. CASE disorder'
  BY <1>4 DEF BeliefInv
<1>5. \/ calls' = calls \cup {<<requests', service>>} /\ requests' = requests + 1
      \/ build = "ros1" /\ calls' = calls /\ disorder' = disorder /\ Apply(service)
      \/ disorder' = (disorder \/ Counts(service))
  BY DEF Request
<1> QED
  BY <1>1, <1>2, <1>3, <1>4, <1>5

(* A call served in its turn leaves the last toggle the last. *)
LEMMA ServeKeepsBelief ==
  ASSUME TypeOK, CallsKnown, BeliefInv, Serve
  PROVE  BeliefInv'
<1> SUFFICES ASSUME ~disorder'
             PROVE  BeliefInv'
  BY DEF BeliefInv
<1>1. PICK c \in calls :
        calls' = calls \ {c} /\ Apply(c[2]) /\ disorder' = (disorder \/ Overtakes(c))
  BY DEF Serve
<1>2. ~disorder /\ ~Overtakes(c) /\ simulation_running' = simulation_running
  BY <1>1 DEF Serve
<1>3. CASE Counts(c[2])
  <2>1. Toggles' = Toggles \ {c} /\ c \in Toggles
    BY <1>1, <1>3 DEF Toggles
  <2>2. \A d \in Toggles' : d[1] > c[1]
    BY <1>1, <1>2, <1>3, <2>1 DEF Overtakes, CallsKnown, Toggles, TypeOK
  <2>3. CASE Toggles' = {}
    <3>1. c[2] = Wanted
      BY <1>2, <2>1, <2>3 DEF BeliefInv, TypeOK
    <3>2. paused' = ~simulation_running'
      BY <1>1, <1>2, <1>3, <3>1 DEF Apply, Wanted, TypeOK
    <3> QED
      BY <2>3, <3>2 DEF BeliefInv
  <2>4. CASE Toggles' # {}
    <3>1. ASSUME NEW d \in Toggles', \A e \in Toggles' : e[1] <= d[1]
          PROVE  d[2] = Wanted'
      <4>1. d \in Toggles /\ c[1] <= d[1] /\ \A e \in Toggles : e[1] <= d[1]
        BY <2>1, <2>2, <3>1 DEF Toggles, TypeOK
      <4> QED
        BY <1>2, <4>1 DEF BeliefInv, Wanted
    <3> QED
      BY <2>4, <3>1 DEF BeliefInv
  <2> QED
    BY <2>3, <2>4
<1>4. CASE ~Counts(c[2])
  BY <1>1, <1>2, <1>4 DEF Toggles, Apply, BeliefInv, Wanted
<1> QED
  BY <1>3, <1>4

(* Every step keeps the belief true, or is counted as disorder. *)
LEMMA BeliefStep ==
  ASSUME TypeOK, CallsKnown, BeliefInv, [Next]_vars
  PROVE  BeliefInv'
<1>1. ASSUME UNCHANGED <<callVars, simulation_running>>
      PROVE  BeliefInv'
  BY <1>1 DEF BeliefInv, Toggles, Wanted, callVars
<1>2. CASE RobotControlReset
  BY <1>1, <1>2, ResetKeepsBelief DEF RobotControlReset
<1>3. CASE RobotControlToggle
  BY <1>1, <1>3, ToggleKeepsBelief DEF RobotControlToggle, ToggleTo
<1>4. CASE Lose
  <2> SUFFICES ASSUME ~disorder' PROVE BeliefInv'
    BY DEF BeliefInv
  <2>1. PICK c \in calls :
          calls' = calls \ {c} /\ disorder' = (disorder \/ Counts(c[2]))
    BY <1>4 DEF Lose
  <2>2. ~disorder /\ ~Counts(c[2]) /\ UNCHANGED <<paused, simulation_running>>
    BY <1>4, <2>1 DEF Lose
  <2> QED
    BY <2>1, <2>2 DEF BeliefInv, Toggles, Wanted
<1> QED
  BY <1>1, <1>2, <1>3, <1>4, ServeKeepsBelief
  DEF Next, RobotControl, SetKeyboard, JoyCallback, Press, ClearInput, ClearTo, vars

(* Every request is made once, or twice. *)
LEMMA RequestCounts ==
  ASSUME NEW service, Request(service)
  PROVE  requests' = requests + 1
BY DEF Request

(* Every step keeps a press for every request. *)
LEMMA BudgetStep ==
  ASSUME TypeOK, BudgetInv, [Next]_vars
  PROVE  BudgetInv'
<1> SUFFICES ASSUME Prompt PROVE BudgetInv'
  BY DEF BudgetInv
<1> USE DEF TypeOK, BudgetInv, KeyLeft, ButtonLeft, inputVars, callVars
<1>1. ASSUME NEW k \in Keys, SetKeyboard(k)
      PROVE  BudgetInv'
  BY <1>1 DEF SetKeyboard, Press, Keys
<1>2. ASSUME NEW b \in Buttons, JoyCallback(b)
      PROVE  BudgetInv'
  BY <1>2 DEF JoyCallback, Press
<1>3. CASE RobotControlReset
  BY <1>3, RequestCounts DEF RobotControlReset
<1>4. CASE RobotControlToggle
  BY <1>4, RequestCounts DEF RobotControlToggle, ToggleTo
<1>5. CASE ClearInput
  BY <1>5 DEF ClearInput, ClearTo
<1>6. CASE Serve \/ Lose
  BY <1>6 DEF Serve, Lose
<1>7. CASE UNCHANGED vars
  BY <1>7 DEF vars
<1> QED
  BY <1>1, <1>2, <1>3, <1>4, <1>5, <1>6, <1>7 DEF Next, RobotControl

-----------------------------------------------------------------------------

(* The types, the calls in flight, the belief and the budget of requests   *)
(* hold together at every step.                                            *)
THEOREM Invariance == Spec => []IInv
<1>1. Init => IInv
  <2> SUFFICES ASSUME Init PROVE IInv
    OBVIOUS
  <2>1. TypeOK
    <3>1. {simulation_running, disorder, paused} \subseteq BOOLEAN
      BY DEF Init
    <3>2. calls \subseteq (0..requests) \X Services
      BY DEF Init, Services
    <3> QED
      BY <3>1, <3>2, NodeAssumption DEF Init, TypeOK
  <2>2. CallsKnown
    BY DEF Init, CallsKnown
  <2>3. BeliefInv
    <3>1. Toggles = {}
      BY DEF Init, Toggles, Counts
    <3>2. paused = ~simulation_running
      BY DEF Init
    <3> QED
      BY <3>1, <3>2 DEF BeliefInv
  <2>4. BudgetInv
    BY DEF Init, BudgetInv, KeyLeft, ButtonLeft
  <2> QED
    BY <2>1, <2>2, <2>3, <2>4 DEF IInv
<1>2. IInv /\ [Next]_vars => IInv'
  BY TypeStep, CallsStep, BeliefStep, BudgetStep DEF IInv
<1>3. QED
  BY <1>1, <1>2, PTL DEF Spec

(* Every variable of the node and of its calls keeps its type. *)
THEOREM TypeCorrect == Spec => []TypeOK
<1>1. IInv => TypeOK
  BY DEF IInv
<1>2. QED
  BY <1>1, Invariance, PTL

(* Gazebo does what the node believes once it has served every call, unless *)
(* a toggle was lost or overtaken.                                          *)
THEOREM BeliefHolds == Spec => []SimulationAsBelieved
<1>1. IInv => SimulationAsBelieved
  BY DEF IInv, BeliefInv, Toggles, SimulationAsBelieved
<1>2. QED
  BY <1>1, Invariance, PTL

(* A press makes at most one request, with a control loop faster than the  *)
(* keyboard's.                                                             *)
THEOREM OneRequestHolds == Spec => []OneRequestPerPress
<1>1. IInv => OneRequestPerPress
  BY DEF IInv, TypeOK, BudgetInv, KeyLeft, ButtonLeft, OneRequestPerPress
<1>2. QED
  BY <1>1, Invariance, PTL

-----------------------------------------------------------------------------
(***************************************************************************)
(* The ball.                                                               *)
(***************************************************************************)

(* Where the ball will be once every call is served. *)
Settled == IF sets = <<>> THEN ball ELSE sets[Len(sets)]

HiddenInv == ~throwing /\ lostCalls = 0 => Settled = Low

(* A call in flight is the one that was requested, and one that is done    *)
(* has made the model.                                                     *)
FovInv ==
  /\ Len(fovCalls) <= 1 /\ (fovCalls # <<>> => fovRequested)
  /\ fovSpawned \/ (fovCalls # <<>> /\ Head(fovCalls) = "done") => fovIn

CatchInv == CatchTypeOK /\ HiddenInv /\ SeesOnlyFlying /\ FovInv

(* The longest throw is one of the throws. *)
LEMMA LongestThrow ==
  MaxLanding \in Landings /\ \A l \in Landings : l \in Nat \ {0} /\ l <= MaxLanding
BY CatchballAssumption DEF MaxLanding

(* Every step keeps the types. *)
LEMMA CatchTypeStep ==
  ASSUME CatchTypeOK, [CatchNext]_catchVars
  PROVE  CatchTypeOK'
<1> USE CatchballAssumption, LongestThrow
    DEF CatchTypeOK, worldVars, throwVars, fovVars, obsVars, outside, beside, around, Poses
<1>1. CASE SpawnRobot \/ SpawnCatchball \/ Fall
  BY <1>1 DEF SpawnRobot, SpawnCatchball, Fall
<1>2. CASE ServeSet \/ LoseSet
  <2>1. sets \in Seq(Poses) /\ sets # <<>> /\ sets' = Tail(sets)
    BY <1>2 DEF ServeSet, LoseSet
  <2>2. sets' \in Seq(Poses) /\ Len(sets') <= MaxCalls /\ Head(sets) \in Poses
    BY <2>1
  <2>3. UNCHANGED <<ballIn, baseIn, throwVars, fovVars, obsVars>> /\ ball' \in Poses
    BY <1>2, <2>2 DEF ServeSet, LoseSet
  <2>4. lostCalls' \in 0..MaxLostCalls
    BY <1>2 DEF ServeSet, LoseSet
  <2> QED
    BY <2>2, <2>3, <2>4
<1>3. CASE OnModelStates \/ Clock
  BY <1>3 DEF OnModelStates, Clock
<1>4. CASE OnTimerHide
  BY <1>4 DEF OnTimerHide, SendState, Low
<1>5. CASE OnTimerThrow
  BY <1>5 DEF OnTimerThrow, SendState
<1>6. CASE OnTimerFlight
  BY <1>6 DEF OnTimerFlight, Flight, SendState
<1>7. CASE OnTimerLand
  <2>1. throwing' = FALSE /\ elapsed' = 0 /\ UNCHANGED <<outside, landing, hasBall>>
    BY <1>7 DEF OnTimerLand, EndThrow
  <2>2. sets' \in Seq(Poses) /\ Len(sets') <= MaxCalls
    BY <1>7 DEF OnTimerLand, EndThrow, SendState, Low
  <2>3. throwing' \in BOOLEAN
    BY <2>1
  <2>4. elapsed' \in 0..(WaitSteps + MaxLanding)
    BY <2>1
  <2>5. UNCHANGED <<lostCalls, ball, ballIn, baseIn, fovVars, obsVars, landing, hasBall>>
    BY <2>1
  <2> QED
    BY <2>2, <2>3, <2>4, <2>5
<1>8. CASE OnLinkStates \/ OnTimerFov
  BY <1>8 DEF OnLinkStates, OnTimerFov
<1>9. CASE SpawnModelOnce
  BY <1>9 DEF SpawnModelOnce, SpawnWhen
<1>10. CASE ServeSpawn
  <2>1. fovIn' \in BOOLEAN
    BY <1>10, Zenon DEF ServeSpawn
  <2>2. fovCalls' \in Seq({"sent", "done", "failed"})
    <3>1. PICK i \in DOMAIN fovCalls, a \in {"done", "failed"} :
             fovCalls' = [fovCalls EXCEPT ![i] = a]
      BY <1>10 DEF ServeSpawn
    <3> QED
      BY <3>1
  <2>3. UNCHANGED <<beside, fovRequested, fovSpawned, fovBase, fovAt>>
    BY <1>10 DEF ServeSpawn
  <2> QED
    BY <2>1, <2>2, <2>3
<1>11. CASE OnSpawnDone
  <2>1. fovSpawned' \in BOOLEAN
    BY <1>11, Zenon DEF OnSpawnDone, SpawnDone
  <2>2. fovRequested' \in BOOLEAN
    BY <1>11, Zenon DEF OnSpawnDone, SpawnDone
  <2>3. fovCalls' = Tail(fovCalls) /\ fovCalls # <<>>
    BY <1>11 DEF OnSpawnDone, SpawnDone
  <2>4. UNCHANGED <<beside, fovBase, fovIn, fovAt>>
    BY <1>11 DEF OnSpawnDone, SpawnDone
  <2> QED
    BY <2>1, <2>2, <2>3, <2>4
<1>12. ASSUME NEW known, UpdateCatchballObservation, hasBase' \in BOOLEAN,
              {linkBall', modelBall'} \subseteq Poses \cup {None}
       PROVE  delayed' \in Poses \cup {None} /\ obsBall' \in Poses
  BY <1>12 DEF UpdateCatchballObservation, Observe, ComputeBallPosB, Perceive, Low, None
<1>13. CASE ModelStatesCallback
  BY <1>12, <1>13 DEF ModelStatesCallback
<1>14. CASE LinkStatesCallback
  BY <1>12, <1>14 DEF LinkStatesCallback
<1>15. CASE UNCHANGED catchVars
  BY <1>15 DEF catchVars
<1> QED
  BY <1>1, <1>2, <1>3, <1>4, <1>5, <1>6, <1>7, <1>8, <1>9, <1>10, <1>11, <1>13, <1>14, <1>15
  DEF CatchNext, Thrower

(* A call puts off where the ball settles to where it says. *)
LEMMA SendSettles ==
  ASSUME CatchTypeOK, NEW pose \in Poses, SendState(pose)
  PROVE  Settled' = pose
BY DEF CatchTypeOK, SendState, Settled

(* Serving the first of several calls leaves the last one as it is.        *)
LEMMA LastOfTail ==
  ASSUME NEW S, NEW q \in Seq(S), q # <<>>, Len(q) # 1
  PROVE  Tail(q) # <<>> /\ Tail(q)[Len(Tail(q))] = q[Len(q)]
<1>1. Len(q) \in Nat /\ Len(q) # 0
  OBVIOUS
<1>2. PICK n \in Nat : Len(q) = n + 2
  <2>1. \A m \in Nat : m # 0 /\ m # 1 => m - 2 \in Nat /\ m = (m - 2) + 2
    OBVIOUS
  <2> QED
    BY <1>1, <2>1
<1>3. Len(Tail(q)) = n + 1 /\ Tail(q)[n + 1] = q[n + 2]
  BY <1>2
<1>4. Tail(q) # <<>>
  <2>1. Len(<<>>) = 0
    OBVIOUS
  <2>2. n + 1 # 0
    BY <1>2
  <2> QED
    BY <1>3, <2>1, <2>2, Zenon
<1> QED
  BY <1>2, <1>3, <1>4, Zenon

(* Every step leaves the ball settling where it is hidden. *)
LEMMA HiddenStep ==
  ASSUME CatchTypeOK, HiddenInv, [CatchNext]_catchVars
  PROVE  HiddenInv'
<1> USE DEF worldVars, throwVars, fovVars, obsVars, outside, beside, around
<1>1. ASSUME UNCHANGED <<ball, sets, throwing, lostCalls>>
      PROVE  HiddenInv'
  BY <1>1 DEF HiddenInv, Settled
<1>2. CASE Fall
  BY <1>2 DEF Fall, HiddenInv, Settled
<1>3. CASE ServeSet
  <2>1. /\ sets \in Seq(Poses) /\ sets # <<>>
        /\ sets' = Tail(sets) /\ ball' = Head(sets)
        /\ UNCHANGED <<throwing, lostCalls>>
    BY <1>3 DEF ServeSet, CatchTypeOK
  <2>2. CASE Len(sets) = 1
    BY <2>1, <2>2 DEF Settled, HiddenInv
  <2>3. CASE Len(sets) # 1
    <3>1. sets' # <<>> /\ sets'[Len(sets')] = sets[Len(sets)]
      BY <2>1, <2>3, LastOfTail
    <3> QED
      BY <2>1, <3>1 DEF Settled, HiddenInv
  <2> QED
    BY <2>2, <2>3
<1>4. CASE LoseSet
  BY <1>4 DEF LoseSet, HiddenInv, CatchTypeOK
<1>5. CASE OnTimerHide
  BY <1>5, SendSettles DEF OnTimerHide, HiddenInv, Poses
<1>6. CASE OnTimerThrow \/ OnTimerFlight
  BY <1>6 DEF OnTimerThrow, OnTimerFlight, Flight, HiddenInv, CatchTypeOK
<1>7. CASE OnTimerLand
  BY <1>7, SendSettles DEF OnTimerLand, EndThrow, HiddenInv, Poses
<1> QED
  BY <1>1, <1>2, <1>3, <1>4, <1>5, <1>6, <1>7
  DEF CatchNext, Thrower, SpawnRobot, SpawnCatchball, OnModelStates, Clock, OnLinkStates,
      SpawnModelOnce, SpawnWhen, ServeSpawn, OnSpawnDone, SpawnDone, OnTimerFov,
      ModelStatesCallback, LinkStatesCallback, catchVars

(* Every step shows the policy only what flew when it was last reported.   *)
LEMMA SeesStep ==
  ASSUME CatchTypeOK, SeesOnlyFlying, [CatchNext]_catchVars
  PROVE  SeesOnlyFlying'
<1> USE DEF worldVars, throwVars, fovVars, obsVars, outside, beside, around
<1>1. ASSUME UNCHANGED obsVars
      PROVE  SeesOnlyFlying'
  BY <1>1 DEF SeesOnlyFlying
<1>2. ASSUME UpdateCatchballObservation, {linkBall', modelBall'} \subseteq Poses \cup {None}
      PROVE  SeesOnlyFlying'
  BY <1>2, CatchballAssumption, LongestThrow
  DEF UpdateCatchballObservation, Observe, ComputeBallPosB, Perceive, SeesOnlyFlying, Poses, Low, None
<1>3. CASE ModelStatesCallback
  BY <1>2, <1>3 DEF ModelStatesCallback, CatchTypeOK
<1>4. CASE LinkStatesCallback
  BY <1>2, <1>4 DEF LinkStatesCallback, CatchTypeOK
<1> QED
  BY <1>1, <1>3, <1>4
  DEF CatchNext, Thrower, SpawnRobot, SpawnCatchball, Fall, ServeSet, LoseSet, OnModelStates, Clock,
      OnTimerHide, OnTimerThrow, OnTimerFlight, Flight, OnTimerLand, EndThrow, OnLinkStates,
      SpawnModelOnce, SpawnWhen, ServeSpawn, OnSpawnDone, SpawnDone, OnTimerFov, catchVars

(* Every step keeps to one call for the field of view. *)
LEMMA FovStep ==
  ASSUME CatchTypeOK, FovInv, [CatchNext]_catchVars
  PROVE  FovInv'
<1> USE DEF worldVars, throwVars, fovVars, obsVars, outside, beside, around
<1>1. ASSUME UNCHANGED <<fovRequested, fovSpawned, fovCalls, fovIn>>
      PROVE  FovInv'
  BY <1>1 DEF FovInv
<1>2. CASE SpawnModelOnce
  BY <1>2 DEF SpawnModelOnce, SpawnWhen, FovInv, CatchTypeOK
<1>3. CASE ServeSpawn
  BY <1>3 DEF ServeSpawn, FovInv, CatchTypeOK
<1>4. CASE OnSpawnDone
  BY <1>4 DEF OnSpawnDone, SpawnDone, FovInv, CatchTypeOK
<1> QED
  BY <1>1, <1>2, <1>3, <1>4
  DEF CatchNext, Thrower, SpawnRobot, SpawnCatchball, Fall, ServeSet, LoseSet, OnModelStates, Clock,
      OnTimerHide, OnTimerThrow, OnTimerFlight, Flight, OnTimerLand, EndThrow, OnLinkStates,
      OnTimerFov, ModelStatesCallback, LinkStatesCallback, catchVars

-----------------------------------------------------------------------------

(* The types, the ball's next place, the observation and the call for the  *)
(* field of view hold together at every step.                              *)
THEOREM CatchInvariance == CatchSpec => []CatchInv
<1>1. CatchInit => CatchInv
  <2> SUFFICES ASSUME CatchInit PROVE CatchInv
    OBVIOUS
  <2>1. CatchTypeOK
    <3>1. /\ {ballIn, baseIn} \subseteq BOOLEAN
          /\ {fovRequested, fovSpawned, fovBase, fovIn, fovAt} \subseteq BOOLEAN
          /\ throwing \in BOOLEAN /\ hasBall \in BOOLEAN /\ hasBase \in BOOLEAN
      BY DEF CatchInit
    <3>2. /\ lostCalls \in 0..MaxLostCalls /\ landing \in Landings
          /\ elapsed \in 0..(WaitSteps + MaxLanding)
      BY CatchballAssumption, LongestThrow DEF CatchInit
    <3>3. /\ sets \in Seq(Poses) /\ Len(sets) <= MaxCalls
          /\ fovCalls \in Seq({"sent", "done", "failed"})
      BY CatchballAssumption DEF CatchInit
    <3>4. /\ ball \in Poses /\ obsBall \in Poses
          /\ {linkBall, modelBall, delayed} \subseteq Poses \cup {None}
      BY DEF CatchInit, Poses, Low, None
    <3> QED
      BY <3>1, <3>2, <3>3, <3>4 DEF CatchTypeOK
  <2>2. HiddenInv /\ SeesOnlyFlying /\ FovInv
    BY DEF CatchInit, HiddenInv, Settled, SeesOnlyFlying, FovInv
  <2> QED
    BY <2>1, <2>2 DEF CatchInv
<1>2. CatchInv /\ [CatchNext]_catchVars => CatchInv'
  BY CatchTypeStep, HiddenStep, SeesStep, FovStep DEF CatchInv
<1>3. QED
  BY <1>1, <1>2, PTL DEF CatchSpec

(* Every variable of the ball, the scripts and the observation keeps its   *)
(* type.                                                                   *)
THEOREM CatchTypeCorrect == CatchSpec => []CatchTypeOK
<1>1. CatchInv => CatchTypeOK
  BY DEF CatchInv
<1>2. QED
  BY <1>1, CatchInvariance, PTL

(* Between two throws the ball is hidden, or about to be, if no call was   *)
(* lost.                                                                   *)
THEOREM HiddenHolds == CatchSpec => []HiddenBetweenThrows
<1>1. CatchInv => HiddenBetweenThrows
  BY DEF CatchInv, HiddenInv, Settled, HiddenBetweenThrows
<1>2. QED
  BY <1>1, CatchInvariance, PTL

(* The policy sees a ball only while the last report has it in the air.    *)
THEOREM SeesOnlyFlyingHolds == CatchSpec => []SeesOnlyFlying
<1>1. CatchInv => SeesOnlyFlying
  BY DEF CatchInv
<1>2. QED
  BY <1>1, CatchInvariance, PTL

(* The visualizer never has two spawns under way, however they end, and    *)
(* believes in its model only when it is there.                            *)
THEOREM FovKnownHolds == CatchSpec => []FovKnown
<1>1. CatchInv => FovKnown
  BY DEF CatchInv, FovInv, FovKnown
<1>2. QED
  BY <1>1, CatchInvariance, PTL
=============================================================================
