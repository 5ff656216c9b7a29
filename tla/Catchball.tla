----------------------------- MODULE Catchball -----------------------------
(***************************************************************************)
(* The ball of the catch-ball task in Gazebo: the script that throws it,   *)
(* the script that shows the camera's field of view, and the node's        *)
(* observation of the ball for the policy.                                 *)
(*                                                                         *)
(* Each is a process of its own that calls Gazebo's services without       *)
(* looking at the answer. The calls of one client are served in order, or  *)
(* get lost. A pose of the ball is the step of its flight, or Low: on the  *)
(* ground, or far below it where the scripts hide it. Messages on          *)
(* /model_states and /link_states say what is true when they are handled.  *)
(* While the simulation is paused the ball does not fall: nothing makes it.*)
(***************************************************************************)
EXTENDS Integers, Sequences

CONSTANTS
  WaitSteps,   \* wait_time, in steps of the clock
  Landings,    \* when a throw ends: tc and the margin, or z below the threshold
  Enabled,     \* the thrower's parameter, FALSE with catchball_debug
  MaxLostCalls, \* bound: calls Gazebo never gets
  MaxCalls     \* bound: calls of set_entity_state in flight

Low == -1      \* also obs.ball_pos_b = {0, 0, 0}
None == -2     \* no pose received
MaxLanding == CHOOSE l \in Landings : \A k \in Landings : k <= l

ASSUME CatchballAssumption ==
  /\ WaitSteps \in Nat /\ Landings \subseteq Nat \ {0}
  /\ \E l \in Landings : \A k \in Landings : k <= l
  /\ MaxLostCalls \in Nat /\ MaxCalls \in Nat \ {0} /\ Enabled \in BOOLEAN

VARIABLES
  ball, ballIn,         \* Gazebo: the ball's pose, the ball exists
  baseIn,               \* the robot exists
  lostCalls,            \* auxiliary: calls lost
  throwing, elapsed, landing, hasBall, sets, \* the thrower, its calls in flight
  fovRequested, fovSpawned, fovBase, \* the visualizer: a call made, answered, a base pose known
  fovCalls, fovIn, fovAt, \* its calls in flight, its model, shown at the robot
  hasBase, linkBall, modelBall, delayed, obsBall \* what the node knows

worldVars == <<ball, ballIn, baseIn>>
throwVars == <<throwing, elapsed, landing, hasBall>>
fovVars == <<fovRequested, fovSpawned, fovBase, fovCalls, fovIn, fovAt>>
obsVars == <<hasBase, linkBall, modelBall, delayed, obsBall>>
catchVars == <<worldVars, lostCalls, throwVars, sets, fovVars, obsVars>>

Poses == {Low} \cup 0..MaxLanding

CatchTypeOK ==
  /\ lostCalls \in 0..MaxLostCalls
  /\ ball \in Poses /\ {ballIn, baseIn} \subseteq BOOLEAN
  /\ throwing \in BOOLEAN /\ elapsed \in 0..(WaitSteps + MaxLanding) /\ landing \in Landings
  /\ hasBall \in BOOLEAN /\ sets \in Seq(Poses) /\ Len(sets) <= MaxCalls
  /\ {fovRequested, fovSpawned, fovBase, fovIn, fovAt} \subseteq BOOLEAN
  /\ fovCalls \in Seq({"sent", "done", "failed"})
  /\ hasBase \in BOOLEAN
  /\ {linkBall, modelBall, delayed} \subseteq Poses \cup {None} /\ obsBall \in Poses

CatchInit ==
  /\ ball = Low /\ ballIn = FALSE /\ baseIn = FALSE /\ lostCalls = 0
  /\ throwing = FALSE /\ elapsed = 0 /\ landing \in Landings /\ hasBall = FALSE /\ sets = <<>>
  /\ fovRequested = FALSE /\ fovSpawned = FALSE /\ fovBase = FALSE
  /\ fovCalls = <<>> /\ fovIn = FALSE /\ fovAt = FALSE
  /\ hasBase = FALSE /\ linkBall = None /\ modelBall = None /\ delayed = None /\ obsBall = Low

-----------------------------------------------------------------------------
(***************************************************************************)
(* Gazebo: models appear, the ball falls.                                  *)
(***************************************************************************)

SpawnRobot ==
  /\ ~baseIn /\ baseIn' = TRUE
  /\ UNCHANGED <<lostCalls, ball, ballIn, throwVars, sets, fovVars, obsVars>>

SpawnCatchball ==
  /\ ~ballIn /\ ballIn' = TRUE
  /\ UNCHANGED <<lostCalls, ball, baseIn, throwVars, sets, fovVars, obsVars>>

Fall ==
  /\ ball # Low /\ ball' = Low
  /\ UNCHANGED <<lostCalls, ballIn, baseIn, throwVars, sets, fovVars, obsVars>>

ServeSet ==
  /\ sets # <<>> /\ sets' = Tail(sets)
  /\ ball' = Head(sets)
  /\ UNCHANGED <<lostCalls, ballIn, baseIn, throwVars, fovVars, obsVars>>

LoseSet ==
  /\ sets # <<>> /\ sets' = Tail(sets)
  /\ lostCalls < MaxLostCalls /\ lostCalls' = lostCalls + 1
  /\ UNCHANGED <<worldVars, throwVars, fovVars, obsVars>>

-----------------------------------------------------------------------------
(***************************************************************************)
(* CatchballThrower. A tick without the service or the ball does nothing.  *)
(***************************************************************************)

outside == <<lostCalls, worldVars, fovVars, obsVars>>

OnModelStates ==
  /\ hasBall' = ballIn
  /\ UNCHANGED <<outside, throwing, elapsed, landing, sets>>

(* The ROS clock, which pausing Gazebo does not stop. *)
Clock ==
  /\ elapsed < WaitSteps + MaxLanding /\ elapsed' = elapsed + 1
  /\ UNCHANGED <<outside, throwing, landing, hasBall, sets>>

SendState(pose) == Len(sets) < MaxCalls /\ sets' = Append(sets, pose)

OnTimerHide ==
  /\ hasBall
  /\ ~Enabled \/ (~throwing /\ elapsed < WaitSteps)
  /\ SendState(Low)
  /\ UNCHANGED <<outside, throwVars>>

(* sample gives one of the throws; the tick goes on with it at time 0. *)
OnTimerThrow ==
  /\ hasBall /\ Enabled /\ ~throwing /\ elapsed >= WaitSteps
  /\ throwing' = TRUE /\ elapsed' = 0 /\ landing' \in Landings
  /\ SendState(0)
  /\ UNCHANGED <<outside, hasBall>>

Flight(start) ==
  /\ hasBall /\ Enabled /\ throwing /\ elapsed < landing
  /\ elapsed' = start
  /\ SendState(elapsed)
  /\ UNCHANGED <<outside, throwing, landing, hasBall>>

OnTimerFlight == Flight(elapsed)

EndThrow(pose) ==
  /\ hasBall /\ Enabled /\ throwing /\ elapsed >= landing
  /\ throwing' = FALSE /\ elapsed' = 0
  /\ SendState(pose)
  /\ UNCHANGED <<outside, landing, hasBall>>

(* A faulty variant: the last call leaves the ball where it was.           *)
OnTimerLandShown == EndThrow(landing)

OnTimerLand == EndThrow(Low)

Thrower == OnTimerHide \/ OnTimerThrow \/ OnTimerFlight \/ OnTimerLand

-----------------------------------------------------------------------------
(***************************************************************************)
(* CatchballFovVisualizer: its model is spawned once.                      *)
(***************************************************************************)

beside == <<lostCalls, worldVars, throwVars, sets, obsVars>>

OnLinkStates ==
  /\ fovBase' = (fovBase \/ baseIn)
  /\ UNCHANGED <<beside, fovRequested, fovSpawned, fovCalls, fovIn, fovAt>>

SpawnWhen(free) ==
  /\ ~fovSpawned /\ free /\ Len(fovCalls) < 2
  /\ fovRequested' = TRUE /\ fovCalls' = Append(fovCalls, "sent")
  /\ UNCHANGED <<beside, fovSpawned, fovBase, fovIn, fovAt>>

SpawnModelOnce == SpawnWhen(~fovRequested)

(* Gazebo spawns the model, or fails: it has one already, or for a reason of its own. *)
ServeSpawn ==
  /\ \E i \in DOMAIN fovCalls :
       /\ fovCalls[i] = "sent"
       /\ \/ fovCalls' = [fovCalls EXCEPT ![i] = "done"] /\ fovIn' = TRUE
          \/ fovCalls' = [fovCalls EXCEPT ![i] = "failed"] /\ fovIn' = fovIn
  /\ UNCHANGED <<beside, fovRequested, fovSpawned, fovBase, fovAt>>

SpawnDone(requestedAfterFailure) ==
  /\ fovCalls # <<>> /\ Head(fovCalls) # "sent" /\ fovCalls' = Tail(fovCalls)
  /\ fovSpawned' = (Head(fovCalls) = "done" \/ fovIn)
  /\ fovRequested' = (fovSpawned' \/ requestedAfterFailure)
  /\ UNCHANGED <<beside, fovBase, fovIn, fovAt>>

(* A faulty variant: a failed request still counts.                        *)
OnSpawnDoneKept == SpawnDone(TRUE)

OnSpawnDone == SpawnDone(FALSE)

OnTimerFov ==
  /\ fovSpawned /\ fovBase /\ fovAt' = fovIn
  /\ UNCHANGED <<beside, fovRequested, fovSpawned, fovBase, fovCalls, fovIn>>

-----------------------------------------------------------------------------
(***************************************************************************)
(* The node's observation, under model_states_mutex. Of the perception the *)
(* delay of one call is kept, and that a low ball is out of view.          *)
(***************************************************************************)

around == <<lostCalls, worldVars, throwVars, sets, fovVars>>

Perceive(hidden, inFlight, current) ==
  LET seen == IF delayed = None THEN current ELSE delayed IN
  /\ delayed' = current
  /\ obsBall' \in IF hidden \/ ~inFlight \/ seen = Low THEN {Low} ELSE {Low, seen}

(* A faulty variant: a ball that lies on the ground still counts.          *)
ComputeBallPosBAnyway(current) == Perceive(FALSE, TRUE, current)

ComputeBallPosB(current) == Perceive(FALSE, current # Low, current)

Observe(known) ==
  IF hasBase' /\ known
  THEN ComputeBallPosB(IF linkBall' # None THEN linkBall' ELSE modelBall')
  ELSE obsBall' = Low /\ delayed' = delayed

UpdateCatchballObservation == Observe(linkBall' # None \/ modelBall' # None)

ModelStatesCallback ==
  /\ modelBall' = IF ballIn THEN ball ELSE None
  /\ UNCHANGED <<hasBase, linkBall>>
  /\ UpdateCatchballObservation
  /\ UNCHANGED around

LinkStatesCallback ==
  /\ hasBase' = baseIn
  /\ linkBall' = IF ballIn THEN ball ELSE None
  /\ UNCHANGED modelBall
  /\ UpdateCatchballObservation
  /\ UNCHANGED around

CatchNext ==
  \/ SpawnRobot \/ SpawnCatchball \/ Fall \/ ServeSet \/ LoseSet
  \/ OnModelStates \/ Clock \/ Thrower
  \/ OnLinkStates \/ SpawnModelOnce \/ ServeSpawn \/ OnSpawnDone \/ OnTimerFov
  \/ ModelStatesCallback \/ LinkStatesCallback

CatchSpec == CatchInit /\ [][CatchNext]_catchVars

(* Timers tick, clocks advance, Gazebo serves, messages come; a spawn that *)
(* is asked again and again succeeds.                                      *)
FairCatchSpec ==
  /\ CatchSpec
  /\ WF_catchVars(SpawnRobot) /\ WF_catchVars(SpawnCatchball)
  /\ WF_catchVars(ServeSet) /\ WF_catchVars(ServeSpawn)
  /\ WF_catchVars(OnModelStates) /\ WF_catchVars(Clock) /\ WF_catchVars(Thrower)
  /\ WF_catchVars(OnLinkStates) /\ WF_catchVars(SpawnModelOnce)
  /\ WF_catchVars(OnSpawnDone) /\ WF_catchVars(OnTimerFov)
  /\ SF_catchVars(ServeSpawn /\ fovIn')

-----------------------------------------------------------------------------
(***************************************************************************)
(* Properties.                                                             *)
(***************************************************************************)

(* Between two throws the last call in flight hides the ball, so a ball    *)
(* left in the air is a call that was lost.                                *)
HiddenBetweenThrows ==
  ~throwing /\ lostCalls = 0 => IF sets = <<>> THEN ball = Low ELSE sets[Len(sets)] = Low

(* The policy is not shown a ball whose last reported pose is low, though  *)
(* what it sees is a report behind.                                        *)
SeesOnlyFlying ==
  obsBall # Low => hasBase /\ (IF linkBall # None THEN linkBall ELSE modelBall) >= 0

(* One spawn of the field of view is asked for at a time, and poses are    *)
(* sent only to a model that is there.                                     *)
FovKnown == Len(fovCalls) <= 1 /\ (fovSpawned => fovIn)

(* A throw ends, whatever calls were lost.                                 *)
ThrowsEnd == throwing ~> ~throwing

(* A lost call is made up for: the ball is hidden again and again.         *)
HiddenAgain == []<>(ball = Low)

(* The field of view is shown at the robot in the end, however often a     *)
(* spawn fails.                                                            *)
FovShown == <>[]fovAt
=============================================================================
