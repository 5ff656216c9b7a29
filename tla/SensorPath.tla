---------------------------- MODULE SensorPath ----------------------------
(***************************************************************************)
(* The way of the sensors to the policy and of the commands to the motors, *)
(* in the three nodes: callbacks (or the physics) write what arrived, the  *)
(* control thread copies it into robot_state, acts and sends commands, and *)
(* the policy thread copies robot_state into the observation. Each of the  *)
(* copies goes element by element, and only some are under a mutex.        *)
(*                                                                         *)
(* An element carries where it came from and the number of the message.    *)
(***************************************************************************)
EXTENDS Integers, Sequences, FiniteSets

CONSTANTS
  Nodes,      \* of "real", "gazebo" and "mujoco"
  NumJoints,  \* num_of_dofs
  MaxMessages \* bound: messages of each kind

ASSUME SensorAssumption ==
  /\ Nodes \subseteq {"real", "gazebo", "mujoco"} /\ Nodes # {}
  /\ NumJoints \in Nat \ {0} /\ MaxMessages \in Nat

Joints == 1..NumJoints
ImuElements == {<<"imu", "quaternion">>, <<"imu", "gyroscope">>}
JointElements == {"q"} \X Joints   \* dq and tau_est are copied beside q
Elements == ImuElements \cup JointElements
Mappings == {f \in [Joints -> Joints] : \A i, j \in Joints : f[i] = f[j] => i = j}

VARIABLES
  program, joint_mapping,   \* which program runs, and its configuration
  imu, motors,           \* messages that arrived (mujoco: steps of the physics)
  latest, writing,       \* what they wrote, and what is left of a message being written
  robot_state, getting,  \* the control thread's copy, and what is left to copy
  control,               \* its place: "idle", "get", "act"
  rl_init_done, obs, reading, policy, \* the policy thread
  before, torn,          \* auxiliary: robot_state when RunModel began, GetState ran since
  command                \* which element of the command each motor follows, 0 for none

sensorVars == <<imu, motors, latest, writing>>
controlVars == <<robot_state, getting, control, command, rl_init_done>>
policyVars == <<obs, reading, policy, before>>
sensorPathVars == <<program, joint_mapping, sensorVars, controlVars, policyVars, torn>>

Nothing == [from |-> 0, number |-> 0]
Value == [from : 0..NumJoints, number : 0..MaxMessages]

SensorTypeOK ==
  /\ program \in Nodes /\ joint_mapping \in Mappings
  /\ imu \in 0..MaxMessages /\ motors \in 0..MaxMessages
  /\ latest \in [Elements -> Value] /\ robot_state \in [Elements -> Value]
  /\ obs \in [Elements -> Value] /\ before \in [Elements -> Value]
  /\ writing \in Seq(Elements) /\ getting \in Seq(Elements) /\ reading \in Seq(Elements)
  /\ control \in {"idle", "get", "act"} /\ policy \in {"idle", "read", "run"}
  /\ rl_init_done \in BOOLEAN /\ torn \in BOOLEAN
  /\ command \in [Joints -> 0..NumJoints]

SensorInit ==
  /\ program \in Nodes
  /\ joint_mapping \in IF program = "real" THEN {[i \in Joints |-> i]} ELSE Mappings
  /\ imu = 0 /\ motors = 0 /\ writing = <<>>
  /\ latest = [e \in Elements |-> Nothing] /\ robot_state = latest
  /\ obs = latest /\ before = latest
  /\ getting = <<>> /\ reading = <<>> /\ control = "idle" /\ policy = "idle"
  /\ rl_init_done = FALSE /\ torn = FALSE /\ command = [m \in Joints |-> 0]

-----------------------------------------------------------------------------
(***************************************************************************)
(* Messages. The real robot's callbacks hold state_mutex, which GetState   *)
(* holds too; a step of MuJoCo's physics holds sim->mtx, which RobotControl*)
(* holds. Gazebo's node assigns the message without a lock.                *)
(***************************************************************************)

Locked == (program = "real" /\ control = "get") \/ (program = "mujoco" /\ control # "idle")

ImuOrder == <<<<"imu", "quaternion">>, <<"imu", "gyroscope">>>>
JointElementOrder == [i \in Joints |-> <<"q", i>>]

Arrived(e) ==
  IF e[1] = "imu" THEN [from |-> 0, number |-> imu'] ELSE [from |-> e[2], number |-> motors']

Write(es) == latest' = [e \in Elements |-> IF e \in es THEN Arrived(e) ELSE latest[e]]

MotorFeedback(allowed) ==
  /\ program = "real" /\ allowed /\ motors < MaxMessages /\ motors' = motors + 1
  /\ Write(JointElements)
  /\ UNCHANGED <<program, joint_mapping, imu, writing, controlVars, policyVars, torn>>

(* A faulty variant: state_mutex is not taken.                             *)
MotorFeedbackCallbackUnlocked == MotorFeedback(TRUE)

MotorFeedbackCallback == MotorFeedback(~Locked)

ImuCallback ==
  /\ program = "real" /\ ~Locked /\ imu < MaxMessages /\ imu' = imu + 1
  /\ Write(ImuElements)
  /\ UNCHANGED <<program, joint_mapping, motors, writing, controlVars, policyVars, torn>>

Physics ==
  /\ program = "mujoco" /\ ~Locked /\ imu < MaxMessages
  /\ imu' = imu + 1 /\ motors' = imu + 1
  /\ Write(Elements)
  /\ UNCHANGED <<program, joint_mapping, writing, controlVars, policyVars, torn>>

GazeboImuCallback ==
  /\ program = "gazebo" /\ writing = <<>> /\ imu < MaxMessages /\ imu' = imu + 1
  /\ writing' = ImuOrder
  /\ UNCHANGED <<program, joint_mapping, motors, latest, controlVars, policyVars, torn>>

RobotStateCallback ==
  /\ program = "gazebo" /\ writing = <<>> /\ motors < MaxMessages /\ motors' = motors + 1
  /\ writing' = JointElementOrder
  /\ UNCHANGED <<program, joint_mapping, imu, latest, controlVars, policyVars, torn>>

AssignElement ==
  /\ writing # <<>> /\ writing' = Tail(writing)
  /\ UNCHANGED <<imu, motors>> /\ Write({Head(writing)})
  /\ UNCHANGED <<program, joint_mapping, controlVars, policyVars, torn>>

-----------------------------------------------------------------------------
(***************************************************************************)
(* RobotControl.                                                           *)
(***************************************************************************)

SensorsReady == imu > 0 /\ motors > 0

RobotControl ==
  /\ control = "idle" /\ (program = "real" => SensorsReady) /\ control' = "get"
  /\ torn' = (policy = "read" \/ torn)
  /\ getting' = ImuOrder \o JointElementOrder
  /\ UNCHANGED <<program, joint_mapping, sensorVars, robot_state, command, rl_init_done, policyVars>>

Source(e) == IF e[1] = "imu" THEN e ELSE <<e[1], joint_mapping[e[2]]>>

GetFrom(source) ==
  /\ control = "get" /\ getting # <<>> /\ getting' = Tail(getting)
  /\ robot_state' = [robot_state EXCEPT ![Head(getting)] = latest[source]]
  /\ control' = IF getting' = <<>> THEN "act" ELSE control
  /\ UNCHANGED <<program, joint_mapping, sensorVars, command, rl_init_done, policyVars, torn>>

(* A faulty variant: joint_mapping is not looked up.                       *)
GetStateUnmapped == GetFrom(Head(getting))

GetState == GetFrom(Source(Head(getting)))

(* StateController, which may enter or leave an RL state, and SetCommand.  *)
SetCommand ==
  /\ control = "act" /\ control' = "idle"
  /\ rl_init_done' \in BOOLEAN
  /\ command' = [m \in Joints |-> CHOOSE i \in Joints : joint_mapping[i] = m]
  /\ UNCHANGED <<program, joint_mapping, sensorVars, robot_state, getting, policyVars, torn>>

-----------------------------------------------------------------------------
(***************************************************************************)
(* RunModel copies robot_state without a lock, and infers from the copy.   *)
(***************************************************************************)

RunModel ==
  /\ policy = "idle" /\ rl_init_done /\ (program = "real" => SensorsReady)
  /\ policy' = "read"
  /\ before' = robot_state /\ torn' = (control = "get")
  /\ reading' = <<ImuOrder[2], ImuOrder[1]>> \o JointElementOrder
  /\ UNCHANGED <<program, joint_mapping, sensorVars, controlVars, obs>>

Read(values) ==
  /\ policy = "read" /\ reading # <<>> /\ reading' = Tail(reading)
  /\ obs' = [obs EXCEPT ![Head(reading)] = values[Head(reading)]]
  /\ policy' = IF reading' = <<>> THEN "run" ELSE policy
  /\ UNCHANGED <<program, joint_mapping, sensorVars, controlVars, before, torn>>

(* A faulty variant: the last observation is kept.                         *)
ReadStateKept == Read(obs)

ReadState == Read(robot_state)

Forward ==
  /\ policy = "run" /\ policy' = "idle"
  /\ UNCHANGED <<program, joint_mapping, sensorVars, controlVars, obs, reading, before, torn>>

SensorNext ==
  \/ MotorFeedbackCallback \/ ImuCallback \/ Physics
  \/ GazeboImuCallback \/ RobotStateCallback \/ AssignElement
  \/ RobotControl \/ GetState \/ SetCommand
  \/ RunModel \/ ReadState \/ Forward

SensorSpec == SensorInit /\ [][SensorNext]_sensorPathVars

-----------------------------------------------------------------------------
(***************************************************************************)
(* Properties.                                                             *)
(***************************************************************************)

Numbers(state, es) == {state[e].number : e \in es}

(* What the state machine of the real robot and of MuJoCo acts on is one   *)
(* message of each kind, of MuJoCo one step: no callback gets between.     *)
SnapshotWhole ==
  control = "act" /\ program # "gazebo" =>
    /\ Cardinality(Numbers(robot_state, ImuElements)) = 1
    /\ Cardinality(Numbers(robot_state, JointElements)) = 1
    /\ program = "mujoco" => Cardinality(Numbers(robot_state, Elements)) = 1

(* The real robot's policy never sees a sensor that did not report, though *)
(* RunModel does not wait for a GetState.                                  *)
SeesSensors ==
  policy = "run" /\ program = "real" => \A e \in Elements : obs[e].number > 0

(* An inference sees no element older than robot_state was when it began   *)
(* and none newer than it is, and robot_state itself if no cycle began     *)
(* meanwhile: a copy in the midst of a cycle mixes cycles, never older.    *)
SeesRecent ==
  policy = "run" =>
    /\ \A e \in Elements : obs[e].number \in before[e].number..robot_state[e].number
    /\ torn \/ obs = before

(* The motor a joint's state comes from follows that joint's command, in   *)
(* any order of the motors.                                                *)
JointOrder ==
  \A m \in Joints : command[m] # 0 =>
    robot_state[<<"q", command[m]>>].from \in {0, m}

(* Known not to hold: an inference sees one cycle of the control thread.   *)
SeesOneCycle ==
  policy = "run" /\ program # "gazebo" => Cardinality(Numbers(obs, ImuElements)) = 1

(* Known not to hold: nor is Gazebo's state of one message.                *)
SnapshotWholeGazebo ==
  control = "act" => Cardinality(Numbers(robot_state, JointElements)) = 1
=============================================================================
