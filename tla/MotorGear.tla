----------------------------- MODULE MotorGear -----------------------------
(***************************************************************************)
(* The calves of the real robot are driven through a gear: MotorFeedback-  *)
(* Callback turns what the motors report into joint quantities, SetCommand *)
(* turns the command for the joints into one for the motors. A motor does  *)
(* what its drive, which is not in the repository, is known to do with kp  *)
(* and kd. Fractions are avoided by choosing inputs that divide.           *)
(***************************************************************************)
EXTENDS Integers

CONSTANTS
  Ratios,   \* of calf_gear_ratio
  Positions, \* of a joint, and its velocities
  Gains,    \* kp, kd and tau of a joint command, in squares of the ratio
  MaxMoves  \* bound: feedbacks and commands

GearAssumption ==
  /\ Ratios \subseteq Nat \ {0} /\ Positions \cup Gains \subseteq Int /\ MaxMoves \in Nat

Joints == {"thigh", "calf"}

VARIABLES
  calf_gear_ratio,
  motor,    \* of each motor: [position, velocity]
  latest,   \* latest_state.motor_state: [q, dq]
  joint_command, \* the command SetCommand was given: [q, dq, tau, kp, kd]
  motor_command, \* what it made of it: [position, velocity, torque, kp, kd]
  gearMoves

gearVars == <<calf_gear_ratio, motor, latest, joint_command, motor_command, gearMoves>>

AtRest == [position |-> 0, velocity |-> 0]
NoCommand == [q |-> 0, dq |-> 0, tau |-> 0, kp |-> 0, kd |-> 0]

GearInit ==
  /\ calf_gear_ratio \in Ratios
  /\ motor = [i \in Joints |-> AtRest]
  /\ latest = [i \in Joints |-> [q |-> 0, dq |-> 0]]
  /\ joint_command = [i \in Joints |-> NoCommand]
  /\ motor_command = [i \in Joints |->
       [position |-> 0, velocity |-> 0, torque |-> 0, kp |-> 0, kd |-> 0]]
  /\ gearMoves = 0

-----------------------------------------------------------------------------
Gear(i) == IF i = "calf" THEN calf_gear_ratio ELSE 1

ToJointPosition(i, position) == position \div Gear(i)
ToJointVelocity(i, velocity) == velocity \div Gear(i)
ToJointTorque(i, torque) == torque * Gear(i)
ToMotorPosition(i, q) == q * Gear(i)
ToMotorVelocity(i, dq) == dq * Gear(i)
ToMotorTorque(i, tau) == tau \div Gear(i)

ToMotorGain(i, gain) == gain \div (Gear(i) * Gear(i))

(* A motor turns and reports it. *)
MotorFeedbackCallback(i, turned, speed) ==
  /\ gearMoves < MaxMoves /\ gearMoves' = gearMoves + 1
  /\ motor' = [motor EXCEPT ![i] = [position |-> turned * Gear(i), velocity |-> speed * Gear(i)]]
  /\ latest' = [j \in Joints |-> [q |-> ToJointPosition(j, motor'[j].position),
                                  dq |-> ToJointVelocity(j, motor'[j].velocity)]]
  /\ UNCHANGED <<calf_gear_ratio, joint_command, motor_command>>

SetCommand(i, command) ==
  /\ gearMoves < MaxMoves /\ gearMoves' = gearMoves + 1
  /\ joint_command' = [joint_command EXCEPT ![i] = command]
  /\ motor_command' = [j \in Joints |->
       LET c == joint_command'[j]
       IN [position |-> ToMotorPosition(j, c.q), velocity |-> ToMotorVelocity(j, c.dq),
           torque |-> ToMotorTorque(j, c.tau), kp |-> ToMotorGain(j, c.kp),
           kd |-> ToMotorGain(j, c.kd)]]
  /\ UNCHANGED <<calf_gear_ratio, motor, latest>>

GearNext == \E i \in Joints :
  \/ \E turned, speed \in Positions : MotorFeedbackCallback(i, turned, speed)
  \/ \E q \in Positions, tau, kp, kd \in Gains :
       LET scale == Gear(i) * Gear(i)
       IN SetCommand(i, [q |-> q, dq |-> q, tau |-> tau * scale, kp |-> kp * scale,
                         kd |-> kd * scale])

(* The drive of a motor. *)
MotorTorque(i) ==
  LET c == motor_command[i]
  IN c.kp * (c.position - motor[i].position) + c.kd * (c.velocity - motor[i].velocity)
     + c.torque

(* Through the gear a joint feels exactly the torque its command asks for  *)
(* in the state reported for it: the seven conversions agree, the gains'   *)
(* with the square of the ratio.                                           *)
GearExact ==
  \A i \in Joints :
    LET c == joint_command[i]
    IN ToJointTorque(i, MotorTorque(i))
       = c.kp * (c.q - latest[i].q) + c.kd * (c.dq - latest[i].dq) + c.tau
=============================================================================
