------------------------------- MODULE L4W4 -------------------------------
(***************************************************************************)
(* L4W4SDK: the commands to and the state from a robot with four wheeled   *)
(* legs, over UDP. A datagram is a sequence of fields; the robot's own     *)
(* program, which is not in the repository, puts a leg's joints where it   *)
(* is told and reports them.                                               *)
(*                                                                         *)
(* Angles are integers: hundredths of a radian, for a wheel tenths of a    *)
(* radian per second. An orientation is <<w, x, y, z>>, integers too: not  *)
(* of length one, but a turn of vectors up to their length.                *)
(***************************************************************************)
EXTENDS Integers, Sequences, SequencesExt

CONSTANTS
  Angles,     \* commanded for a motor, every other one being told 0
  Turns,      \* the orientations the robot may report
  MaxCommands \* bound

Motors == 0..15
JointOf == <<"hip", "thigh", "shank", "wheel">>
Joint(m) == JointOf[(m % 4) + 1]

(* The first motors of leg1, leg2, leg3 and leg4: this is their order in a *)
(* datagram to the robot, and in one from it.                              *)
WireOrder == <<4, 12, 8, 0>>

Zero == [m \in Motors |-> 0]

VARIABLES
  lowCmd,   \* motorCmd[i].q, dq of a wheel
  sent,     \* datagrams to the robot: [fields, of]; "of" is the command
            \* they were made from (auxiliary)
  legs,     \* the robot's joints in the order of the wire: [fields, of]
  reports,  \* datagrams from it: [fields, of, orientation]
  lowState, \* motorState[i].q (dq) and imu: [q, of, quaternion, robot]; "robot"
            \* is where its up, front and right point (robot_up_w, ...)
  commands  \* bound: commands given

(* Quaternion_Transform: v turned by q. *)
Cross(u, v) == <<u[2] * v[3] - u[3] * v[2], u[3] * v[1] - u[1] * v[3],
                 u[1] * v[2] - u[2] * v[1]>>
Dot(u, v) == u[1] * v[1] + u[2] * v[2] + u[3] * v[3]
QuaternionTransform(v, q) ==
  LET u == Tail(q)
  IN [i \in 1..3 |-> 2 * Dot(u, v) * u[i] + (q[1] * q[1] - Dot(u, u)) * v[i]
                     + 2 * q[1] * Cross(u, v)[i]]

(* In a datagram y is up, x front and z right; in LowState z is up and     *)
(* right is against y.                                                     *)
RobotAxes(q) == [up |-> QuaternionTransform(<<0, 1, 0>>, q),
                 front |-> QuaternionTransform(<<1, 0, 0>>, q),
                 right |-> QuaternionTransform(<<0, 0, 1>>, q)]

ImuQuaternion(q) == <<q[1], q[2], -q[4], q[3]>>

Upright == <<1, 0, 0, 0>>
WireInit ==
  /\ lowCmd = Zero /\ commands = 0
  /\ lowState = [q |-> Zero, of |-> Zero, quaternion |-> Upright, robot |-> RobotAxes(Upright)]
  /\ sent = <<>> /\ reports = <<>> /\ legs = [fields |-> Zero, of |-> Zero]

(* The half range of a field. *)
HalfRange(joint) == IF joint = "wheel" THEN 2000 ELSE 320

WireAssumption ==
  /\ MaxCommands \in Nat
  /\ Angles \subseteq {a \in Int : -320 <= a /\ a <= 320}
  /\ Turns \subseteq {q \in Seq(Int) : Len(q) = 4}

(* write_into2bytes, big end first: a number below 2^16 for a value in the *)
(* range. (Of another value the conversion to ushort is undefined.)        *)
WriteInto2Bytes(value, half) == (((value + half) * 65535) \div (2 * half)) % 65536

(* The value nearest to such a number. *)
Understood(v16, half) == (v16 * 2 * half + 32767) \div 65535 - half

(* The hips turn as the motors do, the other joints against them.          *)
Sign(m) == IF Joint(m) = "hip" THEN 1 ELSE -1

(* The motor whose joint is field k, with the legs in the given order.     *)
MotorAt(k, order) == order[(k \div 4) + 1] + (k % 4)

(* A faulty variant: the rear legs are sent in the order of the motors.    *)
SentMotorByNumber(k) == MotorAt(k, <<4, 8, 12, 0>>)

SentMotor(k) == MotorAt(k, WireOrder)

SendUDP ==
  /\ commands < MaxCommands /\ commands' = commands + 1
  /\ \E m \in Motors, a \in Angles : lowCmd' = [Zero EXCEPT ![m] = a]
  /\ sent' = Append(sent, [of |-> lowCmd', fields |-> [k \in Motors |->
       WriteInto2Bytes(Sign(k) * lowCmd'[SentMotor(k)], HalfRange(Joint(k)))]])
  /\ UNCHANGED <<legs, reports, lowState>>

Obey ==
  /\ sent # <<>> /\ sent' = Tail(sent)
  /\ legs' = [of |-> Head(sent).of,
              fields |-> [k \in Motors |-> Understood(Head(sent).fields[k], HalfRange(Joint(k)))]]
  /\ \E q \in Turns : reports' = Append(reports, [of |-> legs'.of, fields |-> legs'.fields, orientation |-> q])
  /\ UNCHANGED <<lowCmd, lowState, commands>>

(* A datagram is lost, to the robot or from it. *)
Lose ==
  /\ \/ \E i \in DOMAIN sent : sent' = RemoveAt(sent, i) /\ UNCHANGED reports
     \/ \E i \in DOMAIN reports : reports' = RemoveAt(reports, i) /\ UNCHANGED sent
  /\ UNCHANGED <<lowCmd, legs, lowState, commands>>

(* The field with the motor's joint. *)
FieldOf(m) == CHOOSE k \in Motors : MotorAt(k, WireOrder) = m

Analyzed(fields) == [m \in Motors |-> Sign(m) * fields[FieldOf(m)]]

AnalyzeUDP ==
  /\ reports # <<>> /\ reports' = Tail(reports)
  /\ LET report == Head(reports)
     IN lowState' = [q |-> Analyzed(report.fields), of |-> report.of,
                     quaternion |-> ImuQuaternion(report.orientation),
                     robot |-> RobotAxes(report.orientation)]
  /\ UNCHANGED <<lowCmd, sent, legs, commands>>

WireNext == SendUDP \/ Obey \/ Lose \/ AnalyzeUDP

(* Every motor reports the angle it was told by the command the report     *)
(* follows: the orders of the legs, the signs of the joints and the two    *)
(* conversions of a field agree, whatever datagrams are lost in between.   *)
MotorRoundTrip == lowState.q = lowState.of

(* The orientation of LowState is the one the robot reported: turned by    *)
(* it, z is the robot's up, x its front and y the opposite of its right,   *)
(* each written in the axes of LowState (AnalyzeUDP changes the axes).     *)
SameAttitude ==
  LET written(v) == <<v[1], -v[3], v[2]>>
      turned(v) == QuaternionTransform(v, lowState.quaternion)
  IN /\ written(lowState.robot.up) = turned(<<0, 0, 1>>)
     /\ written(lowState.robot.front) = turned(<<1, 0, 0>>)
     /\ written(lowState.robot.right) = turned(<<0, -1, 0>>)
=============================================================================
