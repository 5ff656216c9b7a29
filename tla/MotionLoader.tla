--------------------------- MODULE MotionLoader ---------------------------
(***************************************************************************)
(* MotionLoader: the reference motion of a mimic task, read from the rows  *)
(* of a file and interpolated at a time. A row is the root's seven numbers *)
(* and the joints'; of the root only that it is there is kept. The time is *)
(* counted in Ticks to a frame (dt_ is Ticks); a blend is a number of      *)
(* parts of Duration.                                                      *)
(***************************************************************************)
EXTENDS Integers, Sequences

CONSTANTS
  Files, \* contents of files: rows [root |-> complete or not, joints |-> positions]
  Ticks  \* the resolution of the time

VARIABLES
  frames, \* joint_positions_
  now,    \* auxiliary: the time of the last Update
  index0, index1, blend

(* LoadFromCSV: the rows with a complete root; it throws if there is none. *)
FramesOf(rows) == SelectSeq(rows, LAMBDA row : row.root)

(* The rows of a file are of one robot. *)
Joints(n) == {v \in Seq(Int) : Len(v) = n}
MotionAssumption ==
  /\ Ticks \in Nat \ {0}
  /\ \A rows \in Files :
       LET kept == FramesOf(rows)
       IN kept # <<>> /\ kept \in Seq([root : BOOLEAN, joints : Joints(Len(kept[1].joints))])

MotionInit ==
  /\ \E rows \in Files : frames = FramesOf(rows)
  /\ now = 0 /\ index0 = 0 /\ index1 = 0 /\ blend = 0

Last == Len(frames) - 1
Positions(frame) == frames[frame + 1].joints

(* Update: duration_ is N frames, spread over the N - 1 steps between them.*)
Duration == Len(frames) * Ticks
Times == (-1)..(Duration + 1)
FrameTicks(time) ==
  (IF time < 0 THEN 0 ELSE IF time > Duration THEN Duration ELSE time) * Last

Index0(time) == FrameTicks(time) \div Duration

Index1(time) == IF Index0(time) + 1 < Last THEN Index0(time) + 1 ELSE Last
Blend(time) == FrameTicks(time) % Duration

Update(time) ==
  /\ now' = time
  /\ index0' = Index0(time) /\ index1' = Index1(time) /\ blend' = Blend(time)
  /\ UNCHANGED frames

MotionNext == \E time \in Times : Update(time)

(* ComputeVelocities: forward differences over dt_, the last frame with the *)
(* one before. (With a single frame, back() of an empty vector.)            *)
Velocities(frame) ==
  LET first == IF frame = Last THEN frame - 1 ELSE frame
  IN [j \in DOMAIN Positions(first) |-> Positions(first + 1)[j] - Positions(first)[j]]

(* A faulty variant: the later frame's weight is the earlier's.            *)
MixReversed(values0, values1, weight) ==
  [j \in DOMAIN values0 |-> values0[j] * weight + values1[j] * (Duration - weight)]

(* Duration times the values between those of two frames. *)
Mix(values0, values1, weight) ==
  [j \in DOMAIN values0 |-> values0[j] * (Duration - weight) + values1[j] * weight]

GetJointPos(i0, i1, weight) == Mix(Positions(i0), Positions(i1), weight)
GetJointVel(i0, i1, weight) == Mix(Velocities(i0), Velocities(i1), weight)

PosAt(time) == GetJointPos(Index0(time), Index1(time), Blend(time))
VelAt(time) == GetJointVel(Index0(time), Index1(time), Blend(time))

-----------------------------------------------------------------------------
(***************************************************************************)
(* Properties.                                                             *)
(***************************************************************************)

(* The frames used exist and are neighbours, and nothing is blended into a *)
(* frame on its own.                                                       *)
FramesKnown ==
  /\ 0 <= index0 /\ index0 <= index1 /\ index1 <= Last
  /\ index1 - index0 <= 1 /\ (index0 = index1 => blend = 0)

Square(n) == n * n

(* The motion begins with the first frame and ends with the last, and from *)
(* one time to the next it moves no more than a frame's velocity allows:   *)
(* passing through a frame there is no jump.                               *)
MotionContinuous ==
  LET pos == GetJointPos(index0, index1, blend) IN
  /\ now <= 0 => pos = Mix(Positions(0), Positions(0), 0)
  /\ now >= Duration => pos = Mix(Positions(Last), Positions(Last), 0)
  /\ \A j \in DOMAIN pos :
       \/ PosAt(now + 1)[j] = pos[j]
       \/ \E f \in 0..(Last - 1) :
            Square(PosAt(now + 1)[j] - pos[j]) <= Square(Velocities(f)[j] * Last)

(* Known not to hold: at the time of a frame the motion is at that frame.  *)
FramesOnTime == \A f \in 0..Last : now = f * Ticks => index0 = f /\ blend = 0

(* Known not to hold: the velocity is that of the positions.               *)
VelocityIsDerivative ==
  now \in 0..(Duration - 1) =>
    \A j \in DOMAIN Positions(0) :
      GetJointVel(index0, index1, blend)[j] = Ticks * (PosAt(now + 1)[j] - PosAt(now)[j])
=============================================================================
