---------------------------- MODULE VectorMath ----------------------------
(***************************************************************************)
(* vector_math.hpp over integers. Vectors are sequences; a quaternion      *)
(* <<w, x, y, z>> is given by integers whose norm is Scale, so that it     *)
(* stands for the unit quaternion q / Scale, and results that hold squares *)
(* of it are Scale^2 times the code's.                                     *)
(***************************************************************************)
EXTENDS Integers, Sequences

CONSTANT Scale
ASSUME ScaleAssumption == Scale \in Nat \ {0}

(* The operators on two vectors: element by element, as long as the shorter. *)
Pairwise(op(_, _), v1, v2) ==
  LET size == IF Len(v1) < Len(v2) THEN Len(v1) ELSE Len(v2)
  IN SubSeq([i \in 1..size |-> op(v1[i], v2[i])], 1, size)

Plus(v1, v2) == Pairwise(LAMBDA a, b : a + b, v1, v2)
Minus(v1, v2) == Pairwise(LAMBDA a, b : a - b, v1, v2)
Times(v1, v2) == Pairwise(LAMBDA a, b : a * b, v1, v2)
Scaled(v, factor) == [i \in DOMAIN v |-> v[i] * factor]
Negated(v) == [i \in DOMAIN v |-> -v[i]]

Clamp(value, low, high) ==
  IF value < low THEN low ELSE IF value > high THEN high ELSE value

ClampAll(v, low, high) == [i \in DOMAIN v |-> Clamp(v[i], low, high)]

(* A bound too short for the vector gives its first element for the rest,  *)
(* an empty one no bound.                                                  *)
Bound(bounds, v, i) ==
  IF i \in DOMAIN bounds THEN bounds[i] ELSE IF bounds = <<>> THEN v[i] ELSE bounds[1]

ClampVector(v, lows, highs) ==
  [i \in DOMAIN v |-> Clamp(v[i], Bound(lows, v, i), Bound(highs, v, i))]

-----------------------------------------------------------------------------
(***************************************************************************)
(* Quaternions.                                                            *)
(***************************************************************************)

Norm2(q) == q[1] * q[1] + q[2] * q[2] + q[3] * q[3] + q[4] * q[4]
Units == {q \in [1..4 -> (-Scale)..Scale] : Norm2(q) = Scale * Scale}

QuaternionMultiply(a, b) ==
  << a[1] * b[1] - a[2] * b[2] - a[3] * b[3] - a[4] * b[4],
     a[1] * b[2] + a[2] * b[1] + a[3] * b[4] - a[4] * b[3],
     a[1] * b[3] - a[2] * b[4] + a[3] * b[1] + a[4] * b[2],
     a[1] * b[4] + a[2] * b[3] - a[3] * b[2] + a[4] * b[1] >>

QuaternionConjugate(q) == <<q[1], -q[2], -q[3], -q[4]>>

Dot(u, v) == u[1] * v[1] + u[2] * v[2] + u[3] * v[3]
Cross(u, v) ==
  <<u[2] * v[3] - u[3] * v[2], u[3] * v[1] - u[1] * v[3], u[1] * v[2] - u[2] * v[1]>>
Axis(q) == SubSeq(q, 2, 4)

(* Scale^2 times q^-1 v q.                                                 *)
Rotated(q, v, sign) ==
  [i \in 1..3 |-> v[i] * (2 * q[1] * q[1] - Scale * Scale)
                  + sign * 2 * q[1] * Cross(Axis(q), v)[i]
                  + 2 * q[i + 1] * Dot(Axis(q), v)]

(* A faulty variant: the rotation itself.                                  *)
QuatRotateForward(q, v) == Rotated(q, v, 1)

QuatRotateInverse(q, v) == Rotated(q, v, -1)

(* Scale^2 times the rows of the rotation matrix.                          *)
QuaternionToRotationMatrix(q) ==
  LET w == q[1]  x == q[2]  y == q[3]  z == q[4]  one == Scale * Scale IN
  << <<one - 2 * (y * y + z * z), 2 * (x * y - w * z), 2 * (x * z + w * y)>>,
     <<2 * (x * y + w * z), one - 2 * (x * x + z * z), 2 * (y * z - w * x)>>,
     <<2 * (x * z - w * y), 2 * (y * z + w * x), one - 2 * (x * x + y * y)>> >>

TransposeMatrix3x3(m) == [i \in 1..3 |-> [j \in 1..3 |-> m[j][i]]]

Applied(m, v) == [i \in 1..3 |-> Dot(m[i], v)]

(* Of QuaternionToEuler: the sine and cosine its roll and yaw are the      *)
(* arctangents of, and the sine of the pitch.                              *)
RollOf(q) == <<2 * (q[1] * q[2] + q[3] * q[4]), Scale * Scale - 2 * (q[2] * q[2] + q[3] * q[3])>>
PitchOf(q) == 2 * (q[1] * q[3] - q[4] * q[2])
=============================================================================
