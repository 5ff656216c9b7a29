------------------------- MODULE MCJointController -------------------------
(* Instances of JointController for TLC. *)
EXTENDS JointController

(* A position and a torque beyond the limit, then no position control. *)
TwoCommands == <<[q |-> 3, kp |-> 2, tau |-> 2], [q |-> PosStop, kp |-> 1, tau |-> -1]>>
=============================================================================
