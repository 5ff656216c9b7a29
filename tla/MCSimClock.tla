----------------------------- MODULE MCSimClock -----------------------------
(* What the operator does to the MuJoCo node, beside each other: the keys   *)
(* and the scrubber of the viewer (SimClock), and the joystick. They share  *)
(* no state; a behaviour is one of one part, with the other at rest.        *)
EXTENDS SimClock, SysJoystick

(* The stick within and beyond its dead zone, a direction pad both ways.   *)
SomePositions == {-5, 0, 1}

VARIABLE part

AllInit == ClockInit /\ JoystickInit /\ part \in {"clock", "joystick"}

AllNext ==
  /\ UNCHANGED part
  /\ \/ part = "clock" /\ ClockNext /\ UNCHANGED joystickVars
     \/ part = "joystick" /\ JoystickNext /\ UNCHANGED clockVars

AllSpec == AllInit /\ [][AllNext]_<<clockVars, joystickVars, part>>
=============================================================================
