------------------------- MODULE MCOperatorCommand -------------------------
(* Instances of OperatorCommand for TLC: the limits of himloco and lowbar  *)
(* scaled down to one key step and none. In a behaviour of PairSpec any    *)
(* two of the keys, the joystick and cmd_vel are used, and the third is    *)
(* silent, which keeps two axes small enough for TLC.                      *)
EXTENDS OperatorCommand

TwoPolicies == {"himloco", "lowbar"}
Highest == [himloco |-> <<1, 1>>, lowbar |-> <<1, 0>>]
Lowest == [himloco |-> <<-1, -1>>, lowbar |-> <<-1, 0>>]

StopKeys == {Plus(1), Minus(2), Space}
NoKeys == {}

(* Messages of the joystick: beyond the limits of both policies on one     *)
(* axis, with X held; LB and X together.                                   *)
StickMoves == {[buttons |-> {"X"}, axes |-> <<4, 0>>]}
Chord == {[buttons |-> {"LB", "X"}, axes |-> <<0, 0>>]}

NoNav == {}
FastNav == {9}

-----------------------------------------------------------------------------
VARIABLE silent \* the input that is not used

(* With the joystick, only the axis that it moves is typed at. *)
KeysNow ==
  CASE silent = "keys" -> {}
    [] silent = "cmd_vel" -> Keys \ {Minus(2), Space}
    [] OTHER -> Keys

PairInputs ==
  \/ \E k \in KeysNow : SetKeyboard(k)
  \/ silent # "joystick" /\ \E m \in Messages : JoyCallback(m)
  \/ SetGamepad \/ SetSpeed
  \/ silent # "cmd_vel" /\ \E a \in Axes, v \in NavSpeeds : CmdVelCallback(a, v)

PairInit == Init /\ silent \in {"keys", "joystick", "cmd_vel"}

PairNext == UNCHANGED silent /\ (ControlLoop \/ PairInputs \/ PolicyLoop)

PairSpec == PairInit /\ [][PairNext]_<<vars, silent>>
=============================================================================
