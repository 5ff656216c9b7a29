---------------------------- MODULE SysJoystick ----------------------------
(***************************************************************************)
(* The joystick of the MuJoCo node. Its loop reads the device every 10 ms  *)
(* and stores what it finds in Control, one store after another and with-  *)
(* out a lock; the control loop reads the button, limits the speed and     *)
(* clears the button again (StateController, ClearInput).                  *)
(*                                                                         *)
(* Of the stick's three axes there is one; y and yaw are stored like x.    *)
(***************************************************************************)
EXTENDS Integers, Sequences, FiniteSets, FiniteSetsExt, Functions

CONSTANTS
  Buttons,   \* those that are used
  Axes,      \* "LY", and "DPadX" (6), "DPadY" (7) if they are
  Positions, \* of an axis
  Deadzone, Limit, \* axis_deadzone; commands_limit_upper and _lower
  MaxEvents  \* bound: moves of the operator's hand

(* The direction pad is two axes, not buttons.                             *)
ASSUME JoystickAssumption ==
  /\ Buttons \subseteq {"A", "B", "X", "Y", "LB", "RB", "LStick", "RStick"}
  /\ Positions \subseteq Int /\ MaxEvents \in Nat

VARIABLES
  hand,    \* the device: whether a button is held, where an axis is
  events,  \* what GetSysJoystick has not read yet: <<input, value>>
  pressed, on_press, axis, \* sys_js_button, sys_js_axis
  active,  \* sys_js_active
  poll, pads, \* the joystick loop: where, which buttons are still to be set
  gamepad, x, \* Control: current_gamepad, x
  step, loadedX, \* control loop: where, the speed it has loaded (or 0)
  limited, \* a policy's limits are in params
  presses, taken, \* auxiliary: presses of each button, times each was obeyed
  moves

handVars == <<hand, events, presses, moves>>
deviceVars == <<pressed, on_press, axis, active, poll, pads>>
controlVars == <<step, loadedX, limited, taken>>
joystickVars == <<handVars, deviceVars, controlVars, gamepad, x>>

Plain == <<"A", "B", "X", "Y", "LB", "RB", "LStick", "RStick", "DPadUp", "DPadDown",
           "DPadLeft", "DPadRight">>
Combined == <<"A", "B", "X", "Y", "LStick", "RStick", "DPadUp", "DPadDown", "DPadRight",
              "DPadLeft">>
With(shoulder, names) == [i \in DOMAIN names |-> <<shoulder, names[i]>>]

(* All that can be set, in the order of GetSysJoystick. *)
Pads == With("none", Plain) \o With("LB", Combined) \o With("RB", Combined)
        \o <<<<"LB", "RB">>>>
ButtonPads == {p \in Range(Pads) : p[2] \in Buttons}
NoPad == <<"none", "none">>
Order(p) == CHOOSE i \in DOMAIN Pads : Pads[i] = p

JoystickInit ==
  /\ hand = [i \in Buttons \cup Axes |-> 0]
  /\ events = <<>> /\ moves = 0
  /\ pressed = {} /\ on_press = {} /\ axis = [a \in Axes |-> 0]
  /\ active = FALSE /\ poll = "sample" /\ pads = {}
  /\ gamepad = NoPad /\ x = 0
  /\ step = "read" /\ loadedX = 0 /\ limited = FALSE
  /\ presses = [b \in Buttons |-> 0] /\ taken = [p \in ButtonPads |-> 0]

-----------------------------------------------------------------------------
(* The operator moves an axis, presses (1) or releases (0) a button.       *)
Move(input, value) ==
  /\ moves < MaxEvents /\ moves' = moves + 1
  /\ hand[input] # value
  /\ hand' = [hand EXCEPT ![input] = value]
  /\ events' = Append(events, <<input, value>>)
  /\ presses' = IF input \in Buttons /\ value = 1
                THEN [presses EXCEPT ![input] = @ + 1] ELSE presses
  /\ UNCHANGED <<deviceVars, controlVars, gamepad, x>>

(* One event after another. Of a button only what happened last remains.   *)
Unread(input) == {i \in DOMAIN events : events[i][1] = input}
Newest(indices) == events[Max(indices)][2]

Pressed(b) == IF Unread(b) = {} THEN b \in pressed ELSE Newest(Unread(b)) = 1
PressedBefore(b) ==
  LET before == Unread(b) \ {Max(Unread(b))}
  IN IF before = {} THEN b \in pressed ELSE Newest(before) = 1
OnPress(b) == Unread(b) # {} /\ Pressed(b) /\ ~PressedBefore(b)

AxisAt(a) ==
  IF Unread(a) = {} THEN axis[a]
  ELSE IF Newest(Unread(a)) \in -Deadzone + 1..Deadzone - 1 THEN 0 ELSE Newest(Unread(a))

(* Left and right are the other way round in a combination. *)
Tilted(name, shoulder) ==
  LET at(a) == IF a \in Axes THEN axis'[a] ELSE 0
      right == IF shoulder = "none" THEN -1 ELSE 1
  IN CASE name = "DPadUp" -> at("DPadY") < 0
       [] name = "DPadDown" -> at("DPadY") > 0
       [] name = "DPadRight" -> at("DPadX") * right > 0
       [] name = "DPadLeft" -> at("DPadX") * right < 0
       [] OTHER -> FALSE

(* A faulty variant: for as long as it is held. *)
AppliesHeld(p) ==
  /\ p[1] = "none" \/ p[1] \in pressed'
  /\ p[2] \in pressed' \/ Tilted(p[2], p[1])

Applies(p) ==
  /\ p[1] = "none" \/ p[1] \in pressed'
  /\ p[2] \in on_press' \/ Tilted(p[2], p[1])

Sample ==
  /\ poll = "sample"
  /\ pressed' = {b \in Buttons : Pressed(b)}
  /\ on_press' = {b \in Buttons : OnPress(b)}
  /\ axis' = [a \in Axes |-> AxisAt(a)]
  /\ events' = <<>>
  /\ pads' = {p \in Range(Pads) : Applies(p)}
  /\ poll' = "buttons"
  /\ UNCHANGED <<hand, presses, moves, active, controlVars, gamepad, x>>

SetGamepad ==
  /\ poll = "buttons"
  /\ \E p \in pads : /\ \A q \in pads : Order(p) <= Order(q)
                    /\ gamepad' = p /\ pads' = pads \ {p}
  /\ UNCHANGED <<handVars, pressed, on_press, axis, active, poll, controlVars, x>>

(* The speed is stored while the stick is off its centre, and once when it *)
(* has come back.                                                          *)
SetSpeed ==
  /\ poll = "buttons" /\ pads = {}
  /\ active' = (axis["LY"] # 0)
  /\ x' = IF active \/ active' THEN -axis["LY"] ELSE x
  /\ poll' = "sample"
  /\ UNCHANGED <<handVars, pressed, on_press, axis, pads, controlVars, gamepad>>

-----------------------------------------------------------------------------
onlyStep == <<handVars, deviceVars>>

(* FSM::Run reads the button; it may enter the first policy, and InitRL    *)
(* clears the speed and loads the limits.                                  *)
Read ==
  /\ step = "read"
  /\ taken' = IF gamepad[2] \in Buttons THEN [taken EXCEPT ![gamepad] = @ + 1] ELSE taken
  /\ \/ UNCHANGED <<limited, x>>
     \/ limited' = TRUE /\ x' = 0
  /\ step' = IF limited' THEN "load" ELSE "clear"
  /\ UNCHANGED <<onlyStep, loadedX, gamepad>>

LoadSpeed ==
  /\ step = "load"
  /\ loadedX' = x /\ step' = "clamp"
  /\ UNCHANGED <<onlyStep, limited, taken, gamepad, x>>

ClampSpeed ==
  /\ step = "clamp"
  /\ x' = CASE loadedX < -Limit -> -Limit [] loadedX > Limit -> Limit [] OTHER -> loadedX
  /\ loadedX' = 0 /\ step' = "clear"
  /\ UNCHANGED <<onlyStep, limited, taken, gamepad>>

ClearInput ==
  /\ step = "clear"
  /\ gamepad' = NoPad /\ step' = "read"
  /\ UNCHANGED <<onlyStep, loadedX, limited, taken, x>>

JoystickLoop == Sample \/ SetGamepad \/ SetSpeed
ControlLoop == Read \/ LoadSpeed \/ ClampSpeed \/ ClearInput

JoystickNext ==
  \/ \E b \in Buttons, v \in {0, 1} : Move(b, v)
  \/ \E a \in Axes : \E v \in Positions : Move(a, v)
  \/ JoystickLoop \/ ControlLoop

(* Both loops are periodic threads of their own. *)
JoystickSpec ==
  /\ JoystickInit /\ [][JoystickNext]_joystickVars
  /\ WF_joystickVars(JoystickLoop) /\ WF_joystickVars(ControlLoop)

-----------------------------------------------------------------------------
(* However long a button is held and however the loops interleave, the     *)
(* state machine sees it once per press at most, alone or in a combination *)
(* (Button::update and the on_press tests of GetSysJoystick).              *)
OncePerPress ==
  \A p \in ButtonPads : taken[p] <= presses[p[2]]

(* Until a policy has brought limits, so that only GetSysJoystick writes   *)
(* it, the speed is the stick's position after every poll, centred or not. *)
SpeedIsStick == ~limited /\ poll = "sample" => x = -axis["LY"]

(* rl_sdk.hpp:102 "LY-AxisX": the stick is the speed, so when it has been  *)
(* let go the robot stops in the end.                                      *)
StickLetGo == <>[](hand["LY"] = 0) => <>[](x = 0)

(* One press is one command: nothing is obeyed alone and combined as well. *)
OneCommandPerPress ==
  \A b \in Buttons : taken[<<"none", b>>] + taken[<<"LB", b>>] <= presses[b]
=============================================================================
