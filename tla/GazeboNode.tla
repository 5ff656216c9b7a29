---------------------------- MODULE GazeboNode ----------------------------
(***************************************************************************)
(* How rl_sim resets, pauses and unpauses Gazebo: the operator's keys and  *)
(* buttons latched in Control, RobotControl's requests, and their way to   *)
(* Gazebo. Under ROS 2 a request is sent and its answer never looked at,   *)
(* and requests to different services are served in any order; under ROS 1 *)
(* the call returns when it was served or has failed, which is ignored.    *)
(***************************************************************************)
EXTENDS Integers, FiniteSets

CONSTANTS
  Prompt,      \* a key is handled before the next is read: 5 ms, 50 ms
  MaxPresses,  \* bound: keys and buttons pressed
  MaxLost      \* bound: calls Gazebo never gets

ASSUME NodeAssumption == Prompt \in BOOLEAN /\ MaxPresses \in Nat /\ MaxLost \in Nat

VARIABLES
  build,                 \* "ros1" or "ros2"
  simulation_running,
  current_keyboard, last_keyboard, current_gamepad, \* of Control
  step,                  \* RobotControl: at the reset, the toggle or ClearInput
  calls,                 \* calls in flight, <<number, service>>
  requests, presses,     \* auxiliary: calls made, keys and buttons pressed
  lost, disorder,        \* auxiliary: calls lost, a toggle was lost or overtaken
  paused                 \* Gazebo's physics

inputVars == <<current_keyboard, last_keyboard, current_gamepad>>
callVars == <<calls, requests, lost, disorder, paused>>
vars == <<build, simulation_running, inputVars, step, callVars, presses>>

Keys == {"R", "Enter", "P"}         \* P is for the state machine alone
Buttons == {"RB_Y", "RB_X", "A"}
Services == {"reset", "pause", "unpause"}

TypeOK ==
  /\ build \in {"ros1", "ros2"} /\ {simulation_running, disorder, paused} \subseteq BOOLEAN
  /\ {current_keyboard, last_keyboard} \subseteq Keys \cup {"None"}
  /\ current_gamepad \in Buttons \cup {"None"}
  /\ step \in {"reset", "toggle", "clear"}
  /\ presses \in 0..MaxPresses /\ requests \in Nat /\ lost \in 0..MaxLost
  /\ calls \subseteq (0..requests) \X Services

Init ==
  /\ build \in {"ros1", "ros2"}
  /\ simulation_running = TRUE /\ paused = FALSE
  /\ current_keyboard = "None" /\ last_keyboard = "None" /\ current_gamepad = "None"
  /\ step = "reset" /\ presses = 0 /\ lost = 0 /\ disorder = FALSE
  /\ calls = (IF build = "ros2" THEN {<<0, "reset">>} ELSE {}) /\ requests = 0

-----------------------------------------------------------------------------
(***************************************************************************)
(* The operator.                                                           *)
(***************************************************************************)

Press ==
  /\ presses < MaxPresses /\ presses' = presses + 1
  /\ UNCHANGED <<build, simulation_running, step, callVars>>

SetKeyboard(k) ==
  /\ Press
  /\ Prompt => current_keyboard = "None"
  /\ current_keyboard' = k
  /\ last_keyboard' = IF current_keyboard # k THEN current_keyboard ELSE last_keyboard
  /\ UNCHANGED current_gamepad

JoyCallback(b) ==
  /\ Press
  /\ current_gamepad' = b
  /\ UNCHANGED <<current_keyboard, last_keyboard>>

-----------------------------------------------------------------------------
(***************************************************************************)
(* RobotControl, after the state machine.                                  *)
(***************************************************************************)

Counts(service) == service # "reset"

(* What Gazebo does when it serves a call. *)
Apply(service) == paused' = IF Counts(service) THEN service = "pause" ELSE paused

(* A call is made, whatever becomes of it. *)
Request(service) ==
  /\ requests' = requests + 1
  /\ \/ build = "ros2" /\ calls' = calls \cup {<<requests', service>>}
        /\ UNCHANGED <<lost, disorder, paused>>
     \/ build = "ros1" /\ Apply(service)
        /\ UNCHANGED <<calls, lost, disorder>>
     \/ build = "ros1" /\ lost < MaxLost /\ lost' = lost + 1
        /\ disorder' = (disorder \/ Counts(service))
        /\ UNCHANGED <<calls, paused>>

RobotControlReset ==
  /\ step = "reset" /\ step' = "toggle"
  /\ IF current_keyboard = "R" \/ current_gamepad = "RB_Y"
     THEN Request("reset") /\ current_keyboard' = last_keyboard
     ELSE UNCHANGED <<callVars, current_keyboard>>
  /\ UNCHANGED <<build, simulation_running, last_keyboard, current_gamepad, presses>>

ToggleTo(service) ==
  /\ step = "toggle" /\ step' = "clear"
  /\ IF current_keyboard = "Enter" \/ current_gamepad = "RB_X"
     THEN /\ Request(service) /\ current_keyboard' = last_keyboard
          /\ simulation_running' = ~simulation_running
     ELSE UNCHANGED <<callVars, current_keyboard, simulation_running>>
  /\ UNCHANGED <<build, last_keyboard, current_gamepad, presses>>

(* A faulty variant: simulation_running is read after it was changed.      *)
RobotControlToggleAfter == ToggleTo(IF simulation_running THEN "unpause" ELSE "pause")

RobotControlToggle == ToggleTo(IF simulation_running THEN "pause" ELSE "unpause")

ClearTo(k, b) ==
  /\ step = "clear" /\ step' = "reset"
  /\ current_keyboard' = k /\ current_gamepad' = b
  /\ UNCHANGED <<build, simulation_running, last_keyboard, callVars, presses>>

(* Faulty variants: the button is kept, the key is kept.                   *)
ClearInputKeepsButton == ClearTo(last_keyboard, current_gamepad)
ClearInputKeepsKey == ClearTo(current_keyboard, "None")

ClearInput == ClearTo(last_keyboard, "None")

RobotControl == RobotControlReset \/ RobotControlToggle \/ ClearInput

-----------------------------------------------------------------------------
(***************************************************************************)
(* ROS 2: Gazebo serves a call, or never gets it.                          *)
(***************************************************************************)

Overtakes(c) == Counts(c[2]) /\ \E d \in calls : Counts(d[2]) /\ d[1] < c[1]

Serve ==
  /\ \E c \in calls :
       calls' = calls \ {c} /\ Apply(c[2]) /\ disorder' = (disorder \/ Overtakes(c))
  /\ UNCHANGED <<build, simulation_running, inputVars, step, requests, lost, presses>>

Lose ==
  /\ lost < MaxLost /\ lost' = lost + 1
  /\ \E c \in calls : calls' = calls \ {c} /\ disorder' = (disorder \/ Counts(c[2]))
  /\ UNCHANGED <<build, simulation_running, inputVars, step, requests, paused, presses>>

Next ==
  \/ \E k \in Keys : SetKeyboard(k)
  \/ \E b \in Buttons : JoyCallback(b)
  \/ RobotControl \/ Serve \/ Lose

Spec == Init /\ [][Next]_vars

(* The control loop is periodic. *)
FairSpec == Spec /\ WF_vars(RobotControl)

-----------------------------------------------------------------------------
(***************************************************************************)
(* Properties.                                                             *)
(***************************************************************************)

(* simulation_running is what Gazebo does once its calls are served, unless *)
(* a toggle was lost or overtaken: the node changes it without an answer.  *)
SimulationAsBelieved == calls = {} /\ ~disorder => paused = ~simulation_running

(* With a control loop faster than the keyboard's, a press makes at most   *)
(* one request though ClearInput brings back the key before it.            *)
OneRequestPerPress == Prompt => requests <= presses

(* With such a loop no key stays: the next one is read without it.         *)
KeyHandled == Prompt /\ current_keyboard # "None" ~> current_keyboard = "None"

(* Known not to hold: the first of two keys within a cycle comes back in   *)
(* every later one and is sent again.                                      *)
OneRequestPerPressAlways == requests <= presses

(* Known not to hold: a pause and an unpause in flight may be served in    *)
(* either order, and the node goes on believing the later one.             *)
BelievedWithoutLoss == calls = {} /\ lost = 0 => paused = ~simulation_running
=============================================================================
