-------------------------- MODULE OperatorCommand --------------------------
(***************************************************************************)
(* The speed command: how the keys, the joystick and the navigation stack  *)
(* reach the policy through the fields of Control, which no lock protects. *)
(*                                                                         *)
(* Four threads share them: the keyboard loop (SetKeyboard), the executor  *)
(* (JoyCallback or XboxVelCallback, then CmdVelCallback), the control loop *)
(* (StateController, ClearInput) and the policy loop (RunModel). One       *)
(* action is one access to a speed, or to the key or button read with it.  *)
(* The state machine is reduced to when it changes policies; UikaFsm and   *)
(* PolicyPipeline have the rest. Speeds are in steps of a key, 0.1.        *)
(***************************************************************************)
EXTENDS Integers, Sequences

CONSTANTS
  NumAxes,      \* x, y and yaw
  Policies,     \* the RL states, each with the limits of its config.yaml:
  Lower, Upper, \* commands_limit_lower, commands_limit_upper
  Keys,         \* the keys the operator uses; NoKey stands for any other one
  Messages,     \* the messages of the joystick: buttons held, axes
  NavSpeeds,    \* what cmd_vel may hold
  MaxSpeed      \* bound: the speed keys reach before any policy was loaded

Axes == 1..NumAxes
Plus(a) == <<"plus", a>>   \* W, A, Q
Minus(a) == <<"minus", a>> \* S, D, E
Space == <<"space", 0>>
NavKey == <<"N", 0>>
NoKey == <<"none", 0>>
AllKeys == ({"plus", "minus"} \X Axes) \cup {Space, NavKey, NoKey}

Buttons == {"X", "LB"}
Pads == {"X", "LB", "LB_X"}

ASSUME CommandAssumption ==
  /\ NumAxes \in Nat \ {0}
  /\ {"other", "none"} \cap Policies = {}
  /\ Lower \in [Policies -> [Axes -> Int]] /\ Upper \in [Policies -> [Axes -> Int]]
  /\ \A p \in Policies, a \in Axes : Lower[p][a] <= 0 /\ 0 <= Upper[p][a]
  /\ Keys \subseteq AllKeys
  /\ Messages \subseteq [buttons : SUBSET Buttons, axes : [Axes -> Int]]
  /\ NavSpeeds \subseteq Int
  /\ MaxSpeed \in Nat

VARIABLES
  mode, next,   \* the current state and the one to change to: a policy or another
  ready,        \* rl_init_done
  limits,       \* the policy whose limits are in params
  mutex,        \* policy_mutex
  cpc, at, reg, \* control loop: where, at which axis, the speed it has loaded (or 0)
  key, lastKey, pad, vel, nav, \* the fields of Control
  joy, jat,     \* the message JoyCallback handles, and how far it is
  cmdVel,       \* cmd_vel
  ppc, pat,     \* policy loop: where, at which axis
  command,      \* obs.commands
  padFrom       \* auxiliary: the buttons of the message that set pad

controlVars == <<mode, next, ready, limits, cpc, at, reg>>
inputVars == <<key, lastKey, pad, padFrom, nav>>
joyVars == <<joy, jat>>
policyVars == <<ppc, pat, command>>
vars == <<controlVars, mutex, inputVars, vel, joyVars, cmdVel, policyVars>>

Modes == Policies \cup {"other"}
Zero == [a \in Axes |-> 0]

TypeOK ==
  /\ mode \in Modes /\ next \in Modes
  /\ ready \in BOOLEAN
  /\ limits \in Policies \cup {"none"}
  /\ mutex \in {"free", "control", "policy"}
  /\ cpc \in {"run", "init", "zero", "load", "plus", "add", "minus", "sub", "space",
              "stop", "limit", "clamp", "nav", "clear"}
  /\ at \in Axes /\ reg \in Int
  /\ key \in AllKeys /\ lastKey \in AllKeys
  /\ pad \in Pads \cup {"none"} /\ padFrom \subseteq Buttons
  /\ vel \in [Axes -> Int] /\ nav \in BOOLEAN
  /\ joy \in [buttons : SUBSET Buttons, axes : [Axes -> Int]]
  /\ jat \in Nat
  /\ cmdVel \in [Axes -> Int]
  /\ ppc \in {"idle", "read", "source", "navigate", "forward"}
  /\ pat \in Axes
  /\ command \in [Axes -> Int]

Init ==
  /\ mode = "other" /\ next = "other"
  /\ ready = FALSE
  /\ limits = "none"
  /\ mutex = "free"
  /\ cpc = "run" /\ at = 1 /\ reg = 0
  /\ key = NoKey /\ lastKey = NoKey
  /\ pad = "none" /\ padFrom = {}
  /\ vel = Zero /\ nav = FALSE
  /\ joy = [buttons |-> {}, axes |-> Zero] /\ jat = 0
  /\ cmdVel = Zero
  /\ ppc = "idle" /\ pat = 1 /\ command = Zero

-----------------------------------------------------------------------------
(***************************************************************************)
(* The control loop: StateController. First FSM::Run.                      *)
(***************************************************************************)

Goto(pc) == cpc' = pc /\ at' = 1

(* The next axis at pc1, or after the last one on to pc2. *)
EachAxis(pc1, pc2) ==
  \/ at < NumAxes /\ at' = at + 1 /\ cpc' = pc1
  \/ at = NumAxes /\ Goto(pc2)

(* A policy's Run sets rl_init_done, at once or after its interpolation. *)
RunSetsReady(m) == ready' \in IF m \in Policies THEN {ready, TRUE} ELSE {ready}

NormalCycle ==
  /\ cpc = "run" /\ next = mode
  /\ RunSetsReady(mode)
  /\ next' \in Modes
  /\ Goto("plus")
  /\ UNCHANGED <<mode, limits, reg, mutex, inputVars, vel, joyVars, cmdVel, policyVars>>

(* Exit, then Enter: a policy's calls InitRL. *)
ChangeCycle ==
  /\ cpc = "run" /\ next # mode
  /\ ready' = (ready /\ mode \notin Policies)
  /\ mode' = next
  /\ Goto(IF next \in Policies THEN "init" ELSE "plus")
  /\ UNCHANGED <<next, limits, reg, mutex, inputVars, vel, joyVars, cmdVel, policyVars>>

(* InitRL: under policy_mutex ReadYaml replaces the limits... *)
InitRL ==
  /\ cpc = "init" /\ mutex = "free"
  /\ mutex' = "control"
  /\ limits' = mode
  /\ Goto("zero")
  /\ UNCHANGED <<mode, next, ready, reg, inputVars, vel, joyVars, cmdVel, policyVars>>

(* ...InitControl clears the speeds... *)
InitControl ==
  /\ cpc = "zero"
  /\ vel' = [vel EXCEPT ![at] = 0]
  /\ EachAxis("zero", "load")
  /\ UNCHANGED <<mode, next, ready, limits, reg, mutex, inputVars, joyVars, cmdVel,
                 policyVars>>

(* ...and when the model is loaded the mutex is released and the state runs. *)
InitDone ==
  /\ cpc = "load"
  /\ mutex' = "free"
  /\ RunSetsReady(mode)
  /\ Goto("plus")
  /\ UNCHANGED <<mode, next, limits, reg, inputVars, vel, joyVars, cmdVel, policyVars>>

(* It throws, before InitControl or after: Passive is requested. *)
InitFails ==
  /\ cpc = "load" \/ (cpc = "zero" /\ at = 1)
  /\ mutex' = "free"
  /\ ready' = FALSE
  /\ next' = "other"
  /\ Goto("plus")
  /\ UNCHANGED <<mode, limits, reg, inputVars, vel, joyVars, cmdVel, policyVars>>

-----------------------------------------------------------------------------
(***************************************************************************)
(* Then the keys move the speeds, axis by axis, up and down, each time by  *)
(* loading a speed and storing it changed.                                 *)
(***************************************************************************)

onlyControlPc == <<mode, next, ready, limits, mutex, inputVars, joyVars, cmdVel, policyVars>>

LoadPlus ==
  /\ cpc = "plus"
  /\ \/ /\ key = Plus(at)
        /\ limits = "none" => vel[at] < MaxSpeed
        /\ reg' = vel[at] /\ cpc' = "add" /\ UNCHANGED at
     \/ key # Plus(at) /\ cpc' = "minus" /\ UNCHANGED <<reg, at>>
  /\ UNCHANGED <<vel, onlyControlPc>>

StorePlus ==
  /\ cpc = "add"
  /\ vel' = [vel EXCEPT ![at] = reg + 1] /\ reg' = 0
  /\ cpc' = "minus"
  /\ UNCHANGED <<at, onlyControlPc>>

LoadMinus ==
  /\ cpc = "minus"
  /\ \/ /\ key = Minus(at)
        /\ limits = "none" => vel[at] > -MaxSpeed
        /\ reg' = vel[at] /\ cpc' = "sub" /\ UNCHANGED at
     \/ key # Minus(at) /\ EachAxis("plus", "space") /\ UNCHANGED reg
  /\ UNCHANGED <<vel, onlyControlPc>>

StoreMinus ==
  /\ cpc = "sub"
  /\ vel' = [vel EXCEPT ![at] = reg - 1] /\ reg' = 0
  /\ EachAxis("plus", "space")
  /\ UNCHANGED onlyControlPc

TestSpace ==
  /\ cpc = "space"
  /\ Goto(IF key = Space THEN "stop" ELSE "limit")
  /\ UNCHANGED <<reg, vel, onlyControlPc>>

Stop ==
  /\ cpc = "stop"
  /\ vel' = [vel EXCEPT ![at] = 0]
  /\ EachAxis("stop", "limit")
  /\ UNCHANGED <<reg, onlyControlPc>>

(* params.Has: before a policy has been loaded there is nothing to clamp. *)
LoadLimit ==
  /\ cpc = "limit"
  /\ \/ limits # "none" /\ reg' = vel[at] /\ cpc' = "clamp" /\ UNCHANGED at
     \/ limits = "none" /\ Goto("nav") /\ UNCHANGED reg
  /\ UNCHANGED <<vel, onlyControlPc>>

(* A faulty variant: the lower limit is not applied.                       *)
StoreUpperOnly ==
  /\ cpc = "clamp"
  /\ vel' = [vel EXCEPT ![at] = IF reg > Upper[limits][at] THEN Upper[limits][at] ELSE reg]
  /\ reg' = 0
  /\ EachAxis("limit", "nav")
  /\ UNCHANGED onlyControlPc

StoreLimit ==
  /\ cpc = "clamp"
  /\ vel' = [vel EXCEPT ![at] = CASE reg < Lower[limits][at] -> Lower[limits][at]
                                  [] reg > Upper[limits][at] -> Upper[limits][at]
                                  [] OTHER -> reg]
  /\ reg' = 0
  /\ EachAxis("limit", "nav")
  /\ UNCHANGED onlyControlPc

ToggleNav ==
  /\ cpc = "nav"
  /\ nav' = IF key = NavKey \/ pad = "X" THEN ~nav ELSE nav
  /\ Goto("clear")
  /\ UNCHANGED <<mode, next, ready, limits, reg, mutex, key, lastKey, pad, padFrom, vel,
                 joyVars, cmdVel, policyVars>>

ClearInput ==
  /\ cpc = "clear"
  /\ key' = lastKey
  /\ pad' = "none" /\ padFrom' = {}
  /\ Goto("run")
  /\ UNCHANGED <<mode, next, ready, limits, reg, mutex, lastKey, vel, nav, joyVars, cmdVel,
                 policyVars>>

ControlLoop ==
  \/ NormalCycle \/ ChangeCycle \/ InitRL \/ InitControl \/ InitDone \/ InitFails
  \/ LoadPlus \/ StorePlus \/ LoadMinus \/ StoreMinus \/ TestSpace \/ Stop
  \/ LoadLimit \/ StoreLimit \/ ToggleNav \/ ClearInput

-----------------------------------------------------------------------------
(***************************************************************************)
(* The inputs.                                                             *)
(***************************************************************************)

SetKeyboard(k) ==
  /\ key # k
  /\ key' = k /\ lastKey' = key
  /\ UNCHANGED <<controlVars, mutex, pad, padFrom, nav, vel, joyVars, cmdVel, policyVars>>

(* What JoyCallback sets gamepad to, one after the other. *)
PadsOf(buttons) ==
  CASE buttons = {"X"} -> <<"X">>
    [] buttons = {"LB"} -> <<"LB">>
    [] buttons = {"LB", "X"} -> <<"X", "LB", "LB_X">>
    [] OTHER -> <<>>

(* A message arrives. XboxVelCallback is one without buttons. *)
JoyCallback(m) ==
  /\ jat = 0
  /\ joy' = m /\ jat' = 1
  /\ UNCHANGED <<controlVars, mutex, inputVars, vel, cmdVel, policyVars>>

SetGamepad ==
  /\ jat \in DOMAIN PadsOf(joy.buttons)
  /\ LET g == PadsOf(joy.buttons)[jat]
     IN /\ pad' = g
        /\ padFrom' = IF pad = g THEN padFrom ELSE joy.buttons
  /\ jat' = jat + 1
  /\ UNCHANGED <<controlVars, mutex, key, lastKey, nav, vel, joy, cmdVel, policyVars>>

SetSpeed ==
  LET a == jat - Len(PadsOf(joy.buttons))
  IN /\ jat > 0 /\ a \in Axes
     /\ vel' = [vel EXCEPT ![a] = joy.axes[a]]
     /\ jat' = IF a = NumAxes THEN 0 ELSE jat + 1
     /\ UNCHANGED <<controlVars, mutex, inputVars, joy, cmdVel, policyVars>>

(* cmd_vel is copied field by field. *)
CmdVelCallback(a, v) ==
  /\ cmdVel' = [cmdVel EXCEPT ![a] = v]
  /\ UNCHANGED <<controlVars, mutex, inputVars, vel, joyVars, policyVars>>

Inputs ==
  \/ \E k \in Keys : SetKeyboard(k)
  \/ \E m \in Messages : JoyCallback(m)
  \/ SetGamepad \/ SetSpeed
  \/ \E a \in Axes, v \in NavSpeeds : CmdVelCallback(a, v)

-----------------------------------------------------------------------------
(***************************************************************************)
(* The policy loop: RunModel, under policy_mutex.                          *)
(***************************************************************************)

notPolicy == <<controlVars, inputVars, vel, joyVars, cmdVel>>

NextAxis(pc1, pc2) ==
  \/ pat < NumAxes /\ pat' = pat + 1 /\ ppc' = pc1
  \/ pat = NumAxes /\ pat' = 1 /\ ppc' = pc2

RunModel ==
  /\ ppc = "idle" /\ mutex = "free" /\ ready
  /\ mutex' = "policy"
  /\ ppc' = "read" /\ pat' = 1
  /\ UNCHANGED <<command, notPolicy>>

ReadSpeed ==
  /\ ppc = "read"
  /\ command' = [command EXCEPT ![pat] = vel[pat]]
  /\ NextAxis("read", "source")
  /\ UNCHANGED <<mutex, notPolicy>>

TestNav ==
  /\ ppc = "source"
  /\ ppc' = IF nav THEN "navigate" ELSE "forward"
  /\ UNCHANGED <<pat, command, mutex, notPolicy>>

ReadCmdVel ==
  /\ ppc = "navigate"
  /\ command' = [command EXCEPT ![pat] = cmdVel[pat]]
  /\ NextAxis("navigate", "forward")
  /\ UNCHANGED <<mutex, notPolicy>>

(* The command is used, and the mutex released. *)
Forward ==
  /\ ppc = "forward"
  /\ ppc' = "idle"
  /\ mutex' = "free"
  /\ UNCHANGED <<pat, command, notPolicy>>

PolicyLoop == RunModel \/ ReadSpeed \/ TestNav \/ ReadCmdVel \/ Forward

Next == ControlLoop \/ Inputs \/ PolicyLoop

Spec == Init /\ [][Next]_vars

-----------------------------------------------------------------------------
(***************************************************************************)
(* Properties.                                                             *)
(***************************************************************************)

(* What an axis may hold when nobody is working on it: a speed within the  *)
(* limits, or what the joystick has just said.                             *)
Stick(a) == {m.axes[a] : m \in Messages}
Settled(p, v, a) == v \in Lower[p][a]..Upper[p][a] \/ v \in Stick(a)

(* One key step away from that. *)
Near(p, v, a) == \E w \in {v - 1, v, v + 1} : Settled(p, w, a)

(* Whatever the threads do, the command a policy is given differs by one   *)
(* key step at most from a speed within its own limits or a position of    *)
(* the stick, or it is the navigation's. In particular nothing that was    *)
(* typed before a policy was loaded, or under the limits of another one,   *)
(* reaches it.                                                             *)
CommandBounded ==
  ppc = "forward" =>
    \A a \in Axes : Near(limits, command[a], a) \/ command[a] \in NavSpeeds \cup {0}

(* src/README.md:154 and TestStateControllerClampsCommandsToTrainingRange  *)
(* (test_rl_sdk_observations.cpp:137): commands are clamped to the range   *)
(* the policy was trained for.                                             *)
CommandInTrainingRange ==
  ppc = "forward" =>
    \A a \in Axes : command[a] \in Lower[limits][a]..Upper[limits][a]

(* rl_sdk.hpp:98-100: X toggles the navigation mode, LB with X is passive. *)
NavigationAsAsked == [][nav' # nav => key = NavKey \/ padFrom = {"X"}]_vars

-----------------------------------------------------------------------------
(***************************************************************************)
(* The inductive invariant.                                                *)
(***************************************************************************)

(* A policy's episode can be under way. *)
Live == ready \/ ppc # "idle"

(* policy_mutex, and InitRL's exclusion of the policy loop. *)
MutexInv ==
  /\ mutex = "control" <=> cpc \in {"zero", "load"}
  /\ mutex = "policy" <=> ppc # "idle"
  /\ ready => mode \in Policies
  /\ cpc \in {"init", "zero", "load"} => mode \in Policies /\ ~ready
  /\ cpc \in {"zero", "load"} => limits = mode
  /\ cpc = "clamp" \/ (mode \in Policies /\ cpc # "init") => limits # "none"
  /\ Live => limits # "none"

(* How far each axis is from its settled range, at each point of the       *)
(* control cycle. While no policy is under way the first half of a cycle   *)
(* promises nothing: the clamp at its end restores the range.              *)
Adjusting(a) ==
  /\ cpc \in {"plus", "add"} /\ a >= at => Settled(limits, vel[a], a)
  /\ cpc = "minus" /\ a = at => Settled(limits, vel[a], a) \/ Settled(limits, vel[a] - 1, a)
  /\ cpc \in {"minus", "sub"} /\ a > at => Settled(limits, vel[a], a)
  /\ cpc = "add" /\ a = at => Settled(limits, reg, a)
  /\ cpc = "sub" /\ a = at => Settled(limits, reg, a) \/ Settled(limits, reg - 1, a)
  /\ Near(limits, vel[a], a)

AxisInv(a) ==
  /\ cpc \in {"run", "init", "load", "nav", "clear"} => Settled(limits, vel[a], a)
  /\ cpc \in {"zero", "limit", "clamp"} /\ a < at => Settled(limits, vel[a], a)
  /\ Live /\ cpc \notin {"zero", "load"} => Adjusting(a)

RangeInv == limits # "none" => \A a \in Axes : AxisInv(a)

CommandInv ==
  /\ ppc \in {"read", "source"} => \A a \in Axes :
       a < pat \/ ppc = "source" => Near(limits, command[a], a)
  /\ ppc = "navigate" => \A a \in Axes :
       Near(limits, command[a], a) \/ command[a] \in NavSpeeds \cup {0}
  /\ CommandBounded
  /\ \A a \in Axes : cmdVel[a] \in NavSpeeds \cup {0}

JoyInv == jat > 0 => joy \in Messages

IInv == TypeOK /\ MutexInv /\ RangeInv /\ CommandInv /\ JoyInv
=============================================================================
