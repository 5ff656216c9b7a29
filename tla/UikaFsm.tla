------------------------------ MODULE UikaFsm ------------------------------
(***************************************************************************)
(* The state machine that decides what the motors are told: FSM::Run with  *)
(* the five UIKA states, driven by one call of RobotControl per control    *)
(* cycle, and the latched inputs (Control) it reads.                       *)
(*                                                                         *)
(* A control cycle is StateController followed by ClearInput; the keyboard *)
(* and joystick threads and the policy thread's AttitudeProtect may press  *)
(* a key before either of the two. What goes on inside InitRL and between  *)
(* the two threads of a running policy is PolicyPipeline's subject.        *)
(*                                                                         *)
(* Joint positions are abstracted to a few poses that Interpolate tells    *)
(* apart (further than 0.1 rad); a measured pose is an input. The fraction *)
(* percent of an interpolation is counted in units of 1 / Full. The speed  *)
(* command and navigation_mode are left out.                               *)
(***************************************************************************)
EXTENDS Integers

CONSTANTS
  Frames, \* control cycles per second (1 / dt)
  Burst,  \* bound: keys pressed between two calls of ClearInput
  Keys,   \* the keys that may be pressed
  Pads    \* the gamepad inputs that may be latched

ASSUME FsmAssumption ==
  /\ Frames \in Nat \ {0}
  /\ Burst \in Nat
  /\ Keys \subseteq {"Num0", "Num1", "Num2", "Num9", "P"}
  /\ Pads \subseteq {"A", "B", "RB_DPadUp", "RB_DPadRight", "LB_X"}

RLStates == {"RLLocomotion", "RLLowBar"}
States == {"Passive", "GetUp", "GetDown"} \cup RLStates
Configs == {"base", "himloco", "lowbar"}

(* ground: lying; prep: pre_running_pos; stand and crouch: default_dof_pos *)
(* of base and himloco (0.03 rad apart), and of lowbar.                    *)
Poses == {"ground", "prep", "stand", "crouch"}

ConfigOf(s) == IF s = "RLLowBar" THEN "lowbar" ELSE "himloco"
DefaultPose(config) == IF config = "lowbar" THEN "crouch" ELSE "stand"

(* A whole interpolation: two seconds of cycles. *)
Full == 2 * Frames
Percent == 0..Full

VARIABLES
  pc,               \* "run": before StateController, "clear": before ClearInput
  sensorsReady,     \* motor_feedback_received && imu_received
  current,          \* FSM::current_state_
  next,             \* FSM::next_state_
  mode,             \* FSM::mode_
  keyboard,         \* Control::current_keyboard
  lastKeyboard,     \* Control::last_keyboard
  gamepad,          \* Control::current_gamepad
  pressed,          \* keys pressed since the last ClearInput, up to Burst
  percent,          \* the states' percent_* members
  standFromPassive, \* GetUp's stand_from_passive
  config,           \* whose default_dof_pos params holds
  startPose,        \* RL::start_state
  command,          \* what fsm_command tells the motors
  rlInitDone,       \* RL::rl_init_done
  \* auxiliary
  stopping,         \* a stop was seen, or an entry failed, since Passive
  asked,            \* standing up was asked for since Passive was entered
  restPose,         \* the pose in which Passive was last left
  wanted            \* P was pressed, and the robot was not Passive since

inputVars == <<keyboard, lastKeyboard, gamepad, pressed>>
fsmVars == <<current, next, mode>>
motionVars == <<percent, standFromPassive, config, startPose, command, rlInitDone>>
vars == <<pc, sensorsReady, fsmVars, inputVars, motionVars, stopping, asked,
          restPose, wanted>>

Unpowered == [kind |-> "none", goal |-> "ground", arrived |-> FALSE]
Damped == [kind |-> "damp", goal |-> "ground", arrived |-> FALSE]
Track(pose, p) == [kind |-> "track", goal |-> pose, arrived |-> p = Full]
PolicyTarget(s) == [kind |-> s, goal |-> "ground", arrived |-> FALSE]
Commands == [kind : {"none", "damp", "track"} \cup RLStates, goal : Poses,
             arrived : BOOLEAN]

TypeOK ==
  /\ pc \in {"run", "clear"}
  /\ sensorsReady \in BOOLEAN
  /\ current \in States
  /\ next \in States
  /\ mode \in {"NORMAL", "CHANGE"}
  /\ keyboard \in Keys \cup {"P", "None"}
  /\ lastKeyboard \in Keys \cup {"P", "None"}
  /\ gamepad \in Pads \cup {"None"}
  /\ pressed \in 0..Burst
  /\ percent \in [pre : Percent, up : Percent, down : Percent, glide : Percent]
  /\ standFromPassive \in BOOLEAN
  /\ config \in Configs
  /\ startPose \in Poses
  /\ command \in Commands
  /\ rlInitDone \in BOOLEAN
  /\ stopping \in BOOLEAN
  /\ asked \in BOOLEAN
  /\ restPose \in Poses
  /\ wanted \in BOOLEAN

(* base.yaml has been read and SetInitialState has entered Passive. *)
Init ==
  /\ pc = "run"
  /\ sensorsReady = FALSE
  /\ current = "Passive" /\ next = "Passive" /\ mode = "NORMAL"
  /\ keyboard = "None" /\ lastKeyboard = "None" /\ gamepad = "None"
  /\ pressed = 0
  /\ percent = [pre |-> 0, up |-> 0, down |-> 0, glide |-> 0]
  /\ standFromPassive = TRUE
  /\ config = "base"
  /\ startPose = "ground"
  /\ command = Unpowered
  /\ rlInitDone = FALSE
  /\ stopping = FALSE
  /\ asked = FALSE
  /\ restPose = "ground"
  /\ wanted = FALSE

-----------------------------------------------------------------------------
(***************************************************************************)
(* Inputs.                                                                 *)
(***************************************************************************)

SensorsArrive ==
  /\ ~sensorsReady
  /\ sensorsReady' = TRUE
  /\ UNCHANGED <<pc, fsmVars, inputVars, motionVars, stopping, asked, restPose,
                 wanted>>

SetKeyboard(k) ==
  /\ pressed < Burst
  /\ pressed' = pressed + 1
  /\ keyboard' = k
  /\ lastKeyboard' = IF keyboard = k THEN lastKeyboard ELSE keyboard
  /\ UNCHANGED gamepad

(* KeyboardInterface: one key of the terminal. *)
PressKey(k) ==
  /\ SetKeyboard(k)
  /\ asked' = (asked \/ k = "Num0")
  /\ wanted' = (wanted \/ (k = "P" /\ (current # "Passive" \/ mode = "CHANGE")))
  /\ UNCHANGED <<pc, sensorsReady, fsmVars, motionVars, stopping, restPose>>

(* AttitudeProtect: the running policy let the robot tip over. *)
AttitudeProtect ==
  /\ rlInitDone
  /\ SetKeyboard("P")
  /\ UNCHANGED <<pc, sensorsReady, fsmVars, motionVars, stopping, asked, restPose,
                 wanted>>

(* JoyCallback: SetGamepad, whose last_gamepad nothing reads. *)
PressPad(b) ==
  /\ gamepad' = b
  /\ asked' = (asked \/ b = "A")
  /\ UNCHANGED <<pc, sensorsReady, fsmVars, keyboard, lastKeyboard, pressed,
                 motionVars, stopping, restPose, wanted>>

-----------------------------------------------------------------------------
(***************************************************************************)
(* The states' Run: percent and command, and when it lets the policy go.   *)
(* An argument is a value that Enter may just have set.                    *)
(***************************************************************************)

(* A faulty variant: the last step is never taken.                         *)
InterpolateShort(p, from, to, step) ==
  IF p + step >= Full THEN p ELSE p + step

(* Interpolate: the next percent; a start pose near the target is there.   *)
Interpolate(p, from, to, step) ==
  IF (p = 0 /\ from = to) \/ p + step > Full THEN Full ELSE p + step

(* Two seconds take Full cycles, one second half as many. *)
Slow == 1
Fast == 2

RunPassive(p) ==
  /\ percent' = p
  /\ command' = Damped

(* From Passive through pre_running_pos, and on in the same call. *)
RunGetUpFromPassive(p, from) ==
  LET pre == Interpolate(p.pre, from, "prep", Fast)
      up == Interpolate(p.up, "prep", DefaultPose(config), Slow)
  IN \/ /\ pre < Full
        /\ percent' = [p EXCEPT !.pre = pre]
        /\ command' = Track("prep", pre)
     \/ /\ pre = Full
        /\ percent' = [p EXCEPT !.pre = pre, !.up = up]
        /\ command' = IF p.up = Full THEN command ELSE Track(DefaultPose(config), up)

(* From anywhere else straight to the default pose. *)
RunGetUpDirectly(p, from) ==
  LET up == Interpolate(p.up, from, DefaultPose(config), Fast)
  IN /\ percent' = [p EXCEPT !.up = up]
     /\ command' = IF p.up = Full THEN command ELSE Track(DefaultPose(config), up)

RunGetDown(p, from) ==
  LET down == Interpolate(p.down, from, startPose, Slow)
  IN /\ percent' = [p EXCEPT !.down = down]
     /\ command' = IF p.down = Full THEN command ELSE Track(startPose, down)

(* RLControl writes the policy's targets, if it finds any. *)
RunLocomotion(p) ==
  /\ percent' = p
  /\ command' \in {command, PolicyTarget("RLLocomotion")}

(* The policy waits until the robot has moved to the policy's own pose. *)
RunLowBar(p, from) ==
  LET glide == Interpolate(p.glide, from, "crouch", Fast)
      tracking == IF p.glide = Full THEN command ELSE Track("crouch", glide)
  IN /\ percent' = [p EXCEPT !.glide = glide]
     /\ \/ command' = tracking
        \/ glide = Full /\ command' = PolicyTarget("RLLowBar")

Run(s, p, fromPassive, from) ==
  \/ s = "Passive" /\ RunPassive(p)
  \/ s = "GetUp" /\ fromPassive /\ RunGetUpFromPassive(p, from)
  \/ s = "GetUp" /\ ~fromPassive /\ RunGetUpDirectly(p, from)
  \/ s = "GetDown" /\ RunGetDown(p, from)
  \/ s = "RLLocomotion" /\ RunLocomotion(p)
  \/ s = "RLLowBar" /\ RunLowBar(p, from)

(* Run sets rl_init_done, given the percent it leaves behind. *)
Engages(s, p) == s = "RLLocomotion" \/ (s = "RLLowBar" /\ p.glide = Full)

-----------------------------------------------------------------------------
(***************************************************************************)
(* The states' CheckChange, after their Run.                               *)
(***************************************************************************)

AskStop == keyboard = "P" \/ gamepad = "LB_X"
AskUp == keyboard = "Num0" \/ gamepad = "A"
AskDown == keyboard = "Num9" \/ gamepad = "B"
AskWalk == keyboard = "Num1" \/ gamepad = "RB_DPadUp"
AskDuck == keyboard = "Num2" \/ gamepad = "RB_DPadRight"

(* A faulty variant: a policy may start while the robot still rises.       *)
ChangeGetUpEarly(p) ==
  CASE AskStop -> "Passive"
    [] ~AskStop /\ AskWalk -> "RLLocomotion"
    [] ~AskStop /\ ~AskWalk /\ AskDuck -> "RLLowBar"
    [] ~AskStop /\ ~AskWalk /\ ~AskDuck /\ AskDown -> "GetDown"
    [] OTHER -> "GetUp"

ChangeGetUp(p) ==
  CASE AskStop -> "Passive"
    [] ~AskStop /\ p.up = Full /\ AskWalk -> "RLLocomotion"
    [] ~AskStop /\ p.up = Full /\ ~AskWalk /\ AskDuck -> "RLLowBar"
    [] ~AskStop /\ p.up = Full /\ ~AskWalk /\ ~AskDuck /\ AskDown -> "GetDown"
    [] OTHER -> "GetUp"

ChangeGetDown(p) ==
  CASE AskStop \/ p.down = Full -> "Passive"
    [] ~AskStop /\ p.down < Full /\ AskUp -> "GetUp"
    [] OTHER -> "GetDown"

(* A faulty variant: lying down is asked before stopping.                  *)
ChangeRLDownFirst ==
  CASE AskDown -> "GetDown"
    [] ~AskDown /\ AskStop -> "Passive"
    [] OTHER -> current

ChangeRL ==
  CASE AskStop -> "Passive"
    [] ~AskStop /\ AskDown -> "GetDown"
    [] ~AskStop /\ ~AskDown /\ AskUp -> "GetUp"
    [] ~AskStop /\ ~AskDown /\ ~AskUp /\ AskWalk -> "RLLocomotion"
    [] ~AskStop /\ ~AskDown /\ ~AskUp /\ ~AskWalk /\ AskDuck -> "RLLowBar"
    [] OTHER -> current

CheckChange(p) ==
  CASE current = "Passive" -> IF AskUp THEN "GetUp" ELSE "Passive"
    [] current = "GetUp" -> ChangeGetUp(p)
    [] current = "GetDown" -> ChangeGetDown(p)
    [] current \in RLStates -> ChangeRL

-----------------------------------------------------------------------------
(***************************************************************************)
(* FSM::Run, called by StateController.                                    *)
(***************************************************************************)

(* The NORMAL branch: Run and CheckChange. The state has run since it was  *)
(* entered, so no percent it uses is 0 and the start pose matters no more. *)
NormalCycle ==
  /\ pc = "run" /\ sensorsReady /\ mode = "NORMAL"
  /\ pc' = "clear"
  /\ Run(current, percent, standFromPassive, "ground")
  /\ rlInitDone' = (rlInitDone \/ Engages(current, percent'))
  /\ LET target == CheckChange(percent')
     IN /\ next' = IF target = current THEN next ELSE target
        /\ mode' = IF target = current THEN mode ELSE "CHANGE"
  /\ stopping' = (stopping \/ (AskStop /\ current # "Passive"))
  /\ UNCHANGED <<sensorsReady, current, inputVars, standFromPassive, config,
                 startPose, asked, restPose, wanted>>

(* What Enter makes of the percent_* members. *)
EnterPercent(s) ==
  CASE s = "GetUp" -> [percent EXCEPT !.pre = 0, !.up = 0]
    [] s = "GetDown" -> [percent EXCEPT !.down = 0]
    [] s = "RLLowBar" -> [percent EXCEPT !.glide = 0]
    [] OTHER -> percent

(* A faulty variant: an RL state's Exit forgets to switch the policy off.  *)
ExitForgetful == rlInitDone

(* The old state's Exit. *)
Exit == rlInitDone /\ current \notin RLStates

(* The CHANGE branch: Exit, Enter of the new state with the measured pose  *)
(* q, and its Run.                                                         *)
EnterState ==
  /\ pc = "run" /\ sensorsReady /\ mode = "CHANGE"
  /\ pc' = "clear"
  /\ current' = next
  /\ mode' = "NORMAL"
  /\ config' = IF next \in RLStates THEN ConfigOf(next) ELSE config
  /\ \E q \in Poses :
       /\ standFromPassive' = IF next = "GetUp" THEN current = "Passive"
                                                ELSE standFromPassive
       /\ startPose' = IF next = "GetUp" THEN q ELSE startPose
       /\ Run(next, EnterPercent(next), current = "Passive", q)
       /\ restPose' = IF current = "Passive" THEN q ELSE restPose
  /\ rlInitDone' = (Exit \/ Engages(next, percent'))
  /\ stopping' = (stopping /\ next # "Passive")
  /\ asked' = (asked /\ next # "Passive")
  /\ wanted' = (wanted /\ next # "Passive")
  /\ UNCHANGED <<sensorsReady, next, inputVars>>

(* The same when InitRL throws, before or after ReadYaml has merged the    *)
(* new config: Enter requests Passive and FSM::Run returns.                *)
EnterFails ==
  /\ pc = "run" /\ sensorsReady /\ mode = "CHANGE" /\ next \in RLStates
  /\ pc' = "clear"
  /\ current' = next
  /\ next' = "Passive"
  /\ config' \in {config, ConfigOf(next)}
  /\ percent' = EnterPercent(next)
  /\ rlInitDone' = FALSE
  /\ stopping' = TRUE
  /\ UNCHANGED <<sensorsReady, mode, inputVars, standFromPassive, startPose,
                 command, asked, restPose, wanted>>

(* A faulty variant: the keyboard is not cleared. *)
ClearGamepadOnly ==
  /\ pc = "clear"
  /\ pc' = "run"
  /\ gamepad' = "None"
  /\ pressed' = 0
  /\ UNCHANGED <<sensorsReady, fsmVars, keyboard, lastKeyboard, motionVars,
                 stopping, asked, restPose, wanted>>

(* ClearInput, and SetCommand publishes the command. *)
ClearInput ==
  /\ pc = "clear"
  /\ pc' = "run"
  /\ keyboard' = lastKeyboard
  /\ gamepad' = "None"
  /\ pressed' = 0
  /\ UNCHANGED <<sensorsReady, fsmVars, lastKeyboard, motionVars, stopping, asked,
                 restPose, wanted>>

RobotControl == NormalCycle \/ EnterState \/ EnterFails \/ ClearInput

Next ==
  \/ SensorsArrive
  \/ \E k \in Keys : PressKey(k)
  \/ \E b \in Pads : PressPad(b)
  \/ AttitudeProtect
  \/ RobotControl

Spec == Init /\ [][Next]_vars

(* The control loop keeps running, and the sensors do arrive. *)
FairSpec == Spec /\ WF_vars(RobotControl) /\ WF_vars(SensorsArrive)

-----------------------------------------------------------------------------
(***************************************************************************)
(* Properties.                                                             *)
(***************************************************************************)

(* An RL state is entered only from another one, or from a GetUp whose     *)
(* motion is over, with the motors commanded to the default pose.          *)
StandsFirst ==
  [][current' \in RLStates /\ current \notin RLStates =>
       /\ current = "GetUp"
       /\ percent.up = Full
       /\ command = Track(DefaultPose(config), Full)]_vars

(* From the entry of an RL state to the policy's first target, and on its  *)
(* way out, the motors hold a target: they are never limp under a policy.  *)
NeverLimp == current \in RLStates => command.kind \notin {"none", "damp"}

(* A policy that runs, runs with the parameters of its own configuration,  *)
(* and in the pose it was trained to start from.                           *)
OwnConfig ==
  rlInitDone => /\ current \in RLStates
                /\ config = ConfigOf(current)
                /\ current = "RLLowBar" => percent.glide = Full

(* Once a stop was seen, or a policy failed to load, the very next cycle   *)
(* of the state machine damps the motors, whatever is pressed in between.  *)
StopDamps ==
  [][stopping /\ pc = "run" /\ pc' = "clear" =>
       current' = "Passive" /\ command' = Damped]_vars

(* The message of Passive's Enter: the robot leaves Passive when '0' or    *)
(* 'A' is pressed. It has been since Passive was entered.                  *)
LeavesPassiveWhenAsked == current = "Passive" /\ mode = "CHANGE" => asked

(* Getting up and getting down come to an end, or are left. *)
MotionsEnd ==
  /\ current = "GetUp" ~> current # "GetUp" \/ percent.up = Full
  /\ current = "GetDown" ~> current # "GetDown"

(* README.md:174, P returns to Passive: a press is not forgotten. *)
StopPressHonoured == wanted ~> ~wanted

(* README.md:176, GetDown lies down in the initial pose, where the robot   *)
(* was when it last left Passive.                                          *)
LiesDownWhereItLay == current = "GetDown" => startPose = restPose

(* README.md:152 and 175, GetUp stands at the default stand angles of      *)
(* base.yaml.                                                              *)
StandsUpright ==
  current = "GetUp" /\ percent.up = Full => command.goal = "stand"
-----------------------------------------------------------------------------
(***************************************************************************)
(* The inductive invariants behind the safety properties.                  *)
(***************************************************************************)

(* A change is under way exactly when another state is asked for, and into *)
(* an RL state only from another one or from a finished GetUp.             *)
ChangeInv ==
  /\ mode = "CHANGE" <=> next # current
  /\ mode = "CHANGE" /\ next \in RLStates /\ current \notin RLStates =>
       current = "GetUp" /\ percent.up = Full

(* A finished GetUp has commanded the default pose, and from Passive it    *)
(* rises only once the preparatory pose is reached.                        *)
StandInv ==
  current = "GetUp" =>
    /\ percent.up = Full => command = Track(DefaultPose(config), Full)
    /\ standFromPassive /\ percent.up > 0 => percent.pre = Full

StopInv == stopping => mode = "CHANGE" /\ next = "Passive"

(* An RL state whose entry succeeded has its own configuration. *)
ConfigInv ==
  /\ current \in RLStates /\ mode = "NORMAL" => config = ConfigOf(current)
  /\ current = "RLLocomotion" /\ mode = "NORMAL" => rlInitDone

(* What NormalCycle relies on: an interpolation that is asked to go on has *)
(* left its start.                                                         *)
StartedInv ==
  mode = "NORMAL" =>
    /\ current = "GetUp" /\ standFromPassive => percent.pre > 0
    /\ current = "GetUp" /\ ~standFromPassive => percent.up > 0
    /\ current = "GetDown" => percent.down > 0
    /\ current = "RLLowBar" => percent.glide > 0

IInv ==
  /\ TypeOK /\ ChangeInv /\ StandInv /\ NeverLimp /\ OwnConfig
  /\ StopInv /\ ConfigInv /\ StartedInv

(* With at most one key per cycle ClearInput leaves no key behind, and a   *)
(* Num0 or A that Passive can see was pressed while it was the state.      *)
InputInv ==
  /\ lastKeyboard = "None"
  /\ keyboard # "None" => pressed = 1
  /\ pc = "run" /\ current = "Passive" /\ AskUp => asked
  /\ LeavesPassiveWhenAsked
=============================================================================
