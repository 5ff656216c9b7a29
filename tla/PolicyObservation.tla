------------------------- MODULE PolicyObservation -------------------------
(***************************************************************************)
(* The data a policy works on: what RunModel makes of the sensors and the  *)
(* speeds (ComputeObservation, the history of observations, clipping),     *)
(* what it makes of the model's answer (ComputeOutput) and what it does    *)
(* about a robot that has fallen over (AttitudeProtect). InitRL and        *)
(* RunModel exclude each other by policy_mutex, so each is one action;     *)
(* PolicyPipeline has the threads.                                         *)
(*                                                                         *)
(* Numbers are integers, in units that differ from term to term; what has  *)
(* been turned by a quaternion is Scale^2 times the code's (VectorMath).   *)
(***************************************************************************)
EXTENDS VectorMath, SequencesExt

CONSTANTS
  Policies,     \* merged configurations, see Fields
  Inputs,       \* what RunModel may find: [gyro, pos, vel, speed, cmd_vel, nav]
  Orientations, \* base orientations, a subset of Units
  Answers,      \* what a model may answer
  MaxRuns       \* bound: inferences in all

Fields == {"observations", "num_observations", "commands_scale", "ang_vel_scale",
  "dof_pos_scale", "dof_vel_scale", "obs_mapping", "zero_wheel_dof_pos", "wheel_indices",
  "default_dof_pos", "clip_obs", "clip_actions", "action_scale", "rl_kp", "rl_kd",
  "torque_limits", "observations_history"}

Names == {"ang_vel", "gravity_vec", "commands", "dof_pos", "dof_vel", "actions", "takeoff/phase"}
Vectors(n) == {v \in Seq(Int) : Len(v) = n}

ASSUME DataAssumption ==
  /\ Orientations \subseteq Units /\ MaxRuns \in Nat
  /\ \A p \in Policies : DOMAIN p = Fields

(* The configurations are of one robot, and a model answers for each of    *)
(* its joints. Only in navigation mode are the commands cut to three.      *)
ASSUME SizesAssumption ==
  \A p \in Policies :
    LET dofs == Len(p.default_dof_pos) IN
    /\ p.observations \in Seq(Names) /\ p.observations_history \in Seq(Nat)
    /\ p.num_observations \in Nat /\ p.obs_mapping \in Seq(1..dofs)
    /\ {p.ang_vel_scale, p.dof_pos_scale, p.dof_vel_scale, p.clip_obs} \subseteq Int
    /\ {p.commands_scale, p.clip_actions} \subseteq Seq(Int)
    /\ {p.default_dof_pos, p.action_scale, p.rl_kp, p.rl_kd, p.torque_limits} \subseteq Vectors(dofs)
    /\ \A i \in 1..dofs : p.torque_limits[i] >= 0
    /\ \A r \in Policies : Len(r.default_dof_pos) = dofs
    /\ \A in \in Inputs : /\ {in.gyro, in.speed, in.cmd_vel} \subseteq Vectors(3)
                          /\ {in.pos, in.vel} \subseteq Vectors(dofs)
                          /\ in.nav => Len(p.commands_scale) <= 3
    /\ Answers \subseteq Vectors(dofs)

VARIABLES
  params,       \* the policy whose configuration is merged in
  rl_init_done,
  obs,          \* [ang_vel, gravity_vec, commands, base_quat, dof_pos, dof_vel, actions]
  history_obs_buf, \* [size, steps]: the observations, newest first
  output,       \* output_dof_pos, output_dof_vel, output_dof_tau
  protect,      \* RunModel pressed P, and which torques it warned of
  episode,      \* auxiliary: the inferences so far, each with the observation,
                \* what the model was given, its answer and the inputs
  runs          \* bound: inferences in all

vars == <<params, rl_init_done, obs, history_obs_buf, output, protect, episode, runs>>

Zeros(n) == [i \in 1..n |-> 0]
NumDofs == Len(params.default_dof_pos)

-----------------------------------------------------------------------------
(***************************************************************************)
(* ComputeObservation.                                                     *)
(***************************************************************************)

Reordered(p, v) ==
  IF p.obs_mapping = <<>> THEN v ELSE [i \in DOMAIN p.obs_mapping |-> v[p.obs_mapping[i]]]

(* The joints' angles from the default pose; a wheel's means nothing.      *)
DofPosRel(p, o) ==
  LET rel == Minus(o.dof_pos, p.default_dof_pos)
  IN [i \in DOMAIN rel |-> IF p.zero_wheel_dof_pos /\ i \in p.wheel_indices THEN 0 ELSE rel[i]]

(* phase_cycle_time is four inferences: the sine and the cosine. *)
Phase(n) == <<<<0, 1, 0, -1>>[(n % 4) + 1], <<1, 0, -1, 0>>[(n % 4) + 1]>>

(* The angular velocity comes in the world's axes (ang_vel_axis = "world").*)
Term(name, p, o, n) ==
  CASE name = "ang_vel" -> Scaled(QuatRotateInverse(o.base_quat, o.ang_vel), p.ang_vel_scale)
    [] name = "gravity_vec" -> QuatRotateInverse(o.base_quat, o.gravity_vec)
    [] name = "commands" -> Times(o.commands, p.commands_scale)
    [] name = "dof_pos" -> Reordered(p, Scaled(DofPosRel(p, o), p.dof_pos_scale))
    [] name = "dof_vel" -> Reordered(p, Scaled(o.dof_vel, p.dof_vel_scale))
    [] name = "actions" -> o.actions
    [] name = "takeoff/phase" -> Phase(n)

(* obs_list, by name. *)
ObsList(p, o, n) == [name \in ToSet(p.observations) |-> Term(name, p, o, n)]

ComputeObservation(p, o, n) ==
  LET list == ObsList(p, o, n)
  IN ClampAll(FlattenSeq([k \in DOMAIN p.observations |-> list[p.observations[k]]]),
              -p.clip_obs, p.clip_obs)

-----------------------------------------------------------------------------
(***************************************************************************)
(* InitRL.                                                                 *)
(***************************************************************************)

Observations(p, actions) ==
  [ang_vel |-> Zeros(3), gravity_vec |-> <<0, 0, -1>>,
   commands |-> Zeros(IF Len(p.commands_scale) > 3 THEN Len(p.commands_scale) ELSE 3),
   base_quat |-> <<Scale, 0, 0, 0>>, dof_pos |-> p.default_dof_pos,
   dof_vel |-> Zeros(Len(p.default_dof_pos)), actions |-> actions]

(* A faulty variant: obs.actions is resized without being cleared.         *)
InitObservationsResized(p) ==
  Observations(p, IF obs.actions = <<>> THEN Zeros(Len(p.default_dof_pos)) ELSE obs.actions)

InitObservations(p) == Observations(p, Zeros(Len(p.default_dof_pos)))

InitOutputs(p) ==
  [pos |-> p.default_dof_pos, vel |-> Zeros(Len(p.default_dof_pos)),
   tau |-> Zeros(Len(p.default_dof_pos))]

(* A faulty variant: a buffer that has the length already is not replaced. *)
InitHistoryKept(p, size) ==
  IF p.observations_history = <<>> \/ history_obs_buf.size = size THEN history_obs_buf
  ELSE [size |-> size, steps |-> [t \in 1..2 |-> Zeros(size)]]

(* ObservationBuffer(1, obs_dims, ...): one step more than the oldest      *)
(* asked for, all zeros.                                                   *)
InitHistory(p, size) ==
  IF p.observations_history = <<>> THEN history_obs_buf
  ELSE [size |-> size,
        steps |-> [t \in 1..(Max(ToSet(p.observations_history)) + 1) |-> Zeros(size)]]

SizeFits(p, size) == size = p.num_observations

(* Enter of an RL state. The size computed from zeros has to be the        *)
(* policy's; otherwise InitRL throws before it touches outputs or history. *)
(* Loading the model may fail, after it has.                               *)
EnterRL(p) ==
  LET o == InitObservations(p)
      size == Len(ComputeObservation(p, o, 0))
  IN /\ ~rl_init_done
     /\ params' = p /\ obs' = o /\ episode' = <<>>
     /\ IF ~SizeFits(p, size)
        THEN UNCHANGED <<rl_init_done, output, history_obs_buf>>
        ELSE /\ output' = InitOutputs(p)
             /\ history_obs_buf' = InitHistory(p, size)
             /\ rl_init_done' \in BOOLEAN
     /\ UNCHANGED <<protect, runs>>

Exit ==
  /\ rl_init_done /\ rl_init_done' = FALSE
  /\ UNCHANGED <<params, obs, history_obs_buf, output, protect, episode, runs>>

-----------------------------------------------------------------------------
(***************************************************************************)
(* RunModel.                                                               *)
(***************************************************************************)

(* More than three commands stay as InitRL left them, but not in           *)
(* navigation mode.                                                        *)
Commands(in) ==
  IF in.nav THEN in.cmd_vel ELSE IF Len(obs.commands) <= 3 THEN in.speed ELSE obs.commands

(* ObservationBuffer::insert: an observation of another size is ignored.   *)
Insert(buffer, observation) ==
  IF Len(observation) # buffer.size THEN buffer
  ELSE [buffer EXCEPT !.steps = <<observation>> \o Front(buffer.steps)]

(* get_obs_vec, by time (ObservationBuffer has the function in full).      *)
GetObsVec(p, buffer) ==
  FlattenSeq([k \in DOMAIN p.observations_history |-> buffer.steps[p.observations_history[k] + 1]])

(* An action moves a joint from its default, but a wheel at a velocity.    *)
ComputeOutput(p, o, actions) ==
  LET scaled == Times(actions, p.action_scale)
      vel == [i \in DOMAIN scaled |-> IF i \in p.wheel_indices THEN scaled[i] ELSE 0]
      pos == Minus(scaled, vel)
  IN [pos |-> Plus(pos, p.default_dof_pos), vel |-> vel,
      tau |-> ClampVector(Minus(Times(p.rl_kp, Minus(Plus(Plus(pos, vel), p.default_dof_pos), o.dof_pos)),
                                Times(p.rl_kd, o.dof_vel)),
                          Negated(p.torque_limits), p.torque_limits)]

TorqueProtect(p, tau) ==
  {i \in DOMAIN tau : tau[i] < -p.torque_limits[i] \/ tau[i] > p.torque_limits[i]}

(* An angle beyond 75 degrees, by its sine and cosine (tan 75 = 3.732) or  *)
(* its sine alone (sin 75 = 0.966), in units of Scale^2.                   *)
RollOver75(q) == LET s == RollOf(q)[1]  c == RollOf(q)[2]
                 IN IF c < 0 THEN TRUE ELSE 1000 * s * s > 13928 * c * c
PitchOver75(q) == 1000 * (PitchOf(q) * PitchOf(q)) > 933 * Scale * Scale * Scale * Scale

(* A faulty variant: only the pitch is looked at.                          *)
AttitudeProtectPitch(q) == PitchOver75(q)

(* P is pressed. *)
AttitudeProtect(q) == RollOver75(q) \/ PitchOver75(q)

RunModel(in, quat, answer) ==
  LET o == [obs EXCEPT !.ang_vel = in.gyro, !.commands = Commands(in), !.base_quat = quat,
                       !.dof_pos = in.pos, !.dof_vel = in.vel]
      observation == ComputeObservation(params, o, Len(episode) + 1)
      buffer == Insert(history_obs_buf, observation)
      actions == ClampVector(answer, Negated(params.clip_actions), params.clip_actions)
  IN /\ rl_init_done /\ runs < MaxRuns /\ runs' = runs + 1
     /\ IF params.observations_history = <<>> THEN UNCHANGED history_obs_buf
        ELSE history_obs_buf' = buffer
     /\ obs' = [o EXCEPT !.actions = actions]
     /\ output' = ComputeOutput(params, o, actions)
     /\ protect' = [p |-> AttitudeProtect(quat), torques |-> TorqueProtect(params, output'.tau)]
     /\ episode' = Append(episode,
          [terms |-> ObsList(params, o, Len(episode) + 1), observation |-> observation,
           actions |-> actions, quat |-> quat, in |-> in,
           given |-> IF params.observations_history = <<>> THEN observation
                     ELSE GetObsVec(params, buffer)])
     /\ UNCHANGED <<params, rl_init_done>>

Init ==
  /\ params \in Policies /\ rl_init_done = FALSE
  /\ obs = [field \in {"ang_vel", "gravity_vec", "commands", "base_quat", "dof_pos",
                      "dof_vel", "actions"} |-> <<>>]
  /\ output = InitOutputs(params)
  /\ history_obs_buf = [size |-> 0, steps |-> <<>>]
  /\ protect = [p |-> FALSE, torques |-> {}] /\ episode = <<>> /\ runs = 0

Next ==
  \/ \E p \in Policies : EnterRL(p)
  \/ Exit
  \/ \E in \in Inputs, quat \in Orientations, answer \in Answers : RunModel(in, quat, answer)

PolicySpec == Init /\ [][Next]_vars

-----------------------------------------------------------------------------
(***************************************************************************)
(* Properties.                                                             *)
(***************************************************************************)

(* The inference that was last, if there is one, and what it observed.     *)
Latest == Last(episode)
Observed(name) == episode # <<>> /\ name \in ToSet(params.observations)

(* Every vector has the size its readers expect. *)
TypeOK ==
  /\ params \in Policies /\ rl_init_done \in BOOLEAN
  /\ rl_init_done => Len(obs.dof_pos) = NumDofs /\ Len(obs.actions) = NumDofs
  /\ Len(output.pos) = NumDofs /\ Len(output.vel) = NumDofs /\ Len(output.tau) = NumDofs
  /\ \A t \in DOMAIN history_obs_buf.steps : Len(history_obs_buf.steps[t]) = history_obs_buf.size
  /\ episode # <<>> => Len(Latest.observation) = params.num_observations

(* A model is given the observations of its own episode: for each step     *)
(* asked for, the one computed so many inferences before, and zeros where  *)
(* the episode is not as old as that. Nothing of another policy's episode  *)
(* is left in the history, and none of this one's is missing from it.      *)
EpisodeOnly ==
  episode # <<>> /\ params.observations_history # <<>> =>
    Latest.given = FlattenSeq([k \in DOMAIN params.observations_history |->
      LET n == Len(episode) - params.observations_history[k]
      IN IF n > 0 THEN episode[n].observation ELSE Zeros(params.num_observations)])

(* The actions an observation holds are those of the inference before it   *)
(* as they were carried out, clipped, and zeros in the first: neither the  *)
(* new ones nor the last policy's.                                         *)
ActionsFed ==
  Observed("actions") =>
    Latest.terms["actions"] =
      IF Len(episode) = 1 THEN Zeros(NumDofs) ELSE episode[Len(episode) - 1].actions

(* Gravity and the angular velocity are observed in the robot's axes: as   *)
(* the transposed rotation matrix turns them, and as the quaternions' own  *)
(* products do (QuatRotateInverse is used for both).                       *)
Turned(q, v) == Applied(TransposeMatrix3x3(QuaternionToRotationMatrix(q)), v)
Conjugated(q, v) ==
  Axis(QuaternionMultiply(QuaternionMultiply(QuaternionConjugate(q), <<0>> \o v), q))

FrameBody ==
  /\ Observed("gravity_vec") =>
       /\ Latest.terms["gravity_vec"] = Turned(Latest.quat, <<0, 0, -1>>)
       /\ Latest.terms["gravity_vec"] = Conjugated(Latest.quat, <<0, 0, -1>>)
  /\ Observed("ang_vel") =>
       Latest.terms["ang_vel"] = Scaled(Turned(Latest.quat, Latest.in.gyro), params.ang_vel_scale)

(* AttitudeProtect, which sees roll and pitch, presses P for every robot   *)
(* that is 87 degrees or more off the upright, whatever its heading, and   *)
(* for none that is less than 70 (75 degrees of roll and of pitch together *)
(* come to 86).                                                            *)
FallProtected ==
  episode # <<>> =>
    LET up == QuaternionToRotationMatrix(Latest.quat)[3][3]
    IN /\ 20 * up < Scale * Scale => protect.p
       /\ 3 * up > Scale * Scale => ~protect.p

(* The torques ComputeOutput returns are within torque_limits, so that     *)
(* TorqueProtect, which RunModel calls with them, never has one to report. *)
TorqueProtectSilent == protect.torques = {}
=============================================================================
