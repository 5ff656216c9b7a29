---------------------------- MODULE MCPolicyData ----------------------------
(* Instances for TLC of the parts that only compute. *)
EXTENDS PolicyData

(* Two legs' joints and a wheel. *)
Config ==
  [observations |-> <<"ang_vel", "gravity_vec", "commands", "dof_pos", "dof_vel", "actions">>,
   num_observations |-> 18, commands_scale |-> <<2, 2, 1>>, ang_vel_scale |-> 1,
   dof_pos_scale |-> 1, dof_vel_scale |-> 1, obs_mapping |-> <<2, 1, 3>>,
   zero_wheel_dof_pos |-> TRUE, wheel_indices |-> {3}, default_dof_pos |-> <<1, -1, 0>>,
   clip_obs |-> 60, clip_actions |-> <<5, 5, 5>>, action_scale |-> <<1, 1, 2>>,
   rl_kp |-> <<10, 10, 0>>, rl_kd |-> <<1, 1, 1>>, torque_limits |-> <<30, 30, 10>>,
   observations_history |-> <<0, 1>>]

(* A policy without a history, with a phase, and one whose size is wrong.  *)
TwoPolicies ==
  {Config,
   [Config EXCEPT !.observations = <<"gravity_vec", "actions", "takeoff/phase">>,
                  !.num_observations = 8, !.observations_history = <<>>, !.wheel_indices = {}]}
ThreePolicies == TwoPolicies \cup {[Config EXCEPT !.num_observations = 17]}

SomeInputs ==
  {[gyro |-> <<0, 0, 2>>, pos |-> <<1, 0, 8>>, vel |-> <<0, 2, -1>>, speed |-> <<1, 0, 1>>,
    cmd_vel |-> <<0, 1, 0>>, nav |-> FALSE],
   [gyro |-> <<1, -3, 0>>, pos |-> <<70, -1, 0>>, vel |-> <<0, 0, 0>>, speed |-> <<0, 0, 0>>,
    cmd_vel |-> <<0, 3, 0>>, nav |-> TRUE]}
SomeAnswers == {<<9, -9, 1>>}

(* A quaternion and its negative are the same orientation; of a heading and *)
(* its mirror image one is taken.                                           *)
HalfOfUnits == {q \in Units : \E i \in 1..4 : q[i] > 0 /\ \A j \in 1..(i - 1) : q[j] = 0}
SomeOrientations == {q \in HalfOfUnits : q[4] >= 0}

-----------------------------------------------------------------------------
TwoTerms == <<2, 1>>

Row(joints) == [root |-> TRUE, joints |-> joints]
TwoMotions == {
  <<Row(<<3, 0>>)>>,
  <<Row(<<0, 4>>), [root |-> FALSE, joints |-> <<>>], Row(<<2, 1>>), Row(<<-5, 1>>), Row(<<-5, 7>>)>>}

OneAngle == {-200}
TwoTurns == {<<1, 0, 0, 0>>, <<2, 1, -1, 3>>}

(* Networks of the right size, with a dimension left open, of the wrong    *)
(* size, and files that cannot be loaded.                                  *)
File(extension, valid, shape, size) ==
  [extension |-> extension, valid |-> valid, shape |-> shape, obs |-> size]
SomeNetworks ==
  {File(ext, TRUE, <<1, 6>>, size) : ext \in {".pt", ".onnx"}, size \in {5, 6, 7}} \cup
  {File(".pth", FALSE, <<1, 6>>, 6), File(".bin", TRUE, <<1, 6>>, 6)} \cup
  {File(".onnx", TRUE, <<1, -1>>, 6)}

TwoRatios == {1, 3}
SomePositions == {-2, 0, 5}
TwoGains == {0, 2}

(* While one part moves, what the others start with is one choice of it.   *)
MCInit ==
  /\ AllInit
  /\ part # "policy" => params = Config
  /\ part # "model" => compiled = {}
  /\ part # "gear" => calf_gear_ratio = 1
  /\ part # "motion" => Len(frames) = 1

MCSpec == MCInit /\ [][AllNext]_allVars
=============================================================================
