----------------------------- MODULE PolicyData -----------------------------
(***************************************************************************)
(* The parts that only compute, beside each other: the data of a policy    *)
(* (PolicyObservation), the buffer of observations, reference motions, the *)
(* wire to the wheeled-leg robot, the networks and the calves' gear. They  *)
(* share no state; a behaviour is one of one part, the others at rest.     *)
(***************************************************************************)
EXTENDS PolicyObservation

CONSTANTS
  BufferEnvs, BufferDims, BufferLength, \* of ObservationBuffer
  BufferIds, BufferMaxIds, BufferCalls,
  MotionFiles, MotionTicks,                          \* of MotionLoader
  WireAngles, WireTurns, WireCommands,               \* of L4W4
  NetworkFiles, NetworkEntries,                      \* of InferenceRuntime
  GearRatios, GearPositions, GearGains, GearMoves    \* of MotorGear

VARIABLES
  buf, log,
  frames, now, index0, index1, blend,
  lowCmd, sent, legs, reports, lowState, commands,
  compiled, state, ready, model, answer, alive, entries,
  calf_gear_ratio, motor, latest, joint_command, motor_command, gearMoves,
  part \* the one whose behaviour it is

bufferVars == <<buf, log>>
motionVars == <<frames, now, index0, index1, blend>>
wireVars == <<lowCmd, sent, legs, reports, lowState, commands>>
modelVars == <<compiled, state, ready, model, answer, alive, entries>>
gearVars == <<calf_gear_ratio, motor, latest, joint_command, motor_command, gearMoves>>

Buffer == INSTANCE ObservationBuffer WITH
  NumEnvs <- BufferEnvs, Dims <- BufferDims, HistoryLength <- BufferLength,
  Ids <- BufferIds, MaxIds <- BufferMaxIds, MaxCalls <- BufferCalls
Motion == INSTANCE MotionLoader WITH Files <- MotionFiles, Ticks <- MotionTicks
Wire == INSTANCE L4W4 WITH
  Angles <- WireAngles, Turns <- WireTurns, MaxCommands <- WireCommands
Networks == INSTANCE InferenceRuntime WITH
  Files <- NetworkFiles, MaxEntries <- NetworkEntries
Drive == INSTANCE MotorGear WITH
  Ratios <- GearRatios, Positions <- GearPositions, Gains <- GearGains, MaxMoves <- GearMoves

ASSUME PartsAssumption ==
  /\ Buffer!BufferAssumption /\ Motion!MotionAssumption /\ Wire!WireAssumption
  /\ Networks!NetworkAssumption /\ Drive!GearAssumption

AllInit ==
  /\ Init /\ Buffer!Init /\ Motion!MotionInit /\ Wire!WireInit
  /\ Networks!InferenceInit /\ Drive!GearInit
  /\ part \in {"policy", "buffer", "motion", "wire", "model", "gear"}

AllNext ==
  /\ UNCHANGED part
  /\ \/ /\ part = "policy" /\ Next
        /\ UNCHANGED <<bufferVars, motionVars, wireVars, modelVars, gearVars>>
     \/ /\ part = "buffer" /\ Buffer!Next
        /\ UNCHANGED <<vars, motionVars, wireVars, modelVars, gearVars>>
     \/ /\ part = "motion" /\ Motion!MotionNext
        /\ UNCHANGED <<vars, bufferVars, wireVars, modelVars, gearVars>>
     \/ /\ part = "wire" /\ Wire!WireNext
        /\ UNCHANGED <<vars, bufferVars, motionVars, modelVars, gearVars>>
     \/ /\ part = "model" /\ Networks!InferenceNext
        /\ UNCHANGED <<vars, bufferVars, motionVars, wireVars, gearVars>>
     \/ /\ part = "gear" /\ Drive!GearNext
        /\ UNCHANGED <<vars, bufferVars, motionVars, wireVars, modelVars>>

allVars == <<vars, bufferVars, motionVars, wireVars, modelVars, gearVars, part>>

AllSpec == AllInit /\ [][AllNext]_allVars

-----------------------------------------------------------------------------
(* Step t of the history is the t-th last observation inserted, but for    *)
(* what a later reset has replaced, and zeros before any; get_obs_vec gives *)
(* the steps asked for by time or by term, no others (ObservationBuffer).   *)
HistoryAsAsked ==
  part = "buffer" => Buffer!HistoryInOrder /\ Buffer!TimeLayout /\ Buffer!TermLayout

(* Update chooses two neighbouring frames of the clip, and the motion that  *)
(* GetJointPos makes of them has no jumps (MotionLoader).                   *)
MotionContinuous == part = "motion" => Motion!FramesKnown /\ Motion!MotionContinuous

(* What goes over a wire or through a gear and comes back is what was sent: *)
(* the joints of the wheeled-leg robot and its attitude in the axes of      *)
(* LowState (L4W4), the calves behind their gear (MotorGear).               *)
RoundTrips ==
  /\ part = "wire" => Wire!MotorRoundTrip /\ Wire!SameAttitude
  /\ part = "gear" => Drive!GearExact

(* A state that is ready runs the model of the file it was given, and an    *)
(* inference reads the whole of an observation of the size its network      *)
(* declares (InferenceRuntime).                                             *)
NetworkChecked == part = "model" => Networks!ReadyModel /\ Networks!WholeObservation
=============================================================================
