--------------------------- MODULE PolicyPipeline ---------------------------
(***************************************************************************)
(* The hand-over of the motors to a learned policy, and the stream of      *)
(* targets the policy then feeds to them.                                  *)
(*                                                                         *)
(* Two threads share the RL object (rl_real_uika.cpp, rl_sim.cpp and       *)
(* rl_sim_mujoco.cpp start the same pair):                                 *)
(*   - the control thread (loop_control, every dt) runs the state machine: *)
(*     entering an RL state loads a policy (InitRL) and drains the queues, *)
(*     running it pops one position and one velocity target (RLControl);   *)
(*   - the policy thread (loop_rl, every dt * decimation) runs RunModel:   *)
(*     one inference, then one push on each of three concurrent queues.    *)
(* They meet at policy_mutex, model_mutex, the plain bool rl_init_done and *)
(* the three queues. Every access of one thread that the other can see is  *)
(* a step of its own.                                                      *)
(*                                                                         *)
(* Passive, GetUp and GetDown touch none of this state: they are one state *)
(* Idle. Joint vectors are abstracted to the entry (the RL episode whose   *)
(* policy computed them) and the tick (which inference it was).            *)
(***************************************************************************)
EXTENDS Integers, Sequences

CONSTANTS
  Policies,     \* the RL states, each with the policy it loads
  Transitional, \* those that first interpolate to the policy's start pose
  Idle,         \* any state that is not an RL state
  MaxEntries,   \* bound: entries into an RL state
  MaxTicks      \* bound: inferences

ASSUME PipelineAssumption ==
  /\ Transitional \subseteq Policies
  /\ Idle \notin Policies
  /\ MaxEntries \in Nat
  /\ MaxTicks \in Nat

States == Policies \cup {Idle}
Output == [entry : Nat, tick : Nat]
NoOutput == [entry |-> 0, tick |-> 0]

VARIABLES
  \* FSM and the control thread
  pc,            \* where the control thread is in RobotControl
  current,       \* FSM::current_state_
  next,          \* FSM::next_state_
  mode,          \* FSM::mode_
  entering,      \* this call of FSM::Run took the CHANGE branch
  interpolating, \* percent_transition < 1 in the current RL state
  entry,         \* entries into an RL state so far
  popped,        \* RLControl's local _output_dof_pos
  applied,       \* the pair last written into fsm_command
  \* shared
  rlInitDone,    \* RL::rl_init_done
  policyMutex,   \* who holds RL::policy_mutex
  modelMutex,    \* who holds RL::model_mutex
  model,         \* RL::model: the entry that loaded it, 0 for nullptr
  posQueue,      \* RL::output_dof_pos_queue
  velQueue,      \* RL::output_dof_vel_queue
  tauQueued,     \* how many vectors RL::output_dof_tau_queue holds
  \* the policy thread
  rlPc,          \* where the policy thread is in RunModel
  out,           \* obs.actions and the output vectors computed from them
  tick,          \* inferences so far
  lost           \* auxiliary: positions popped without a velocity, since
                 \* the queues were last drained

controlVars == <<pc, current, next, mode, entering, interpolating, entry,
                 popped, applied>>
queueVars == <<posQueue, velQueue, tauQueued>>
mutexVars == <<policyMutex, modelMutex>>
policyVars == <<rlPc, tick>>
vars == <<controlVars, rlInitDone, mutexVars, model, queueVars, policyVars,
          out, lost>>

TypeOK ==
  /\ pc \in {"cycle", "lockPolicy", "lockModel", "init", "unlock", "unlockFailed",
             "drainPos", "drainVel", "drainTau", "run", "popPos", "popVel", "check"}
  /\ current \in States
  /\ next \in States
  /\ mode \in {"NORMAL", "CHANGE"}
  /\ entering \in BOOLEAN
  /\ interpolating \in BOOLEAN
  /\ entry \in Nat
  /\ popped \in Output
  /\ applied \in [pos : Output, vel : Output]
  /\ rlInitDone \in BOOLEAN
  /\ policyMutex \in {"free", "control", "policy"}
  /\ modelMutex \in {"free", "control", "policy"}
  /\ model \in Nat
  /\ posQueue \in Seq(Output)
  /\ velQueue \in Seq(Output)
  /\ tauQueued \in Nat
  /\ rlPc \in {"sleep", "check", "tryModel", "forward", "pushPos", "pushVel",
               "pushTau", "protect"}
  /\ out \in Output
  /\ tick \in Nat
  /\ lost \in Nat

Init ==
  /\ pc = "cycle"
  /\ current = Idle
  /\ next = Idle
  /\ mode = "NORMAL"
  /\ entering = FALSE
  /\ interpolating = FALSE
  /\ entry = 0
  /\ popped = NoOutput
  /\ applied = [pos |-> NoOutput, vel |-> NoOutput]
  /\ rlInitDone = FALSE
  /\ policyMutex = "free"
  /\ modelMutex = "free"
  /\ model = 0
  /\ posQueue = <<>>
  /\ velQueue = <<>>
  /\ tauQueued = 0
  /\ rlPc = "sleep"
  /\ out = NoOutput
  /\ tick = 0
  /\ lost = 0

-----------------------------------------------------------------------------
(***************************************************************************)
(* The control thread: FSM::Run and the RL states' methods.                *)
(***************************************************************************)

(* The end of FSM::Run's NORMAL branch: the state CheckChange chose. *)
Choose(target) ==
  /\ target \in Policies \ {current} => entry < MaxEntries
  /\ next' = IF target = current THEN next ELSE target
  /\ mode' = IF target = current THEN mode ELSE "CHANGE"
  /\ pc' = "cycle"

IdleCycle ==
  /\ pc = "cycle" /\ mode = "NORMAL" /\ current = Idle
  /\ \E target \in States : Choose(target)
  /\ UNCHANGED <<current, entering, interpolating, entry, popped, applied,
                 rlInitDone, mutexVars, model, queueVars, policyVars, out, lost>>

PolicyCycle ==
  /\ pc = "cycle" /\ mode = "NORMAL" /\ current \in Policies
  /\ pc' = "run"
  /\ entering' = FALSE
  /\ UNCHANGED <<current, next, mode, interpolating, entry, popped, applied,
                 rlInitDone, mutexVars, model, queueVars, policyVars, out, lost>>

(* FSM::Run's CHANGE branch: Exit of the old state, then the new state's   *)
(* Enter; for an RL state only Enter's prologue, before it calls InitRL... *)
(* A faulty variant of Exit, used to test the properties: the policy is    *)
(* not switched off.                                                       *)
ExitForgetful == UNCHANGED rlInitDone

Exit == rlInitDone' = IF current \in Policies THEN FALSE ELSE rlInitDone

EnterPolicy ==
  /\ pc = "cycle" /\ mode = "CHANGE" /\ next \in Policies
  /\ Exit
  /\ current' = next
  /\ entry' = entry + 1
  /\ interpolating' = (next \in Transitional)
  /\ entering' = TRUE
  /\ pc' = "lockPolicy"
  /\ UNCHANGED <<next, mode, popped, applied, mutexVars, model, queueVars,
                 policyVars, out, lost>>

(* ...and for the others the whole cycle, since they touch nothing else.   *)
EnterIdle ==
  /\ pc = "cycle" /\ mode = "CHANGE" /\ next = Idle
  /\ Exit
  /\ current' = next
  /\ mode' = "NORMAL"
  /\ UNCHANGED <<pc, next, entering, interpolating, entry, popped, applied,
                 mutexVars, model, queueVars, policyVars, out, lost>>

LockPolicy ==
  /\ pc = "lockPolicy" /\ policyMutex = "free"
  /\ policyMutex' = "control"
  /\ pc' = "lockModel"
  /\ UNCHANGED <<current, next, mode, entering, interpolating, entry, popped,
                 applied, rlInitDone, modelMutex, model, queueVars, policyVars,
                 out, lost>>

LockModel ==
  /\ pc = "lockModel" /\ modelMutex = "free"
  /\ modelMutex' = "control"
  /\ pc' = "init"
  /\ UNCHANGED <<current, next, mode, entering, interpolating, entry, popped,
                 applied, rlInitDone, policyMutex, model, queueVars, policyVars,
                 out, lost>>

(* InitRL's body, under both mutexes. It may throw before the model is     *)
(* replaced (bad YAML, wrong observation size) or after load_model has     *)
(* returned nullptr; InitObservations and InitOutputs reset the vectors.   *)
InitRL ==
  /\ pc = "init"
  /\ \/ /\ model' = entry
        /\ pc' = "unlock"
     \/ /\ model' \in {model, 0}
        /\ pc' = "unlockFailed"
  /\ out' = [entry |-> entry, tick |-> tick]
  /\ UNCHANGED <<current, next, mode, entering, interpolating, entry, popped,
                 applied, rlInitDone, mutexVars, queueVars, policyVars, lost>>

(* A faulty variant: an exception leaves the mutexes locked.               *)
UnlockOnSuccess ==
  /\ pc \in {"unlock", "unlockFailed"}
  /\ \/ /\ pc = "unlock" /\ pc' = "drainPos"
        /\ policyMutex' = "free" /\ modelMutex' = "free"
        /\ UNCHANGED <<next, mode, rlInitDone>>
     \/ /\ pc = "unlockFailed" /\ pc' = "cycle"
        /\ next' = Idle /\ mode' = "CHANGE" /\ rlInitDone' = FALSE
        /\ UNCHANGED mutexVars
  /\ UNCHANGED <<current, entering, interpolating, entry, popped, applied,
                 model, queueVars, policyVars, out, lost>>

(* The lock guards go out of scope, by return or by unwinding; a failed    *)
(* Enter asks for Passive and FSM::Run returns without running the state.  *)
Unlock ==
  /\ pc \in {"unlock", "unlockFailed"}
  /\ policyMutex' = "free"
  /\ modelMutex' = "free"
  /\ IF pc = "unlock"
     THEN /\ pc' = "drainPos"
          /\ UNCHANGED <<next, mode, rlInitDone>>
     ELSE /\ pc' = "cycle"
          /\ next' = Idle
          /\ mode' = "CHANGE"
          /\ rlInitDone' = FALSE
  /\ UNCHANGED <<current, entering, interpolating, entry, popped, applied,
                 model, queueVars, policyVars, out, lost>>

(* A faulty variant: the queue is skipped. *)
SkipPos ==
  /\ pc = "drainPos"
  /\ pc' = "drainVel"
  /\ UNCHANGED <<current, next, mode, entering, interpolating, entry, popped,
                 applied, rlInitDone, mutexVars, model, queueVars, policyVars,
                 out, lost>>

DrainPos ==
  /\ pc = "drainPos"
  /\ posQueue' = <<>>
  /\ pc' = "drainVel"
  /\ UNCHANGED <<current, next, mode, entering, interpolating, entry, popped,
                 applied, rlInitDone, mutexVars, model, velQueue, tauQueued,
                 policyVars, out, lost>>

DrainVel ==
  /\ pc = "drainVel"
  /\ velQueue' = <<>>
  /\ lost' = 0
  /\ pc' = "drainTau"
  /\ UNCHANGED <<current, next, mode, entering, interpolating, entry, popped,
                 applied, rlInitDone, mutexVars, model, posQueue, tauQueued,
                 policyVars, out>>

(* The last queue is empty: FSM::Run leaves mode CHANGE and runs the state. *)
DrainTau ==
  /\ pc = "drainTau"
  /\ tauQueued' = 0
  /\ mode' = "NORMAL"
  /\ pc' = "run"
  /\ UNCHANGED <<current, next, entering, interpolating, entry, popped, applied,
                 rlInitDone, mutexVars, model, posQueue, velQueue, policyVars,
                 out, lost>>

(* The RL states' Run up to RLControl: a transitional state returns early  *)
(* until its interpolation is over, and only then lets the policy run.     *)
AfterRun == IF entering THEN "cycle" ELSE "check"

Run ==
  /\ pc = "run"
  /\ \/ /\ interpolating
        /\ pc' = AfterRun
        /\ UNCHANGED <<interpolating, rlInitDone>>
     \/ /\ interpolating' = FALSE
        /\ rlInitDone' = TRUE
        /\ pc' = "popPos"
  /\ UNCHANGED <<current, next, mode, entering, entry, popped, applied,
                 mutexVars, model, queueVars, policyVars, out, lost>>

(* A faulty variant: the position stays in the queue. *)
PeekPos ==
  /\ pc = "popPos"
  /\ pc' = IF posQueue = <<>> THEN AfterRun ELSE "popVel"
  /\ popped' = IF posQueue = <<>> THEN popped ELSE Head(posQueue)
  /\ UNCHANGED <<current, next, mode, entering, interpolating, entry, applied,
                 rlInitDone, mutexVars, model, queueVars, policyVars, out, lost>>

(* RLControl's condition: the first try_pop of `pos && vel`... *)
PopPos ==
  /\ pc = "popPos"
  /\ IF posQueue = <<>>
     THEN /\ pc' = AfterRun
          /\ UNCHANGED <<popped, posQueue>>
     ELSE /\ popped' = Head(posQueue)
          /\ posQueue' = Tail(posQueue)
          /\ pc' = "popVel"
  /\ UNCHANGED <<current, next, mode, entering, interpolating, entry, applied,
                 rlInitDone, mutexVars, model, velQueue, tauQueued, policyVars,
                 out, lost>>

(* ...and the second: without a velocity the popped position is dropped. *)
PopVel ==
  /\ pc = "popVel"
  /\ IF velQueue = <<>>
     THEN /\ lost' = lost + 1
          /\ UNCHANGED <<applied, velQueue>>
     ELSE /\ applied' = [pos |-> popped, vel |-> Head(velQueue)]
          /\ velQueue' = Tail(velQueue)
          /\ lost' = lost
  /\ pc' = AfterRun
  /\ UNCHANGED <<current, next, mode, entering, interpolating, entry, popped,
                 rlInitDone, mutexVars, model, posQueue, tauQueued, policyVars,
                 out>>

CheckChange ==
  /\ pc = "check"
  /\ \E target \in States : Choose(target)
  /\ UNCHANGED <<current, entering, interpolating, entry, popped, applied,
                 rlInitDone, mutexVars, model, queueVars, policyVars, out, lost>>

Control ==
  \/ IdleCycle \/ PolicyCycle \/ EnterPolicy \/ EnterIdle
  \/ LockPolicy \/ LockModel \/ InitRL \/ Unlock
  \/ DrainPos \/ DrainVel \/ DrainTau
  \/ Run \/ PopPos \/ PopVel \/ CheckChange

-----------------------------------------------------------------------------
(***************************************************************************)
(* The policy thread: RunModel and Forward.                                *)
(***************************************************************************)

RunModelLock ==
  /\ rlPc = "sleep" /\ policyMutex = "free"
  /\ tick < MaxTicks
  /\ policyMutex' = "policy"
  /\ rlPc' = "check"
  /\ UNCHANGED <<controlVars, rlInitDone, modelMutex, model, queueVars, out,
                 tick, lost>>

RunModelCheck ==
  /\ rlPc = "check"
  /\ rlPc' = IF rlInitDone THEN "tryModel" ELSE "sleep"
  /\ policyMutex' = IF rlInitDone THEN policyMutex ELSE "free"
  /\ UNCHANGED <<controlVars, rlInitDone, modelMutex, model, queueVars, out,
                 tick, lost>>

(* Forward's try_to_lock: when InitRL holds the model, the previous actions *)
(* are used again, still as a new set of targets.                           *)
TryModel ==
  /\ rlPc = "tryModel"
  /\ IF modelMutex = "free"
     THEN /\ modelMutex' = "policy"
          /\ rlPc' = "forward"
          /\ UNCHANGED <<out, tick>>
     ELSE /\ out' = [entry |-> out.entry, tick |-> tick + 1]
          /\ tick' = tick + 1
          /\ rlPc' = "pushPos"
          /\ UNCHANGED modelMutex
  /\ UNCHANGED <<controlVars, rlInitDone, policyMutex, model, queueVars, lost>>

Forward ==
  /\ rlPc = "forward"
  /\ out' = [entry |-> model, tick |-> tick + 1]
  /\ tick' = tick + 1
  /\ modelMutex' = "free"
  /\ rlPc' = "pushPos"
  /\ UNCHANGED <<controlVars, rlInitDone, policyMutex, model, queueVars, lost>>

PushPos ==
  /\ rlPc = "pushPos"
  /\ posQueue' = Append(posQueue, out)
  /\ rlPc' = "pushVel"
  /\ UNCHANGED <<controlVars, rlInitDone, mutexVars, model, velQueue, tauQueued,
                 out, tick, lost>>

PushVel ==
  /\ rlPc = "pushVel"
  /\ velQueue' = Append(velQueue, out)
  /\ rlPc' = "pushTau"
  /\ UNCHANGED <<controlVars, rlInitDone, mutexVars, model, posQueue, tauQueued,
                 out, tick, lost>>

PushTau ==
  /\ rlPc = "pushTau"
  /\ tauQueued' = tauQueued + 1
  /\ rlPc' = "protect"
  /\ UNCHANGED <<controlVars, rlInitDone, mutexVars, model, posQueue, velQueue,
                 out, tick, lost>>

(* TorqueProtect and AttitudeProtect, which may press P (CheckChange may   *)
(* choose Idle at any time, so that needs no state here), then the unlock. *)
RunModelUnlock ==
  /\ rlPc = "protect"
  /\ policyMutex' = "free"
  /\ rlPc' = "sleep"
  /\ UNCHANGED <<controlVars, rlInitDone, modelMutex, model, queueVars, out,
                 tick, lost>>

RunModel ==
  \/ RunModelLock \/ RunModelCheck \/ TryModel \/ Forward
  \/ PushPos \/ PushVel \/ PushTau \/ RunModelUnlock

Next == Control \/ RunModel

Spec == Init /\ [][Next]_vars

(* Both threads keep running. A mutex is not granted in order, but the     *)
(* policy thread sleeps out its period between two calls of RunModel, so a *)
(* waiting InitRL does get policy_mutex: strong fairness of LockPolicy.    *)
Fairness ==
  /\ WF_vars(Control)
  /\ WF_vars(RunModel)
  /\ SF_vars(LockPolicy)

FairSpec == Spec /\ Fairness

-----------------------------------------------------------------------------
(***************************************************************************)
(* Properties.                                                             *)
(***************************************************************************)

(* A target written into fsm_command was computed by the model loaded when *)
(* the present RL state was entered: nothing an earlier episode left in    *)
(* the queues, or still had in flight when it ended, reaches the motors.   *)
FreshTargets ==
  [][applied' # applied => /\ current \in Policies
                           /\ applied'.pos.entry = entry
                           /\ applied'.vel.entry = entry]_vars

(* Position targets reach the motors in the order of their inferences, and *)
(* none is written twice.                                                  *)
TargetsInOrder ==
  [][applied' # applied => applied'.pos.tick > applied.pos.tick]_vars

(* RLControl pops the two queues one after the other and RunModel pushes   *)
(* them one after the other, so a position can be popped before its        *)
(* velocity is there and is lost. That happens at most once per episode:   *)
(* the velocity left over keeps the queues paired from then on...          *)
AtMostOneLost == lost <= 1

(* ...so the velocity written with a position is at most one inference old. *)
BoundedSkew ==
  applied.pos.tick - applied.vel.tick \in {0, 1}

(* RunModel never calls forward on a null model, nor on one other than the *)
(* last that was loaded.                                                   *)
ModelReady ==
  rlPc = "forward" => model # 0 /\ model \in {entry, entry - 1}

(* Forward always gets model_mutex: its fallback to the previous actions   *)
(* is never taken, because InitRL takes policy_mutex first.                *)
FallbackUnused == rlPc = "tryModel" => modelMutex = "free"

(* When an RL state first runs, the three queues are empty and nothing is  *)
(* being pushed: DrainOutputQueues has not raced with RunModel.            *)
CleanStart ==
  pc = "run" /\ entering =>
    /\ posQueue = <<>> /\ velQueue = <<>> /\ tauQueued = 0
    /\ rlPc \in {"sleep", "check"}

(* The pipeline implements the promise of PolicyHandover: an RL state is an *)
(* episode, pending until its Run lets the policy go (rl_init_done).       *)
Phase ==
  IF current = Idle THEN "none"
  ELSE IF rlInitDone THEN "engaged" ELSE "pending"

Handover == INSTANCE PolicyHandover
  WITH phase <- Phase, episode <- entry, pair <- applied

ImplementsHandover == Handover!Spec

(* The comment at rl_sim.cpp:636: while the model is being reinitialised   *)
(* the policy thread returns previous actions "to avoid blocking".         *)
ReinitNeverBlocksPolicyThread ==
  modelMutex = "control" /\ tick < MaxTicks => ENABLED RunModel

(* A requested state change completes: neither a failing InitRL nor the    *)
(* policy thread's hold on the mutex leaves the state machine in CHANGE.   *)
HandoverCompletes == mode = "CHANGE" ~> mode = "NORMAL"
-----------------------------------------------------------------------------
(***************************************************************************)
(* The inductive invariant behind the safety properties.                   *)
(***************************************************************************)

Initialising == {"lockModel", "init", "unlock", "unlockFailed"}
Draining == {"drainPos", "drainVel", "drainTau"}

(* Who holds a mutex is where its thread is. *)
MutexInv ==
  /\ policyMutex = "control" <=> pc \in Initialising
  /\ policyMutex = "policy" <=> rlPc # "sleep"
  /\ modelMutex = "control" <=> pc \in Initialising \ {"lockModel"}
  /\ modelMutex = "policy" <=> rlPc = "forward"

(* The state machine is loading a policy only on its way into an RL state, *)
(* with the policy switched off.                                           *)
PhaseInv ==
  /\ pc # "cycle" => current \in Policies
  /\ rlInitDone => current \in Policies
  /\ pc \in Initialising \cup Draining \cup {"lockPolicy"} =>
       mode = "CHANGE" /\ entering /\ ~rlInitDone
  /\ pc \in {"run", "popPos", "popVel", "check"} => mode = "NORMAL"
  /\ pc \in {"popPos", "popVel"} => rlInitDone
  /\ pc = "check" => ~entering
  /\ pc = "run" /\ entering => ~rlInitDone
  /\ rlPc \in {"tryModel", "forward"} => entry > IF pc = "lockPolicy" THEN 1 ELSE 0
  /\ current \in Policies => entry > 0

(* Once InitRL has had policy_mutex, RunModel stays out of its body until  *)
(* the RL state's Run sets rl_init_done.                                   *)
QuietInv ==
  current \in Policies /\ ~rlInitDone /\ pc # "lockPolicy" =>
    rlPc \in {"sleep", "check"}

Stamped(q, e) == \A i \in 1..Len(q) : q[i].entry = e

(* The policy loaded on this entry may produce, or already produces. *)
Settled == rlInitDone \/ (current \in Policies /\ mode = "NORMAL")

FreshInv ==
  /\ pc \in {"unlock"} \cup Draining => model = entry
  /\ pc \in {"drainVel", "drainTau"} => posQueue = <<>>
  /\ pc = "drainTau" => velQueue = <<>>
  /\ pc = "run" /\ entering =>
       posQueue = <<>> /\ velQueue = <<>> /\ tauQueued = 0
  /\ rlPc \in {"tryModel", "forward"} =>
       model = IF pc = "lockPolicy" THEN entry - 1 ELSE entry
  /\ Settled => /\ model = entry
                /\ Stamped(posQueue, entry)
                /\ Stamped(velQueue, entry)
                /\ rlPc \in {"pushPos", "pushVel"} => out.entry = entry
  /\ pc = "popVel" => popped.entry = entry

(* The last inference whose output is in (or has been through) a queue. *)
LastPos == IF rlPc = "pushPos" THEN tick - 1 ELSE tick
LastVel == IF rlPc \in {"pushPos", "pushVel"} THEN tick - 1 ELSE tick

Consecutive(q, last) == \A i \in 1..Len(q) : q[i].tick = last - Len(q) + i

OrderInv ==
  /\ rlPc \in {"pushPos", "pushVel"} => out.tick = tick
  /\ LastVel >= 0
  /\ Consecutive(posQueue, LastPos)
  /\ Consecutive(velQueue, LastVel)
  /\ applied.pos.tick <= LastPos - Len(posQueue)
  /\ pc = "popVel" => /\ popped.tick = LastPos - Len(posQueue)
                      /\ applied.pos.tick < popped.tick

(* The two queues differ by the lost positions and what is in flight. *)
PairingInv ==
  /\ lost \in {0, 1}
  /\ pc = "drainTau" => lost = 0
  /\ pc # "drainVel" =>
       Len(velQueue) + (IF rlPc = "pushVel" THEN 1 ELSE 0)
         = Len(posQueue) + lost + (IF pc = "popVel" THEN 1 ELSE 0)
  /\ applied.pos.tick - applied.vel.tick \in {0, 1}
  /\ applied.pos.entry <= entry
  /\ pc \in Initialising \cup Draining \cup {"lockPolicy"} =>
       applied.pos.entry < entry
  /\ applied.pos.entry = entry => applied.pos.tick - applied.vel.tick <= lost

IInv ==
  /\ TypeOK /\ MutexInv /\ PhaseInv /\ QuietInv
  /\ FreshInv /\ OrderInv /\ PairingInv
=============================================================================
