-------------------------- MODULE JointController --------------------------
(***************************************************************************)
(* The joint controllers of the Gazebo simulation, from the start of the   *)
(* simulation node that spawns them to the effort they apply.              *)
(*                                                                         *)
(* Three builds: "group", the ROS 2 controller of all joints, which the    *)
(* node uses; "single", the ROS 2 controller of one joint; "ros1".         *)
(* The subscription's callback runs on the executor, the lifecycle and     *)
(* update on the physics thread; both use last_command_ without a lock.    *)
(* Commands are numbered in the order they are published; one is copied    *)
(* joint by joint. The realtime buffer is the external library's: a write  *)
(* excludes other writes, and a read sees the last complete write.         *)
(***************************************************************************)
EXTENDS Integers, Sequences

CONSTANTS
  Builds,      \* the builds to consider
  NumJoints,   \* joints of the group
  Commands,    \* what the published commands say, in order: their number bounds them
  Positions,   \* where a joint may be found
  EffortMax,   \* limits->effort; lower and upper are -EffortMax, EffortMax
  QueueDepth,  \* the middleware's history depth
  MaxSwitches, \* bound: activations
  AnswerFirst  \* the urdf is answered before the activation, which nothing enforces

Hold == 0      \* the command on_activate makes up
Default == -1  \* a default-constructed command
PosStop == 9   \* PosStopF, beyond any position: no position control

ASSUME JointAssumption ==
  /\ Builds \subseteq {"group", "single", "ros1"}
  /\ NumJoints \in Nat \ {0}
  /\ Commands \in Seq([q : Int, kp : Nat, tau : Int])
  /\ Positions \subseteq Int /\ Positions # {}
  /\ EffortMax \in Nat /\ QueueDepth \in Nat \ {0} /\ MaxSwitches \in Nat
  /\ AnswerFirst \in BOOLEAN

VARIABLES
  build,
  boot,      \* the node's constructor: "params", "spawn", "loops" or "failed"
  sent, queue, \* commands published, and those waiting in the middleware
  life,      \* the controller's lifecycle, its transitions step by step
  urdf,      \* joints_urdf_: "none", "asked", "known", "missing"
  switches,  \* activations so far
  last,      \* last_command_
  buffer,    \* rt_command_ptr_
  cpc, cjoint, taken, copy, \* the callback: its step, joint, message, and writeFromNonRT's copy
  upc,       \* update: "idle", "read", or UpdateFunc; with ujoint the next joint
  ujoint,
  pos,       \* the state interfaces
  hold,      \* what Hold says: position of each joint, gain
  used, effort, \* the command each joint ran last and the effort it applied
  crashed,
  settled    \* auxiliary: commands whose callback had returned at the activation

nodeVars == <<build, boot, sent>>
callbackVars == <<cpc, cjoint, taken, copy>>
updateVars == <<upc, ujoint, used, effort, crashed>>
lifeVars == <<life, switches, hold, settled>>
vars == <<nodeVars, queue, callbackVars, updateVars, lifeVars, urdf, last, buffer, pos>>

LastJoint == IF build = "group" THEN NumJoints ELSE 1
Joints == 1..LastJoint
Numbers == Default..Len(Commands)
All(n) == [j \in 1..NumJoints |-> n]

TypeOK ==
  /\ build \in Builds
  /\ boot \in {"params", "spawn", "loops", "failed"}
  /\ sent \in 0..Len(Commands)
  /\ queue \in Seq(1..sent) /\ Len(queue) <= QueueDepth
  /\ life \in {"unconfigured", "joints", "service", "inactive", "activating", "clearing",
               "active", "deactivating", "emptying"}
  /\ urdf \in {"none", "asked", "known", "missing"}
  /\ switches \in 0..MaxSwitches
  /\ last \in [1..NumJoints -> Numbers] /\ buffer \in [1..NumJoints -> Numbers]
  /\ copy \in [1..NumJoints -> Numbers] /\ used \in [1..NumJoints -> Numbers]
  /\ cpc \in {"idle", "assign", "write"} /\ cjoint \in 1..NumJoints /\ taken \in 0..sent
  /\ upc \in {"idle", "read", "run"} /\ ujoint \in 1..NumJoints
  /\ pos \in [1..NumJoints -> Positions]
  /\ hold.q \in [1..NumJoints -> Positions] /\ hold.kp \in Nat
  /\ effort \in [1..NumJoints -> Int]
  /\ crashed \in BOOLEAN
  /\ settled \in 0..sent

Init ==
  /\ build \in Builds
  /\ boot = "params" /\ sent = 0 /\ queue = <<>>
  /\ life = "unconfigured" /\ urdf = "none" /\ switches = 0 /\ settled = 0
  /\ last = All(Default) /\ buffer = All(Default)
  /\ cpc = "idle" /\ cjoint = 1 /\ taken = 0 /\ copy = All(Default)
  /\ upc = "idle" /\ ujoint = 1
  /\ pos \in [1..NumJoints -> Positions]
  /\ hold = [q |-> pos, kp |-> 0]
  /\ used = All(Default) /\ effort = All(0)
  /\ crashed = FALSE

-----------------------------------------------------------------------------
(***************************************************************************)
(* The simulation node: RL_Sim's constructor, then its control loop.       *)
(***************************************************************************)

(* param_node answers within five seconds with all three parameters.       *)
GetParameters ==
  /\ boot = "params" /\ boot' = "spawn"
  /\ UNCHANGED <<build, sent, queue, callbackVars, updateVars, lifeVars, urdf, last, buffer, pos>>

SpawnerDone(done) ==
  /\ boot = "spawn" /\ done
  /\ boot' = "loops"
  /\ UNCHANGED <<build, sent, queue, callbackVars, updateVars, lifeVars, urdf, last, buffer, pos>>

Activated == switches > 1 \/ (switches = 1 /\ life \notin {"activating", "clearing"})

(* A faulty variant: the state is looked at, which may have changed again.  *)
StartJointControllerNow == SpawnerDone(life = "active")

(* waitpid: the spawner returns 0 once it has activated the controller... *)
StartJointController == SpawnerDone(Activated)

(* ...or something else, and the constructor throws. *)
SpawnerFails ==
  /\ boot = "spawn" /\ ~Activated
  /\ boot' = "failed"
  /\ UNCHANGED <<build, sent, queue, callbackVars, updateVars, lifeVars, urdf, last, buffer, pos>>

(* SetCommand publishes; a full history loses its oldest message.          *)
SetCommand ==
  /\ boot = "loops" /\ sent < Len(Commands)
  /\ sent' = sent + 1
  /\ queue' = Append(IF Len(queue) = QueueDepth THEN Tail(queue) ELSE queue, sent + 1)
  /\ UNCHANGED <<build, boot, callbackVars, updateVars, lifeVars, urdf, last, buffer, pos>>

-----------------------------------------------------------------------------
(***************************************************************************)
(* The lifecycle: on_configure, on_activate, on_deactivate.                *)
(***************************************************************************)

quiet == <<nodeVars, queue, callbackVars, updateVars, pos>>

Configure ==
  /\ boot = "spawn" /\ life = "unconfigured"
  /\ life' = "joints"
  /\ UNCHANGED <<quiet, switches, hold, settled, urdf, last, buffer>>

(* The joints parameter is there; the urdf's service is then waited for.   *)
GetJoints ==
  /\ life = "joints" /\ life' = "service"
  /\ UNCHANGED <<quiet, switches, hold, settled, urdf, last, buffer>>

(* The request is sent and on_configure returns; ROS 1 reads the parameter. *)
AskUrdf ==
  /\ life = "service" /\ life' = "inactive"
  /\ urdf' = IF build = "ros1" THEN "known" ELSE "asked"
  /\ UNCHANGED <<quiet, switches, hold, settled, last, buffer>>

(* "single" asks for robot_description_, which nobody has.                 *)
UrdfAnswer ==
  /\ urdf = "asked"
  /\ urdf' = IF build = "single" THEN "missing" ELSE "known"
  /\ UNCHANGED <<quiet, lifeVars, last, buffer>>

(* on_activate: last_command_ holds the position, with no gains; ROS 1     *)
(* keeps those of the last command.                                        *)
Activate ==
  /\ life = "inactive" /\ switches < MaxSwitches
  /\ AnswerFirst => urdf # "asked"
  /\ switches' = switches + 1
  /\ settled' = IF cpc = "idle" THEN taken ELSE taken - 1
  /\ hold' = [q |-> pos, kp |-> IF build # "ros1" THEN 0
                               ELSE IF last[1] > 0 THEN Commands[last[1]].kp ELSE hold.kp]
  /\ last' = All(Hold)
  /\ life' = "activating"
  /\ UNCHANGED <<quiet, urdf, buffer>>

(* The buffer is replaced by a new one, when no write is under way (ROS 1's *)
(* initRT keeps it)...                                                     *)
ClearBuffer ==
  /\ life = "activating" /\ cpc # "write"
  /\ buffer' = IF build = "ros1" THEN buffer ELSE All(Default)
  /\ life' = IF build = "single" THEN "active" ELSE "clearing"
  /\ UNCHANGED <<quiet, switches, hold, settled, urdf, last>>

WriteToBuffer(n) ==
  /\ life = "clearing" /\ cpc # "write"
  /\ buffer' = n
  /\ life' = "active"
  /\ UNCHANGED <<quiet, switches, hold, settled, urdf, last>>

(* A faulty variant: the buffer is given what it held before.              *)
WriteBufferTaken == WriteToBuffer(All(taken))

(* ...and given last_command_. *)
WriteBuffer == WriteToBuffer(last)

Deactivate ==
  /\ life = "active" /\ upc = "idle" /\ build # "ros1"
  /\ last' = IF build = "group" THEN All(Default) ELSE last
  /\ life' = "deactivating"
  /\ UNCHANGED <<quiet, switches, hold, settled, urdf, buffer>>

EmptyBuffer ==
  /\ life = "deactivating" /\ cpc # "write"
  /\ buffer' = All(Default)
  /\ life' = IF build = "group" THEN "emptying" ELSE "inactive"
  /\ UNCHANGED <<quiet, switches, hold, settled, urdf, last>>

RefillBuffer ==
  /\ life = "emptying" /\ cpc # "write"
  /\ buffer' = last
  /\ life' = "inactive"
  /\ UNCHANGED <<quiet, switches, hold, settled, urdf, last>>

(* stopping does nothing. *)
Stop ==
  /\ life = "active" /\ upc = "idle" /\ build = "ros1"
  /\ life' = "inactive"
  /\ UNCHANGED <<quiet, switches, hold, settled, urdf, last, buffer>>

-----------------------------------------------------------------------------
(***************************************************************************)
(* SetCommandCallback, on the executor: last_command_ = *msg, then         *)
(* writeFromNonRT(last_command_).                                          *)
(***************************************************************************)

still == <<nodeVars, updateVars, lifeVars, urdf, pos>>
Subscribed == life \notin {"unconfigured", "joints", "service"}

Take ==
  /\ Subscribed /\ cpc = "idle" /\ queue # <<>>
  /\ taken' = Head(queue) /\ queue' = Tail(queue)
  /\ cpc' = "assign" /\ cjoint' = 1
  /\ UNCHANGED <<still, copy, last, buffer>>

(* The next joint, or after the last one on to pc. *)
NextJoint(joint, pc, c, d) ==
  \/ joint < LastJoint /\ joint' = joint + 1 /\ pc' = c
  \/ joint = LastJoint /\ joint' = 1 /\ pc' = d

Assign ==
  /\ cpc = "assign"
  /\ last' = [last EXCEPT ![cjoint] = taken]
  /\ NextJoint(cjoint, cpc, "assign", "write")
  /\ UNCHANGED <<still, queue, taken, copy, buffer>>

CopyJoint(n) ==
  /\ cpc = "write"
  /\ copy' = [copy EXCEPT ![cjoint] = n]
  /\ NextJoint(cjoint, cpc, "write", "idle")
  /\ buffer' = IF cpc' = "idle" THEN copy' ELSE buffer
  /\ UNCHANGED <<still, queue, taken, last>>

(* A faulty variant: the copy is of what the joint ran.                    *)
WriteUsed == CopyJoint(used[cjoint])

Write == CopyJoint(last[cjoint])

-----------------------------------------------------------------------------
(***************************************************************************)
(* update, on the physics thread.                                          *)
(***************************************************************************)

calm == <<nodeVars, queue, callbackVars, lifeVars, urdf, buffer>>

(* last_command_ = *readFromRT(), joint by joint. *)
Update ==
  /\ life = "active" /\ upc = "idle" /\ ~crashed
  /\ upc' = "read" /\ ujoint' = 1
  /\ UNCHANGED <<calm, used, effort, crashed, last, pos>>

ReadBuffer ==
  /\ upc = "read"
  /\ last' = [last EXCEPT ![ujoint] = buffer[ujoint]]
  /\ NextJoint(ujoint, upc, "read", "run")
  /\ UNCHANGED <<calm, used, effort, crashed, pos>>

Clamp(v, lo, hi) == IF v < lo THEN lo ELSE IF v > hi THEN hi ELSE v

(* std::clamp's result is discarded; ROS 1 has a clamp of its own.         *)
Limit(v) == IF build = "ros1" THEN Clamp(v, -EffortMax, EffortMax) ELSE v

Said(n, j) ==
  CASE n = Default -> [q |-> 0, kp |-> 0, tau |-> 0]
    [] n = Hold    -> [q |-> hold.q[j], kp |-> hold.kp, tau |-> 0]
    [] OTHER       -> Commands[n]

(* The velocity terms are left out: they add to the effort as tau does.    *)
CalcTorque(c, at) ==
  Limit((IF c.q = PosStop THEN 0 ELSE c.kp * (Limit(c.q) - at)) + Limit(c.tau))

(* UpdateFunc for one joint, found at p; the limits are read first. *)
UpdateFunc ==
  /\ upc = "run" /\ ~crashed /\ urdf = "known"
  /\ \E p \in Positions :
       /\ pos' = [pos EXCEPT ![ujoint] = p]
       /\ effort' = [effort EXCEPT ![ujoint] = CalcTorque(Said(last[ujoint], ujoint), p)]
  /\ used' = [used EXCEPT ![ujoint] = last[ujoint]]
  /\ NextJoint(ujoint, upc, "run", "idle")
  /\ UNCHANGED <<calm, crashed, last>>

(* joints_urdf_ has no such joint, or is null. *)
UpdateFuncNoUrdf ==
  /\ upc = "run" /\ ~crashed /\ urdf # "known"
  /\ crashed' = TRUE
  /\ UNCHANGED <<calm, upc, ujoint, used, effort, last, pos>>

Callback == Take \/ Assign \/ Write
Physics == Update \/ ReadBuffer \/ UpdateFunc \/ UpdateFuncNoUrdf
Lifecycle == Configure \/ GetJoints \/ AskUrdf \/ Activate \/ ClearBuffer \/ WriteBuffer
Boot == GetParameters \/ StartJointController

Next ==
  \/ Boot \/ SpawnerFails \/ SetCommand
  \/ Lifecycle \/ UrdfAnswer \/ Deactivate \/ EmptyBuffer \/ RefillBuffer \/ Stop
  \/ Callback \/ Physics

Spec == Init /\ [][Next]_vars

(* Each thread goes on, and the answer comes. *)
FairSpec == Spec /\ WF_vars(Boot) /\ WF_vars(Lifecycle) /\ WF_vars(UrdfAnswer)
                 /\ WF_vars(Callback) /\ WF_vars(Physics)

-----------------------------------------------------------------------------
(***************************************************************************)
(* Properties.                                                             *)
(***************************************************************************)

(* No command is published before the controller was active: the loops    *)
(* start after the spawner has ended.                                      *)
CommandNeedsController == sent > 0 => switches > 0 /\ Subscribed

(* A command whose callback returned before the controller was activated   *)
(* is never run after it, though last_command_ has two writers.            *)
NoStaleCommand ==
  life = "active" => \A j \in Joints : buffer[j] \in {Hold, Default} \/ buffer[j] > settled

(* update may undo a callback's assignment and so lose a command, but the  *)
(* buffer of an active controller never goes back to an older one.         *)
BufferForward ==
  [][life = "active" /\ life' = life => \A j \in Joints : buffer'[j] >= buffer[j]]_vars

(* A joint that has run a command while active runs no older one: false of *)
(* the group, where an assignment in the middle of UpdateFunc is undone.   *)
JointForward ==
  [][life = "active" /\ life' = life => \A j \in Joints : used'[j] >= used[j] \/ used'[j] = Hold]_vars

(* ROS 1's controller applies no effort beyond the joint's limit.          *)
EffortBounded == build = "ros1" => \A j \in Joints : effort[j] \in -EffortMax..EffortMax

(* The same of every build: EffortLimit's name says so.                    *)
EffortLimited == \A j \in Joints : effort[j] \in -EffortMax..EffortMax

(* When the urdf is answered before the activation, only "single" reads    *)
(* limits it does not have.                                                *)
LimitsKnown == crashed => build = "single" \/ ~AnswerFirst

(* The limits are there when update needs them, in the build the node uses. *)
GroupHasLimits == crashed => build = "single"

(* The node starts publishing, or its constructor throws.                  *)
NodeStarts == <>(boot \in {"loops", "failed"})

(* A published command does not stay in the middleware for ever.           *)
CommandsTaken == \A n \in 1..Len(Commands) : sent >= n ~> \A i \in 1..Len(queue) : queue[i] > n
=============================================================================
