----------------------- MODULE JointControllerProofs -----------------------
(***************************************************************************)
(* What the lifecycle, the callback and update leave in last_command_ and  *)
(* in the buffer, proved for any number of joints, commands and            *)
(* activations and for any depth of the middleware's history.              *)
(***************************************************************************)
EXTENDS JointController, TLAPS

(* Each thread is at a joint it has; update runs while active; the loops   *)
(* start after an activation; the urdf is asked for by on_configure.       *)
StepInv ==
  /\ cjoint \in Joints /\ ujoint \in Joints
  /\ upc # "idle" => life = "active"
  /\ cpc # "idle" => taken > 0
  /\ life \notin {"unconfigured", "joints", "service", "inactive"} => switches > 0
  /\ switches > 0 => Subscribed
  /\ boot = "loops" => switches > 0
  /\ sent > 0 => boot = "loops"

UrdfInv ==
  /\ urdf = "missing" => build = "single"
  /\ Subscribed => urdf # "none"
  /\ AnswerFirst /\ switches > 0 => urdf # "asked"

(* Commands are taken in the order they were published, and nothing holds  *)
(* one that was not taken yet.                                             *)
OrderInv ==
  /\ \A i \in 1..Len(queue) : queue[i] > taken
  /\ \A i, k \in 1..Len(queue) : i < k => queue[i] < queue[k]
  /\ \A j \in 1..NumJoints : last[j] <= taken /\ buffer[j] <= taken /\ copy[j] <= taken

(* From an activation on, what may still reach the buffer is fresh: no     *)
(* command that was settled at the activation.                             *)
Fresh(n) == n \in {Hold, Default} \/ n > settled
Started == life \in {"activating", "clearing", "active"}

FreshInv ==
  Started =>
    /\ IF cpc = "idle" THEN taken >= settled ELSE taken > settled
    /\ \A j \in Joints : Fresh(last[j])
    /\ cpc = "write" => \A j \in Joints : j < cjoint => Fresh(copy[j])
    /\ life = "active" => \A j \in Joints : Fresh(buffer[j])

(* Until then, a callback that is half way through the group's joints has  *)
(* met nothing but the command it took and what the lifecycle puts there.  *)
New(n) == n \in {Hold, Default, taken}

HalfwayInv ==
  build = "group" =>
    /\ life # "active" => \A j \in Joints :
         cpc = "write" \/ (cpc = "assign" /\ j < cjoint) => New(last[j])
    /\ life \notin {"active", "deactivating"} => \A j \in Joints :
         cpc = "write" /\ j < cjoint => New(copy[j])

(* While the controller is active, what a callback is about to write is no *)
(* older than the buffer, joint by joint.                                  *)
ForwardInv ==
  life = "active" => \A j \in Joints :
    /\ cpc = "write" \/ (cpc = "assign" /\ j < cjoint) => last[j] >= buffer[j]
    /\ cpc = "write" /\ j < cjoint => copy[j] >= buffer[j]

IInv ==
  /\ TypeOK /\ StepInv /\ UrdfInv /\ OrderInv /\ FreshInv /\ HalfwayInv /\ ForwardInv
  /\ EffortBounded /\ LimitsKnown

(* The type invariant in parts. *)
StepOK ==
  /\ build \in Builds /\ boot \in {"params", "spawn", "loops", "failed"}
  /\ life \in {"unconfigured", "joints", "service", "inactive", "activating", "clearing",
               "active", "deactivating", "emptying"}
  /\ urdf \in {"none", "asked", "known", "missing"}
  /\ switches \in 0..MaxSwitches
  /\ cpc \in {"idle", "assign", "write"} /\ upc \in {"idle", "read", "run"}
  /\ cjoint \in 1..NumJoints /\ ujoint \in 1..NumJoints
  /\ crashed \in BOOLEAN

QueueOK ==
  /\ sent \in 0..Len(Commands) /\ taken \in 0..sent /\ settled \in 0..sent
  /\ queue \in Seq(1..sent) /\ Len(queue) <= QueueDepth

NumberOK ==
  /\ last \in [1..NumJoints -> Numbers] /\ buffer \in [1..NumJoints -> Numbers]
  /\ copy \in [1..NumJoints -> Numbers] /\ used \in [1..NumJoints -> Numbers]

PlaceOK ==
  /\ pos \in [1..NumJoints -> Positions]
  /\ hold.q \in [1..NumJoints -> Positions] /\ hold.kp \in Nat
  /\ effort \in [1..NumJoints -> Int]

-----------------------------------------------------------------------------
LEMMA CommandType ==
  ASSUME NEW n \in 1..Len(Commands)
  PROVE  Commands[n] \in [q : Int, kp : Nat, tau : Int]
<1> DEFINE Command == [q : Int, kp : Nat, tau : Int]
<1>1. Commands \in Seq(Command)
  BY JointAssumption
<1> HIDE DEF Command
<1>2. Commands[n] \in Command
  BY <1>1
<1> QED
  BY <1>2 DEF Command

(* What is said of a command, and the effort that follows, are numbers.    *)
LEMMA SaidType ==
  ASSUME TypeOK, NEW n \in Numbers, NEW j \in 1..NumJoints
  PROVE  Said(n, j) \in [q : Int, kp : Nat, tau : Int]
<1>1. CASE n = Default
  <2>1. Said(n, j) = [q |-> 0, kp |-> 0, tau |-> 0]
    BY <1>1 DEF Said, Hold, Default
  <2> QED
    BY <2>1
<1>2. CASE n = Hold
  <2>1. hold.q[j] \in Int /\ hold.kp \in Nat
    BY JointAssumption DEF TypeOK
  <2>2. Said(n, j) = [q |-> hold.q[j], kp |-> hold.kp, tau |-> 0]
    BY <1>2 DEF Said, Hold, Default
  <2> QED
    BY <2>1, <2>2
<1>3. CASE n \in 1..Len(Commands)
  <2>1. Commands[n] \in [q : Int, kp : Nat, tau : Int]
    BY <1>3, CommandType
  <2>2. n # Default /\ n # Hold
    BY <1>3, JointAssumption DEF Hold, Default
  <2> QED
    BY <2>1, <2>2, Zenon DEF Said
<1> QED
  BY <1>1, <1>2, <1>3, JointAssumption DEF Numbers, Hold, Default

LEMMA EffortType ==
  ASSUME NEW c \in [q : Int, kp : Nat, tau : Int], NEW p \in Int
  PROVE  /\ CalcTorque(c, p) \in Int
         /\ build = "ros1" => CalcTorque(c, p) \in -EffortMax..EffortMax
<1>1. ASSUME NEW v \in Int
      PROVE  /\ Limit(v) \in Int
             /\ build = "ros1" => Limit(v) \in -EffortMax..EffortMax
  BY JointAssumption DEF Limit, Clamp
<1>2. c.q \in Int /\ c.kp \in Int /\ c.tau \in Int
  OBVIOUS
<1> DEFINE part == IF c.q = PosStop THEN 0 ELSE c.kp * (Limit(c.q) - p)
<1>3. part \in Int
  <2>1. Limit(c.q) - p \in Int
    BY <1>1, <1>2
  <2>2. \A a, b \in Int : a * b \in Int
    OBVIOUS
  <2> QED
    BY <1>2, <2>1, <2>2
<1> HIDE DEF part
<1>4. part + Limit(c.tau) \in Int
  BY <1>1, <1>2, <1>3
<1>5. CalcTorque(c, p) = Limit(part + Limit(c.tau))
  BY DEF CalcTorque, part
<1> QED
  BY <1>1, <1>4, <1>5

LEMMA TypeParts == TypeOK <=> StepOK /\ QueueOK /\ NumberOK /\ PlaceOK
BY Zenon DEF TypeOK, StepOK, QueueOK, NumberOK, PlaceOK

(* Every step keeps where the threads are among their values. *)
LEMMA StepOKStep ==
  ASSUME StepOK, StepInv, [Next]_vars
  PROVE  StepOK'
<1> USE JointAssumption DEF StepOK, Joints, LastJoint, nodeVars, callbackVars, updateVars,
        lifeVars, quiet, still, calm
<1>1. CASE Boot \/ SpawnerFails \/ SetCommand \/ UNCHANGED vars
  BY <1>1 DEF Boot, SpawnerFails, GetParameters, StartJointController, SpawnerDone, SetCommand,
              vars
<1>2. CASE Lifecycle \/ UrdfAnswer
  BY <1>2 DEF Lifecycle, Configure, GetJoints, AskUrdf, UrdfAnswer, Activate, ClearBuffer,
              WriteBuffer, WriteToBuffer
<1>3. CASE Deactivate \/ EmptyBuffer \/ RefillBuffer \/ Stop
  BY <1>3 DEF Deactivate, EmptyBuffer, RefillBuffer, Stop
<1>4. CASE Take
  <2>1. UNCHANGED <<build, boot, life, urdf, switches, upc, ujoint, crashed>>
    BY <1>4 DEF Take
  <2>2. cpc' = "assign" /\ cjoint' = 1
    BY <1>4 DEF Take
  <2> QED
    BY <2>1, <2>2
<1>5. CASE Assign \/ Write
  <2>1. cjoint' \in 1..NumJoints /\ cpc' \in {"idle", "assign", "write"}
    BY <1>5 DEF Assign, Write, CopyJoint, NextJoint, StepInv
  <2> QED
    BY <1>5, <2>1 DEF Assign, Write, CopyJoint
<1>6. CASE Update \/ UpdateFuncNoUrdf
  <2>1. UNCHANGED <<build, boot, life, urdf, switches, cpc, cjoint>>
    BY <1>6 DEF Update, UpdateFuncNoUrdf
  <2>2. upc' \in {upc, "read"} /\ ujoint' \in {ujoint, 1}
    BY <1>6 DEF Update, UpdateFuncNoUrdf
  <2>3. crashed' \in BOOLEAN
    BY <1>6, Zenon DEF Update, UpdateFuncNoUrdf
  <2> QED
    BY <2>1, <2>2, <2>3
<1>7. CASE ReadBuffer \/ UpdateFunc
  <2>1. ujoint' \in 1..NumJoints /\ upc' \in {"idle", "read", "run"}
    BY <1>7 DEF ReadBuffer, UpdateFunc, NextJoint, StepInv
  <2>2. UNCHANGED <<build, boot, life, urdf, switches, cpc, cjoint, crashed>>
    BY <1>7 DEF ReadBuffer, UpdateFunc
  <2> QED
    BY <2>1, <2>2
<1> QED
  BY <1>1, <1>2, <1>3, <1>4, <1>5, <1>6, <1>7 DEF Next, Callback, Physics

(* The elements of a tail.                                                 *)
LEMMA TailElements ==
  ASSUME NEW S, NEW h \in Seq(S), h # <<>>
  PROVE  /\ Tail(h) \in Seq(S) /\ Len(Tail(h)) = Len(h) - 1
         /\ Head(h) = h[1] /\ Head(h) \in S /\ 1 \in 1..Len(h)
         /\ \A i \in 1..Len(Tail(h)) : Tail(h)[i] = h[i + 1] /\ i + 1 \in 1..Len(h)
  OBVIOUS

(* A history that forgets its oldest element, if it must, for one more.    *)
LEMMA HistoryType ==
  ASSUME NEW S, NEW T, S \subseteq T, NEW h \in Seq(S), NEW e \in T,
         NEW depth \in Nat \ {0}, Len(h) <= depth
  PROVE  LET new == Append(IF Len(h) = depth THEN Tail(h) ELSE h, e)
         IN  new \in Seq(T) /\ Len(new) <= depth
<1>1. h \in Seq(T)
  OBVIOUS
<1>2. CASE Len(h) = depth
  <2>1. Tail(h) \in Seq(T) /\ Len(Tail(h)) = depth - 1
    BY <1>1, <1>2
  <2> QED
    BY <1>2, <2>1
<1>3. CASE Len(h) # depth
  BY <1>1, <1>3
<1> QED
  BY <1>2, <1>3

(* Every step keeps the numbers published, waiting, taken and settled.     *)
LEMMA QueueOKStep ==
  ASSUME QueueOK, StepInv, [Next]_vars
  PROVE  QueueOK'
<1> USE DEF QueueOK, nodeVars, callbackVars, updateVars, lifeVars, quiet, still, calm
<1>0. QueueDepth \in Nat \ {0} /\ Len(Commands) \in Nat
  BY JointAssumption
<1>1. CASE SetCommand
  <2>1. /\ sent' = sent + 1 /\ sent' \in 0..Len(Commands)
        /\ queue' = Append(IF Len(queue) = QueueDepth THEN Tail(queue) ELSE queue, sent')
        /\ taken' = taken /\ settled' = settled
    BY <1>0, <1>1 DEF SetCommand
  <2>2. 1..sent \subseteq 1..sent' /\ sent' \in 1..sent'
    BY <2>1
  <2>3. queue' \in Seq(1..sent') /\ Len(queue') <= QueueDepth
    BY <1>0, <2>1, <2>2, HistoryType
  <2> QED
    BY <2>1, <2>3
<1>2. CASE Activate
  BY <1>2 DEF Activate, StepInv
<1>3. CASE Take
  <2>1. /\ taken' = Head(queue) /\ queue' = Tail(queue) /\ queue # <<>>
        /\ sent' = sent /\ settled' = settled
    BY <1>3 DEF Take
  <2>2. taken' \in 1..sent /\ queue' \in Seq(1..sent) /\ Len(queue') = Len(queue) - 1
    BY <2>1, TailElements
  <2>3. queue' \in Seq(1..sent') /\ Len(queue') <= QueueDepth
    BY <1>0, <2>1, <2>2
  <2>4. sent' \in 0..Len(Commands) /\ taken' \in 0..sent' /\ settled' \in 0..sent'
    BY <1>0, <2>1, <2>2
  <2> QED
    BY <2>3, <2>4
<1>4. ASSUME UNCHANGED <<sent, queue, taken, settled>>
      PROVE  QueueOK'
  BY <1>4
<1> QED
  BY <1>1, <1>2, <1>3, <1>4
     DEF vars, Next, Boot, GetParameters, StartJointController, SpawnerDone, SpawnerFails,
         Lifecycle, Configure, GetJoints, AskUrdf, UrdfAnswer, ClearBuffer, WriteBuffer,
         WriteToBuffer, Deactivate, EmptyBuffer, RefillBuffer, Stop, Callback, Assign, Write,
         CopyJoint, Physics, Update, ReadBuffer, UpdateFunc, UpdateFuncNoUrdf

(* What the callback and update compute with are commands or made up.      *)
LEMMA NumberOKStep ==
  ASSUME NumberOK, QueueOK, StepOK, [Next]_vars
  PROVE  NumberOK'
<1> USE JointAssumption DEF NumberOK, nodeVars, callbackVars, updateVars, lifeVars, quiet, still, calm
<1>1. Hold \in Numbers /\ Default \in Numbers /\ taken \in Numbers
  BY DEF QueueOK, Numbers, Hold, Default
<1>2. \A n \in Numbers : All(n) \in [1..NumJoints -> Numbers]
  BY DEF All
<1>3. cjoint \in 1..NumJoints /\ ujoint \in 1..NumJoints
  BY DEF StepOK
<1> HIDE DEF NumberOK
<1>4. ASSUME UNCHANGED <<last, buffer, copy, used>>
      PROVE  NumberOK'
  BY <1>4 DEF NumberOK
<1>5. CASE Activate \/ ClearBuffer \/ WriteBuffer \/ Deactivate \/ EmptyBuffer \/ RefillBuffer
  BY <1>1, <1>2, <1>5 DEF Activate, ClearBuffer, WriteBuffer, WriteToBuffer, Deactivate,
                          EmptyBuffer, RefillBuffer, NumberOK
<1>6. CASE Assign
  BY <1>1, <1>3, <1>6 DEF Assign, NumberOK
<1>7. CASE Write
  BY <1>3, <1>7 DEF Write, CopyJoint, NumberOK
<1>8. CASE ReadBuffer
  BY <1>3, <1>8 DEF ReadBuffer, NumberOK
<1>9. CASE UpdateFunc
  BY <1>3, <1>9 DEF UpdateFunc, NumberOK
<1> QED
  BY <1>4, <1>5, <1>6, <1>7, <1>8, <1>9
     DEF vars, Next, Boot, GetParameters, StartJointController, SpawnerDone, SpawnerFails,
         SetCommand, Lifecycle, Configure, GetJoints, AskUrdf, UrdfAnswer, Stop, Callback, Take,
         Physics, Update, UpdateFuncNoUrdf

(* A joint is found at a position, held at one, and given a number, which  *)
(* ROS 1 has clamped.                                                      *)
LEMMA PlaceOKStep ==
  ASSUME TypeOK, StepInv, EffortBounded, [Next]_vars
  PROVE  PlaceOK' /\ EffortBounded'
<1> USE DEF nodeVars, callbackVars, updateVars, lifeVars, quiet, still, calm
<1>1. StepOK /\ NumberOK /\ PlaceOK /\ build' = build
  <2>1. StepOK /\ NumberOK /\ PlaceOK
    BY TypeParts
  <2>2. build' = build
    BY DEF vars, Next, Boot, GetParameters, StartJointController, SpawnerDone, SpawnerFails,
         SetCommand, Lifecycle, Configure, GetJoints, AskUrdf, UrdfAnswer, Activate, ClearBuffer,
         WriteBuffer, WriteToBuffer, Deactivate, EmptyBuffer, RefillBuffer, Stop, Callback, Take,
         Assign, Write, CopyJoint, Physics, Update, ReadBuffer, UpdateFunc, UpdateFuncNoUrdf
  <2> QED
    BY <2>1, <2>2
<1>2. ASSUME UNCHANGED <<pos, hold, effort>>
      PROVE  PlaceOK' /\ EffortBounded'
  BY <1>1, <1>2 DEF PlaceOK, EffortBounded, Joints, LastJoint
<1>3. CASE Activate
  <2>1. UNCHANGED <<pos, effort>>
    BY <1>3 DEF Activate
  <2>2. hold'.q = pos /\ hold'.kp \in Nat
    <3>1. last[1] > 0 => Commands[last[1]].kp \in Nat
      <4>1. last[1] \in Numbers
        BY <1>1, JointAssumption DEF NumberOK
      <4>2. ASSUME last[1] > 0 PROVE Commands[last[1]] \in [q : Int, kp : Nat, tau : Int]
        <5>1. last[1] \in 1..Len(Commands)
          BY <4>1, <4>2, JointAssumption DEF Numbers, Default
        <5> QED
          BY <5>1, CommandType
      <4> QED
        BY <4>2
    <3>2. hold.kp \in Nat
      BY <1>1 DEF PlaceOK
    <3> QED
      BY <1>3, <3>1, <3>2 DEF Activate
  <2> QED
    BY <1>1, <2>1, <2>2 DEF PlaceOK, EffortBounded, Joints, LastJoint
<1>4. CASE UpdateFunc
  <2>1. ujoint \in 1..NumJoints /\ last[ujoint] \in Numbers
    BY <1>1 DEF StepOK, NumberOK
  <2>2. PICK p \in Positions :
          /\ pos' = [pos EXCEPT ![ujoint] = p]
          /\ effort' = [effort EXCEPT ![ujoint] = CalcTorque(Said(last[ujoint], ujoint), p)]
    BY <1>4 DEF UpdateFunc
  <2>3. hold' = hold
    BY <1>4 DEF UpdateFunc
  <2> DEFINE torque == CalcTorque(Said(last[ujoint], ujoint), p)
  <2>4. torque \in Int /\ (build = "ros1" => torque \in -EffortMax..EffortMax)
    BY <2>1, SaidType, EffortType, JointAssumption
  <2> HIDE DEF torque
  <2>5. effort' = [effort EXCEPT ![ujoint] = torque]
    BY <2>2 DEF torque
  <2>6. PlaceOK'
    BY <1>1, <2>2, <2>3, <2>4, <2>5 DEF PlaceOK
  <2>7. EffortBounded'
    <3> SUFFICES ASSUME build = "ros1", NEW j \in Joints
                 PROVE  effort'[j] \in -EffortMax..EffortMax
      BY <1>1 DEF EffortBounded, Joints, LastJoint
    <3>1. j \in DOMAIN effort
      BY <1>1, JointAssumption DEF PlaceOK, Joints, LastJoint
    <3> QED
      BY <2>4, <2>5, <3>1 DEF EffortBounded
  <2> QED
    BY <2>6, <2>7
<1> QED
  BY <1>2, <1>3, <1>4
     DEF vars, Next, Boot, GetParameters, StartJointController, SpawnerDone, SpawnerFails,
         SetCommand, Lifecycle, Configure, GetJoints, AskUrdf, UrdfAnswer, ClearBuffer,
         WriteBuffer, WriteToBuffer, Deactivate, EmptyBuffer, RefillBuffer, Stop, Callback, Take,
         Assign, Write, CopyJoint, Physics, Update, ReadBuffer, UpdateFuncNoUrdf

(* Where a thread goes on, and from which activation on.                   *)
LEMMA StepInvStep ==
  ASSUME TypeOK, StepInv, [Next]_vars
  PROVE  StepInv'
<1> USE DEF StepInv, Joints, LastJoint, Subscribed, nodeVars, callbackVars, updateVars, lifeVars,
        quiet, still, calm
<1>1. StepOK /\ QueueOK
  BY TypeParts
<1> USE JointAssumption
<1>2. CASE Boot \/ SpawnerFails \/ SetCommand \/ UNCHANGED vars
  <2>1. UNCHANGED <<build, cpc, cjoint, taken, upc, ujoint, life, switches>>
    BY <1>2 DEF Boot, SpawnerFails, GetParameters, StartJointController, SpawnerDone, SetCommand,
                vars
  <2>2. /\ boot' = "loops" => boot = "loops" \/ switches > 0
        /\ boot = "loops" => boot' = "loops"
        /\ sent' = sent \/ boot = "loops"
    <3>1. switches \in Nat
      BY <1>1 DEF StepOK
    <3> QED
      BY <1>2, <3>1 DEF Boot, SpawnerFails, GetParameters, StartJointController, SpawnerDone,
                        Activated, SetCommand, vars
  <2> QED
    BY <2>1, <2>2
<1>3. CASE Lifecycle \/ UrdfAnswer
  BY <1>1, <1>3 DEF Lifecycle, Configure, GetJoints, AskUrdf, UrdfAnswer, Activate, ClearBuffer,
                    WriteBuffer, WriteToBuffer, StepOK
<1>4. CASE Deactivate \/ EmptyBuffer \/ RefillBuffer \/ Stop
  BY <1>4 DEF Deactivate, EmptyBuffer, RefillBuffer, Stop
<1>5. CASE Take
  <2>1. UNCHANGED <<build, boot, sent, upc, ujoint, life, switches>>
    BY <1>5 DEF Take
  <2>2. cpc' = "assign" /\ cjoint' = 1 /\ taken' = Head(queue) /\ queue # <<>>
    BY <1>5 DEF Take
  <2>3. taken' > 0
    <3>1. queue \in Seq(1..sent) /\ sent \in Nat
      BY <1>1 DEF QueueOK
    <3>2. taken' \in 1..sent
      BY <2>2, <3>1, TailElements
    <3> QED
      BY <3>1, <3>2
  <2> QED
    BY <2>1, <2>2, <2>3
<1>6. CASE Assign \/ Write
  <2>1. cjoint' \in Joints
    BY <1>6 DEF Assign, Write, CopyJoint, NextJoint
  <2>2. UNCHANGED <<nodeVars, taken, upc, ujoint, lifeVars>> /\ cpc # "idle"
    BY <1>6 DEF Assign, Write, CopyJoint
  <2> QED
    BY <2>1, <2>2
<1>7. CASE Physics
  <2>1. ujoint' \in Joints
    <3>1. CASE ReadBuffer \/ UpdateFunc
      BY <3>1 DEF ReadBuffer, UpdateFunc, NextJoint
    <3>2. CASE Update \/ UpdateFuncNoUrdf
      BY <3>2 DEF Update, UpdateFuncNoUrdf
    <3> QED
      BY <1>7, <3>1, <3>2 DEF Physics
  <2>2. UNCHANGED <<nodeVars, cpc, cjoint, taken, lifeVars>> /\ life = "active"
    BY <1>7 DEF Physics, Update, ReadBuffer, UpdateFunc, UpdateFuncNoUrdf
  <2> QED
    BY <2>1, <2>2
<1> QED
  BY <1>2, <1>3, <1>4, <1>5, <1>6, <1>7 DEF Next, Callback

(* The urdf is asked for by on_configure and answered once.                *)
LEMMA UrdfInvStep ==
  ASSUME TypeOK, StepInv, UrdfInv, LimitsKnown, [Next]_vars
  PROVE  UrdfInv' /\ LimitsKnown'
<1> USE DEF UrdfInv, LimitsKnown, Subscribed, nodeVars, callbackVars, updateVars, lifeVars, quiet,
        still, calm
<1>1. StepOK
  BY TypeParts
<1>2. CASE Lifecycle \/ UrdfAnswer
  BY <1>1, <1>2 DEF Lifecycle, Configure, GetJoints, AskUrdf, UrdfAnswer, Activate, ClearBuffer,
                    WriteBuffer, WriteToBuffer, StepOK, StepInv
<1>3. CASE Deactivate \/ EmptyBuffer \/ RefillBuffer \/ Stop
  BY <1>3 DEF Deactivate, EmptyBuffer, RefillBuffer, Stop
<1>4. CASE UpdateFuncNoUrdf
  BY <1>1, <1>4 DEF UpdateFuncNoUrdf, StepInv, StepOK
<1>5. ASSUME UNCHANGED <<build, urdf, switches, life, crashed>>
      PROVE  UrdfInv' /\ LimitsKnown'
  BY <1>5
<1> QED
  BY <1>2, <1>3, <1>4, <1>5
     DEF vars, Next, Boot, GetParameters, StartJointController, SpawnerDone, SpawnerFails,
         SetCommand, Callback, Take, Assign, Write, CopyJoint, Physics, Update, ReadBuffer,
         UpdateFunc

-----------------------------------------------------------------------------

(* The elements of a sequence with one more, and the order in a tail.      *)
LEMMA AppendElements ==
  ASSUME NEW S, NEW h \in Seq(S), NEW e
  PROVE  /\ Len(Append(h, e)) = Len(h) + 1
         /\ \A i \in 1..Len(Append(h, e)) :
              Append(h, e)[i] = IF i <= Len(h) THEN h[i] ELSE e
  OBVIOUS

LEMMA TailOrder ==
  ASSUME NEW h \in Seq(Nat), h # <<>>,
         \A i, k \in 1..Len(h) : i < k => h[i] < h[k]
  PROVE  /\ \A i \in 1..Len(Tail(h)) : \E k \in 1..Len(h) : Tail(h)[i] = h[k] /\ Head(h) < h[k]
         /\ \A i, k \in 1..Len(Tail(h)) : i < k => Tail(h)[i] < Tail(h)[k]
<1>1. ASSUME NEW i \in 1..Len(Tail(h))
      PROVE  \E k \in 1..Len(h) : Tail(h)[i] = h[k] /\ Head(h) < h[k]
  <2>1. Tail(h)[i] = h[i + 1] /\ i + 1 \in 1..Len(h) /\ 1 < i + 1
    BY TailElements
  <2>2. Head(h) = h[1] /\ 1 \in 1..Len(h)
    BY TailElements
  <2> QED
    BY <2>1, <2>2
<1>2. ASSUME NEW i \in 1..Len(Tail(h)), NEW k \in 1..Len(Tail(h)), i < k
      PROVE  Tail(h)[i] < Tail(h)[k]
  <2>1. Tail(h)[i] = h[i + 1] /\ i + 1 \in 1..Len(h)
    BY TailElements
  <2>2. Tail(h)[k] = h[k + 1] /\ k + 1 \in 1..Len(h) /\ i + 1 < k + 1
    BY <1>2, TailElements
  <2> QED
    BY <2>1, <2>2
<1> QED
  BY <1>1, <1>2

(* Commands are published with growing numbers and taken from the front.   *)
LEMMA QueueOrder ==
  ASSUME QueueOK, OrderInv, [Next]_vars
  PROVE  /\ \A i \in 1..Len(queue') : queue'[i] > taken'
         /\ \A i, k \in 1..Len(queue') : i < k => queue'[i] < queue'[k]
         /\ taken' >= taken
<1> USE DEF nodeVars, callbackVars, updateVars, lifeVars, quiet, still, calm
<1>0. /\ queue \in Seq(Nat) /\ sent \in Nat /\ taken \in Nat /\ QueueDepth \in Nat \ {0}
      /\ \A i \in 1..Len(queue) : queue[i] <= sent /\ queue[i] > taken
      /\ \A i, k \in 1..Len(queue) : i < k => queue[i] < queue[k]
      /\ taken <= sent
  <2>1. QueueDepth \in Nat \ {0} /\ Len(Commands) \in Nat
    BY JointAssumption
  <2>2. queue \in Seq(1..sent) /\ sent \in Nat /\ taken \in Nat /\ taken <= sent
    BY <2>1 DEF QueueOK
  <2>3. \A i \in 1..Len(queue) : queue[i] \in 1..sent
    BY <2>2
  <2>4. queue \in Seq(Nat)
    BY <2>2
  <2> QED
    BY <2>1, <2>2, <2>3, <2>4 DEF OrderInv
<1>1. CASE SetCommand
  <2> DEFINE kept == IF Len(queue) = QueueDepth THEN Tail(queue) ELSE queue
  <2>1. queue' = Append(kept, sent + 1) /\ taken' = taken
    BY <1>1 DEF SetCommand
  <2>2. /\ kept \in Seq(Nat)
        /\ \A i \in 1..Len(kept) : kept[i] > taken /\ kept[i] < sent + 1
        /\ \A i, k \in 1..Len(kept) : i < k => kept[i] < kept[k]
    <3>1. CASE Len(queue) = QueueDepth
      <4>1. kept = Tail(queue) /\ queue # <<>>
        BY <1>0, <3>1
      <4> HIDE DEF kept
      <4>2. /\ kept \in Seq(Nat)
            /\ \A i \in 1..Len(kept) : \E k \in 1..Len(queue) : kept[i] = queue[k]
            /\ \A i, k \in 1..Len(kept) : i < k => kept[i] < kept[k]
        BY <1>0, <4>1, TailElements, TailOrder
      <4> QED
        BY <1>0, <4>2
    <3>2. CASE Len(queue) # QueueDepth
      BY <1>0, <3>2
    <3> QED
      BY <3>1, <3>2
  <2> HIDE DEF kept
  <2>3. /\ Len(queue') = Len(kept) + 1
        /\ \A i \in 1..Len(queue') : queue'[i] = IF i <= Len(kept) THEN kept[i] ELSE sent + 1
    BY <2>1, <2>2, AppendElements
  <2> QED
    BY <1>0, <2>1, <2>2, <2>3
<1>2. CASE Take
  <2>1. taken' = Head(queue) /\ queue' = Tail(queue) /\ queue # <<>>
    BY <1>2 DEF Take
  <2>2. taken' = queue[1] /\ 1 \in 1..Len(queue)
    BY <1>0, <2>1, TailElements
  <2>3. taken' >= taken
    BY <1>0, <2>2
  <2>4. /\ \A i \in 1..Len(queue') : queue'[i] > taken'
        /\ \A i, k \in 1..Len(queue') : i < k => queue'[i] < queue'[k]
    BY <1>0, <2>1, <2>2, TailOrder
  <2> QED
    BY <2>3, <2>4
<1>3. ASSUME UNCHANGED <<queue, taken>>
      PROVE  /\ \A i \in 1..Len(queue') : queue'[i] > taken'
             /\ \A i, k \in 1..Len(queue') : i < k => queue'[i] < queue'[k]
             /\ taken' >= taken
  BY <1>0, <1>3
<1> QED
  BY <1>1, <1>2, <1>3
     DEF vars, Next, Boot, GetParameters, StartJointController, SpawnerDone, SpawnerFails,
         Lifecycle, Configure, GetJoints, AskUrdf, UrdfAnswer, Activate, ClearBuffer,
         WriteBuffer, WriteToBuffer, Deactivate, EmptyBuffer, RefillBuffer, Stop, Callback,
         Assign, Write, CopyJoint, Physics, Update, ReadBuffer, UpdateFunc, UpdateFuncNoUrdf

(* Only the command taken last is assigned; the rest is copied.            *)
LEMMA OrderInvStep ==
  ASSUME TypeOK, OrderInv, [Next]_vars
  PROVE  OrderInv'
<1> USE DEF nodeVars, callbackVars, updateVars, lifeVars, quiet, still, calm
<1>1. StepOK /\ QueueOK /\ NumberOK
  BY TypeParts
<1>2. taken \in Nat /\ taken' >= taken
  BY <1>1, QueueOrder DEF QueueOK
<1>3. taken' \in Nat
  <2>1. CASE Take
    BY <1>1, <2>1, TailElements DEF Take, QueueOK
  <2>2. CASE taken' = taken
    BY <1>2, <2>2
  <2> QED
    BY <2>1, <2>2
       DEF vars, Next, Boot, GetParameters, StartJointController, SpawnerDone, SpawnerFails,
           SetCommand, Lifecycle, Configure, GetJoints, AskUrdf, UrdfAnswer, Activate,
           ClearBuffer, WriteBuffer, WriteToBuffer, Deactivate, EmptyBuffer, RefillBuffer, Stop,
           Callback, Assign, Write, CopyJoint, Physics, Update, ReadBuffer, UpdateFunc,
           UpdateFuncNoUrdf
<1> SUFFICES ASSUME NEW j \in 1..NumJoints
             PROVE  last'[j] <= taken' /\ buffer'[j] <= taken' /\ copy'[j] <= taken'
  BY QueueOrder, <1>1 DEF OrderInv
<1>4. /\ last[j] \in Int /\ buffer[j] \in Int /\ copy[j] \in Int
      /\ last[j] <= taken /\ buffer[j] <= taken /\ copy[j] <= taken
  BY <1>1, JointAssumption DEF NumberOK, Numbers, OrderInv, Default
<1>5. All(Default)[j] <= taken /\ All(Hold)[j] <= taken
  BY <1>2 DEF All, Default, Hold
<1>6. ASSUME UNCHANGED <<last, buffer, copy>>
      PROVE  last'[j] <= taken' /\ buffer'[j] <= taken' /\ copy'[j] <= taken'
  BY <1>2, <1>3, <1>4, <1>6
<1>7. CASE Activate \/ ClearBuffer \/ WriteBuffer \/ Deactivate \/ EmptyBuffer \/ RefillBuffer
  <2>1. /\ taken' = taken /\ copy' = copy
        /\ last' \in {last, All(Hold), All(Default)} /\ buffer' \in {buffer, last, All(Default)}
    BY <1>7 DEF Activate, ClearBuffer, WriteBuffer, WriteToBuffer, Deactivate, EmptyBuffer,
                RefillBuffer
  <2> QED
    BY <1>4, <1>5, <2>1
<1>8. CASE Assign
  <2>1. taken' = taken /\ buffer' = buffer /\ copy' = copy /\ last' = [last EXCEPT ![cjoint] = taken]
    BY <1>8 DEF Assign
  <2>2. last'[j] \in {last[j], taken}
    BY <1>1, <2>1 DEF NumberOK
  <2> QED
    BY <1>2, <1>4, <2>1, <2>2
<1>9. CASE Write
  <2>1. taken' = taken /\ last' = last /\ copy' = [copy EXCEPT ![cjoint] = last[cjoint]]
        /\ buffer' \in {buffer, copy'}
    BY <1>9 DEF Write, CopyJoint
  <2>2. copy'[j] \in {copy[j], last[j]}
    BY <1>1, <2>1 DEF NumberOK
  <2> QED
    BY <1>4, <2>1, <2>2
<1>10. CASE ReadBuffer
  <2>1. taken' = taken /\ buffer' = buffer /\ copy' = copy
        /\ last' = [last EXCEPT ![ujoint] = buffer[ujoint]]
    BY <1>10 DEF ReadBuffer
  <2>2. last'[j] \in {last[j], buffer[j]}
    BY <1>1, <2>1 DEF NumberOK
  <2> QED
    BY <1>4, <2>1, <2>2
<1> QED
  BY <1>6, <1>7, <1>8, <1>9, <1>10
     DEF vars, Next, Boot, GetParameters, StartJointController, SpawnerDone, SpawnerFails,
         SetCommand, Lifecycle, Configure, GetJoints, AskUrdf, UrdfAnswer, Stop, Callback, Take,
         Physics, Update, UpdateFunc, UpdateFuncNoUrdf

(* The joints a callback has passed, before a step and after it.           *)
LEMMA FreshInvStep ==
  ASSUME TypeOK, StepInv, OrderInv, FreshInv, HalfwayInv, [Next]_vars
  PROVE  FreshInv'
<1> USE DEF nodeVars, callbackVars, updateVars, lifeVars, quiet, still, calm
<1>1. StepOK /\ QueueOK /\ NumberOK
  BY TypeParts
<1>2. /\ taken \in Nat /\ settled \in Nat /\ cjoint \in Int /\ LastJoint \in Nat \ {0}
      /\ Joints = 1..LastJoint /\ Joints \subseteq 1..NumJoints
  BY <1>1, JointAssumption DEF StepOK, QueueOK, Joints, LastJoint
<1>3. \A j \in Joints : last[j] \in Int /\ buffer[j] \in Int /\ copy[j] \in Int
  <2>1. Numbers \subseteq Int
    BY JointAssumption DEF Numbers, Default
  <2> QED
    BY <1>1, <1>2, <2>1 DEF NumberOK
<1>4. ASSUME UNCHANGED <<build, life, cpc, cjoint, taken, last, buffer, copy, settled>>
      PROVE  FreshInv'
  BY <1>4 DEF FreshInv, Started, Fresh, Joints, LastJoint
<1>5. CASE Activate
  <2>1. /\ settled' = (IF cpc = "idle" THEN taken ELSE taken - 1) /\ last' = All(Hold)
        /\ life = "inactive" /\ life' = "activating"
        /\ UNCHANGED <<build, cpc, cjoint, taken, copy, buffer>>
    BY <1>5 DEF Activate
  <2>2. \A j \in Joints : last'[j] = Hold
    BY <1>2, <2>1 DEF All
  <2>3. ASSUME cpc = "write", NEW j \in Joints, j < cjoint
        PROVE  Fresh(copy[j])'
    <3>1. build = "group"
      BY <1>2, <2>3 DEF StepInv, LastJoint, Joints
    <3>2. New(copy[j])
      BY <2>1, <2>3, <3>1 DEF HalfwayInv
    <3> QED
      BY <1>2, <2>1, <2>3, <3>2 DEF New, Fresh
  <2> QED
    BY <1>2, <2>1, <2>2, <2>3 DEF FreshInv, Fresh, Joints, LastJoint
<1>6. CASE ClearBuffer \/ WriteBuffer
  <2>1. /\ UNCHANGED <<build, cpc, cjoint, taken, last, copy, settled>> /\ Started /\ cpc # "write"
        /\ \/ buffer' = All(Default)
           \/ buffer' = last
           \/ life' # "active"
    BY <1>6, <1>1 DEF ClearBuffer, WriteBuffer, WriteToBuffer, Started, StepOK
  <2>2. life' = "active" => \A j \in Joints : Fresh(buffer'[j])
    BY <1>2, <2>1 DEF FreshInv, Fresh, All
  <2> QED
    BY <2>1, <2>2 DEF FreshInv, Fresh, Joints, LastJoint
<1>7. CASE Deactivate \/ EmptyBuffer \/ RefillBuffer \/ Stop \/ Configure \/ GetJoints \/ AskUrdf
  BY <1>7 DEF Deactivate, EmptyBuffer, RefillBuffer, Stop, Configure, GetJoints, AskUrdf, FreshInv,
              Started
<1>8. CASE Take
  <2>1. /\ UNCHANGED <<build, life, last, buffer, copy, settled>> /\ cpc = "idle"
        /\ cpc' = "assign" /\ taken' = Head(queue) /\ queue # <<>>
    BY <1>8 DEF Take
  <2>2. taken' > taken /\ taken' \in Nat
    <3>1. queue[1] > taken /\ queue[1] \in Nat
      BY <1>1, <2>1 DEF OrderInv, QueueOK
    <3> QED
      BY <1>1, <2>1, <3>1, TailElements DEF QueueOK
  <2> QED
    BY <1>2, <2>1, <2>2 DEF FreshInv, Started, Fresh, Joints, LastJoint
<1>9. CASE Assign
  <2>1. /\ UNCHANGED <<build, life, taken, buffer, copy, settled>> /\ cpc = "assign"
        /\ last' = [last EXCEPT ![cjoint] = taken] /\ cpc' # "idle"
        /\ cpc' = "write" => cjoint' = 1
    BY <1>9 DEF Assign, NextJoint
  <2>2. Started => \A j \in Joints : Fresh(last'[j])
    BY <1>1, <1>2, <2>1 DEF NumberOK, FreshInv, Fresh
  <2>3. cpc' = "write" => \A j \in Joints : ~(j < cjoint')
    BY <1>2, <2>1
  <2> QED
    BY <2>1, <2>2, <2>3 DEF FreshInv, Started, Fresh, Joints, LastJoint
<1>10. CASE Write
  <2>1. /\ UNCHANGED <<build, life, taken, last, settled>> /\ cpc = "write"
        /\ copy' = [copy EXCEPT ![cjoint] = last[cjoint]]
        /\ \/ cpc' = "write" /\ cjoint' = cjoint + 1 /\ buffer' = buffer
           \/ cpc' = "idle" /\ cjoint = LastJoint /\ buffer' = copy'
    BY <1>10 DEF Write, CopyJoint, NextJoint
  <2>2. Started => \A j \in Joints : j <= cjoint => Fresh(copy'[j])
    BY <1>1, <1>2, <2>1 DEF NumberOK, FreshInv, Fresh
  <2>3. CASE cpc' = "write"
    <3>1. \A j \in Joints : j < cjoint' => j <= cjoint
      BY <1>2, <2>1, <2>3
    <3> QED
      BY <2>1, <2>2, <2>3, <3>1 DEF FreshInv, Started, Fresh, Joints, LastJoint
  <2>4. CASE cpc' = "idle"
    <3>1. \A j \in Joints : j <= cjoint
      BY <1>2, <2>1, <2>4
    <3>2. Started => \A j \in Joints : Fresh(buffer'[j])
      BY <2>1, <2>2, <2>4, <3>1
    <3>3. Started => taken >= settled
      BY <1>2, <2>1 DEF FreshInv
    <3> QED
      BY <2>1, <2>4, <3>2, <3>3 DEF FreshInv, Started, Fresh, Joints, LastJoint
  <2> QED
    BY <2>1, <2>3, <2>4
<1>11. CASE ReadBuffer
  <2>1. /\ UNCHANGED <<build, life, cpc, cjoint, taken, buffer, copy, settled>> /\ life = "active"
        /\ last' = [last EXCEPT ![ujoint] = buffer[ujoint]]
    BY <1>11 DEF ReadBuffer, StepInv
  <2>2. Started => \A j \in Joints : Fresh(last'[j])
    BY <1>1, <1>2, <2>1 DEF NumberOK, FreshInv, Fresh, Started
  <2> QED
    BY <2>1, <2>2 DEF FreshInv, Started, Fresh, Joints, LastJoint
<1> QED
  BY <1>4, <1>5, <1>6, <1>7, <1>8, <1>9, <1>10, <1>11
     DEF vars, Next, Boot, GetParameters, StartJointController, SpawnerDone, SpawnerFails,
         SetCommand, Lifecycle, UrdfAnswer, Callback, Physics, Update, UpdateFunc,
         UpdateFuncNoUrdf

(* A callback that began before the activation.                            *)
LEMMA HalfwayInvStep ==
  ASSUME TypeOK, StepInv, HalfwayInv, [Next]_vars
  PROVE  HalfwayInv'
<1> USE DEF nodeVars, callbackVars, updateVars, lifeVars, quiet, still, calm
<1>1. StepOK /\ NumberOK
  BY TypeParts
<1>2. cjoint \in Int /\ Joints \subseteq 1..NumJoints /\ Joints \subseteq Nat
  BY <1>1, JointAssumption DEF StepOK, Joints, LastJoint
<1>3. ASSUME UNCHANGED <<build, life, cpc, cjoint, taken, last, copy>>
      PROVE  HalfwayInv'
  BY <1>3 DEF HalfwayInv, New, Joints, LastJoint
<1>4. CASE Activate \/ Deactivate
  <2>1. /\ UNCHANGED <<build, cpc, cjoint, taken, copy>>
        /\ build = "group" => last' \in {All(Hold), All(Default)}
        /\ (life' = "activating" /\ life = "inactive") \/ life' = "deactivating"
    BY <1>4 DEF Activate, Deactivate
  <2>2. build = "group" => \A j \in Joints : New(last[j])'
    BY <1>2, <2>1 DEF All, New
  <2> QED
    BY <2>1, <2>2 DEF HalfwayInv, New, Joints, LastJoint
<1>5. CASE \/ ClearBuffer \/ WriteBuffer \/ EmptyBuffer \/ RefillBuffer \/ Configure \/ GetJoints
           \/ AskUrdf \/ Stop
  <2>1. /\ UNCHANGED <<build, cpc, cjoint, taken, last, copy>>
        /\ build = "group" => life # "active"
        /\ cpc # "write" \/ life \notin {"active", "deactivating"} \/ build # "group"
    BY <1>5 DEF ClearBuffer, WriteBuffer, WriteToBuffer, EmptyBuffer, RefillBuffer, Configure,
                GetJoints, AskUrdf, Stop
  <2> QED
    BY <2>1 DEF HalfwayInv, New, Joints, LastJoint
<1>6. CASE Take
  <2>1. UNCHANGED <<build, life>> /\ cpc' = "assign" /\ cjoint' = 1
    BY <1>6 DEF Take
  <2> QED
    BY <1>2, <2>1 DEF HalfwayInv, Joints, LastJoint
<1>7. CASE Assign
  <2>1. /\ UNCHANGED <<build, life, taken, copy>> /\ cpc = "assign"
        /\ last' = [last EXCEPT ![cjoint] = taken]
        /\ \/ cpc' = "assign" /\ cjoint' = cjoint + 1
           \/ cpc' = "write" /\ cjoint' = 1 /\ cjoint = LastJoint
    BY <1>7 DEF Assign, NextJoint
  <2>2. build = "group" /\ life # "active" => \A j \in Joints : j <= cjoint => New(last[j])'
    BY <1>1, <1>2, <2>1 DEF NumberOK, HalfwayInv, New
  <2>3. \A j \in Joints : cpc' = "write" \/ j < cjoint' => j <= cjoint
    BY <1>2, <2>1, JointAssumption DEF Joints, LastJoint
  <2>4. cpc' = "write" => \A j \in Joints : ~(j < cjoint')
    BY <1>2, <2>1 DEF Joints
  <2> QED
    BY <2>1, <2>2, <2>3, <2>4 DEF HalfwayInv, New, Joints, LastJoint
<1>8. CASE Write
  <2>1. /\ UNCHANGED <<build, life, taken, last>> /\ cpc = "write"
        /\ copy' = [copy EXCEPT ![cjoint] = last[cjoint]]
        /\ cpc' = "idle" \/ (cpc' = "write" /\ cjoint' = cjoint + 1)
    BY <1>8 DEF Write, CopyJoint, NextJoint
  <2>2. CASE cpc' = "idle"
    BY <2>1, <2>2 DEF HalfwayInv, Joints, LastJoint
  <2>3. CASE cpc' = "write"
    <3>1. build = "group" /\ life \notin {"active", "deactivating"} =>
            \A j \in Joints : j <= cjoint => New(copy[j])'
      BY <1>1, <1>2, <2>1 DEF NumberOK, HalfwayInv, New
    <3>2. \A j \in Joints : j < cjoint' => j <= cjoint
      BY <1>2, <2>1, <2>3
    <3> QED
      BY <2>1, <2>3, <3>1, <3>2 DEF HalfwayInv, New, Joints, LastJoint
  <2> QED
    BY <2>1, <2>2, <2>3
<1>9. CASE ReadBuffer
  <2>1. UNCHANGED <<build, life, cpc, cjoint, taken, copy>> /\ life = "active"
    BY <1>9 DEF ReadBuffer, StepInv
  <2> QED
    BY <2>1 DEF HalfwayInv
<1> QED
  BY <1>3, <1>4, <1>5, <1>6, <1>7, <1>8, <1>9
     DEF vars, Next, Boot, GetParameters, StartJointController, SpawnerDone, SpawnerFails,
         SetCommand, Lifecycle, UrdfAnswer, Callback, Physics, Update, UpdateFunc,
         UpdateFuncNoUrdf

(* While the controller stays active only a callback writes the buffer.    *)
LEMMA ForwardInvStep ==
  ASSUME TypeOK, StepInv, OrderInv, ForwardInv, [Next]_vars
  PROVE  /\ ForwardInv'
         /\ life = "active" /\ life' = life => \A j \in Joints : buffer'[j] >= buffer[j]
<1> DEFINE Forward == life = "active" /\ life' = life => \A j \in Joints : buffer'[j] >= buffer[j]
<1> USE DEF nodeVars, callbackVars, updateVars, lifeVars, quiet, still, calm
<1>1. StepOK /\ QueueOK /\ NumberOK
  BY TypeParts
<1>2. cjoint \in Int /\ taken \in Int /\ Joints \subseteq 1..NumJoints /\ Joints \subseteq Nat
  BY <1>1, JointAssumption DEF StepOK, QueueOK, Joints, LastJoint
<1>3. \A j \in Joints : last[j] \in Int /\ buffer[j] \in Int /\ copy[j] \in Int
  <2>1. Numbers \subseteq Int
    BY JointAssumption DEF Numbers, Default
  <2> QED
    BY <1>1, <1>2, <2>1 DEF NumberOK
<1>4. ASSUME UNCHANGED <<build, life, cpc, cjoint, last, buffer, copy>>
      PROVE  ForwardInv' /\ Forward
  BY <1>3, <1>4 DEF ForwardInv, Joints, LastJoint
<1>5. CASE \/ Configure \/ GetJoints \/ AskUrdf \/ Activate \/ Deactivate \/ EmptyBuffer
           \/ RefillBuffer \/ Stop
  BY <1>5 DEF Configure, GetJoints, AskUrdf, Activate, Deactivate, EmptyBuffer, RefillBuffer, Stop,
              ForwardInv
<1>6. CASE ClearBuffer \/ WriteBuffer
  <2>1. /\ UNCHANGED <<build, cpc, cjoint, last, copy>> /\ cpc # "write" /\ life # "active"
        /\ life' = "active" => buffer' \in {All(Default), last}
    BY <1>6 DEF ClearBuffer, WriteBuffer, WriteToBuffer
  <2>2. life' = "active" => \A j \in Joints : last[j] >= buffer'[j]
    <3>1. \A n \in Numbers : n \in Int /\ n >= Default
      BY JointAssumption DEF Numbers, Default
    <3>2. \A j \in Joints : last[j] >= Default /\ last[j] >= last[j]
      BY <1>1, <1>2, <3>1 DEF NumberOK
    <3>3. \A j \in Joints : All(Default)[j] = Default
      BY <1>2 DEF All
    <3> QED
      BY <2>1, <3>2, <3>3
  <2> QED
    BY <2>1, <2>2 DEF ForwardInv, Joints, LastJoint
<1>7. CASE Take
  <2>1. UNCHANGED <<build, life, last, buffer, copy>> /\ cpc' = "assign" /\ cjoint' = 1
    BY <1>7 DEF Take
  <2> QED
    BY <1>2, <1>3, <2>1 DEF ForwardInv, Joints, LastJoint
<1>8. CASE Assign
  <2>1. /\ UNCHANGED <<build, life, buffer, copy>> /\ cpc = "assign"
        /\ last' = [last EXCEPT ![cjoint] = taken]
        /\ \/ cpc' = "assign" /\ cjoint' = cjoint + 1
           \/ cpc' = "write" /\ cjoint' = 1 /\ cjoint = LastJoint
    BY <1>8 DEF Assign, NextJoint
  <2>2. life = "active" => \A j \in Joints : j <= cjoint => last'[j] >= buffer[j]
    <3>1. \A j \in Joints : buffer[j] <= taken
      BY <1>2 DEF OrderInv
    <3> QED
      BY <1>1, <1>2, <2>1, <3>1 DEF NumberOK, ForwardInv
  <2>3. \A j \in Joints : cpc' = "write" \/ j < cjoint' => j <= cjoint
    BY <1>2, <2>1, JointAssumption DEF Joints, LastJoint
  <2>4. cpc' = "write" => \A j \in Joints : ~(j < cjoint')
    BY <1>2, <2>1 DEF Joints
  <2> QED
    BY <1>3, <2>1, <2>2, <2>3, <2>4 DEF ForwardInv, Joints, LastJoint
<1>9. CASE Write
  <2>1. /\ UNCHANGED <<build, life, last>> /\ cpc = "write"
        /\ copy' = [copy EXCEPT ![cjoint] = last[cjoint]]
        /\ \/ cpc' = "write" /\ cjoint' = cjoint + 1 /\ buffer' = buffer
           \/ cpc' = "idle" /\ cjoint = LastJoint /\ buffer' = copy'
    BY <1>9 DEF Write, CopyJoint, NextJoint
  <2>2. life = "active" => \A j \in Joints : j <= cjoint => copy'[j] >= buffer[j]
    BY <1>1, <1>2, <2>1 DEF NumberOK, ForwardInv
  <2>3. CASE cpc' = "write"
    <3>1. \A j \in Joints : j < cjoint' => j <= cjoint
      BY <1>2, <2>1, <2>3
    <3> QED
      BY <1>3, <2>1, <2>2, <2>3, <3>1 DEF ForwardInv, Joints, LastJoint
  <2>4. CASE cpc' = "idle"
    <3>1. \A j \in Joints : j <= cjoint
      BY <1>2, <2>1, <2>4, JointAssumption DEF Joints, LastJoint
    <3> QED
      BY <2>1, <2>2, <2>4, <3>1 DEF ForwardInv
  <2> QED
    BY <2>1, <2>3, <2>4
<1>10. CASE ReadBuffer
  <2>1. /\ UNCHANGED <<build, life, cpc, cjoint, buffer, copy>>
        /\ last' = [last EXCEPT ![ujoint] = buffer[ujoint]]
    BY <1>10 DEF ReadBuffer
  <2>2. \A j \in Joints : last'[j] \in {last[j], buffer[j]}
    BY <1>1, <1>2, <2>1 DEF NumberOK
  <2> QED
    BY <1>3, <2>1, <2>2 DEF ForwardInv, Joints, LastJoint
<1> QED
  BY <1>4, <1>5, <1>6, <1>7, <1>8, <1>9, <1>10
     DEF vars, Next, Boot, GetParameters, StartJointController, SpawnerDone, SpawnerFails,
         SetCommand, Lifecycle, UrdfAnswer, Callback, Physics, Update, UpdateFunc,
         UpdateFuncNoUrdf

-----------------------------------------------------------------------------

(* A number never published: -1 is none, 0 is made up.                     *)
LEMMA InitInv == Init => IInv
<1> SUFFICES ASSUME Init PROVE IInv
  OBVIOUS
<1> USE JointAssumption DEF Init
<1>1. StepOK
  <2>1. 1 \in 1..NumJoints /\ 0 \in 0..MaxSwitches
    BY JointAssumption
  <2>2. crashed \in BOOLEAN /\ build \in Builds
    BY Zenon
  <2> QED
    BY <2>1, <2>2 DEF StepOK
<1>2. QueueOK
  BY DEF QueueOK
<1>3. NumberOK
  BY DEF NumberOK, Numbers, All, Default
<1>4. PlaceOK
  BY DEF PlaceOK, All
<1>5. StepInv /\ UrdfInv
  BY DEF StepInv, UrdfInv, Subscribed, Joints, LastJoint
<1>6. OrderInv
  BY DEF OrderInv, All, Default
<1>7. FreshInv /\ HalfwayInv /\ ForwardInv
  BY DEF FreshInv, Started, HalfwayInv, ForwardInv
<1>8. EffortBounded /\ LimitsKnown
  BY DEF EffortBounded, LimitsKnown, All, Joints, LastJoint
<1> QED
  BY <1>1, <1>2, <1>3, <1>4, <1>5, <1>6, <1>7, <1>8, TypeParts DEF IInv

LEMMA StepsInv == IInv /\ [Next]_vars => IInv'
<1> SUFFICES ASSUME IInv, [Next]_vars PROVE IInv'
  OBVIOUS
<1>1. TypeOK /\ StepOK /\ QueueOK /\ NumberOK
  BY TypeParts DEF IInv
<1>2. TypeOK'
  <2>1. StepOK' /\ QueueOK' /\ NumberOK' /\ PlaceOK'
    BY <1>1, StepOKStep, QueueOKStep, NumberOKStep, PlaceOKStep DEF IInv
  <2> QED
    BY <2>1, Zenon DEF TypeOK, StepOK, QueueOK, NumberOK, PlaceOK
<1>3. StepInv' /\ UrdfInv' /\ LimitsKnown' /\ EffortBounded'
  BY StepInvStep, UrdfInvStep, PlaceOKStep DEF IInv
<1>4. OrderInv' /\ FreshInv' /\ HalfwayInv' /\ ForwardInv'
  BY OrderInvStep, FreshInvStep, HalfwayInvStep, ForwardInvStep DEF IInv
<1> QED
  BY <1>2, <1>3, <1>4 DEF IInv

(* The inductive invariant: what each thread has reached, which numbers    *)
(* may still get into the buffer, and that they do not go back.            *)
THEOREM Invariance == Spec => []IInv
BY InitInv, StepsInv, PTL DEF Spec

(* Every variable keeps its type, and the joint of a loop is a joint.      *)
THEOREM TypeCorrect == Spec => []TypeOK
<1>1. IInv => TypeOK
  BY DEF IInv
<1> QED
  BY <1>1, Invariance, PTL

(* The node publishes nothing before the controller was activated.         *)
THEOREM ControllerFirst == Spec => []CommandNeedsController
<1>1. IInv => CommandNeedsController
  BY DEF IInv, StepInv, CommandNeedsController
<1> QED
  BY <1>1, Invariance, PTL

(* on_activate, the callback and update leave no command in the buffer     *)
(* whose callback had returned before the activation.                      *)
THEOREM NothingStale == Spec => []NoStaleCommand
<1>1. IInv => NoStaleCommand
  BY DEF IInv, FreshInv, Started, Fresh, NoStaleCommand
<1> QED
  BY <1>1, Invariance, PTL

(* While the controller stays active its buffer takes newer commands only. *)
THEOREM NeverBack == Spec => BufferForward
<1>1. IInv /\ [Next]_vars
        => [life = "active" /\ life' = life => \A j \in Joints : buffer'[j] >= buffer[j]]_vars
  BY ForwardInvStep DEF IInv
<1> QED
  BY <1>1, Invariance, PTL DEF Spec, BufferForward

(* ROS 1's update clamps the effort. *)
THEOREM Bounded == Spec => []EffortBounded
<1>1. IInv => EffortBounded
  BY DEF IInv
<1> QED
  BY <1>1, Invariance, PTL

(* With the urdf answered in time, only the controller of one joint, which *)
(* asks a node nobody runs, dereferences what it does not have.            *)
THEOREM Limits == Spec => []LimitsKnown
<1>1. IInv => LimitsKnown
  BY DEF IInv
<1> QED
  BY <1>1, Invariance, PTL
=============================================================================
