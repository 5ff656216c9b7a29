-------------------------- MODULE NodeThreadsProofs --------------------------
(***************************************************************************)
(* The threads of a node. First the loops, for any set of them, any order  *)
(* of shutdown and any number of calls (LoopFunc). The argument is who     *)
(* holds which mutex: a thread that has seen _running true under its mutex *)
(* is in the set of blocked threads before the owner can clear _running    *)
(* and notify. Then what the threads hand each other, for any number of    *)
(* joints and messages and any order of the motors (SensorPath).           *)
(***************************************************************************)
EXTENDS LoopFunc, SensorPath, FiniteSetTheorems, TLAPS

(* The position of the destructor names a loop. *)
LEMMA OrderInLoops ==
  ASSUME at \in 1..(Len(Order) + 1), at <= Len(Order)
  PROVE  Order[at] \in Loops
BY LoopAssumption

(* The initial states satisfy the invariant. *)
LEMMA InitIInv == Init => IInv
<1> SUFFICES ASSUME Init PROVE IInv
  OBVIOUS
<1> USE DEF Init
<1>1. Len(Order) \in Nat
  BY LoopAssumption
<1>2. TypeOK
  BY <1>1, LoopAssumption DEF TypeOK
<1>3. MutexInv
  BY DEF MutexInv
<1>4. RunningInv
  <2>1. \A l \in Loops : running[l] = FALSE
    OBVIOUS
  <2>2. \A l \in Loops : /\ pc[l] = "none" /\ l \notin started /\ l \notin waiting
                          /\ late[l] = 0 /\ calls[l] = 0
    OBVIOUS
  <2> HIDE DEF Init
  <2>3. \A l \in Loops : ~running[l]
    BY <2>1, Zenon
  <2>4. \A l \in Loops : late[l] <= calls[l] /\ ~ (late[l] > 0)
    <3>1. 0 <= 0 /\ ~ (0 > 0)
      OBVIOUS
    <3> QED
      BY <2>2, <3>1, Zenon
  <2> QED
    BY <2>2, <2>3, <2>4, Zenon DEF RunningInv
<1>5. NoLostWakeup /\ AtMostOneLateCall
  BY DEF NoLostWakeup, AtMostOneLateCall
<1> QED
  BY <1>2, <1>3, <1>4, <1>5 DEF IInv

(* Every step of the owner preserves it... *)
LEMMA OwnerIInv == IInv /\ Owner => IInv'
<1> SUFFICES ASSUME IInv, Owner PROVE IInv'
  OBVIOUS
<1>1. Len(Order) \in Nat
  BY LoopAssumption
<1> USE <1>1, LoopAssumption
    DEF IInv, TypeOK, MutexInv, RunningInv, NoLostWakeup, AtMostOneLateCall
<1>2. ASSUME NEW l \in Loops, Start(l) PROVE IInv'
  <2>1. TypeOK'
    BY <1>2 DEF Start
  <2>2. MutexInv'
    BY <1>2 DEF Start
  <2>3. RunningInv'
    BY <1>2 DEF Start
  <2>4. NoLostWakeup' /\ AtMostOneLateCall'
    BY <1>2 DEF Start
  <2>5. (node # "up" => started = Loops)'
    BY <1>2 DEF Start
  <2> QED
    BY <2>1, <2>2, <2>3, <2>4, <2>5
<1>3. CASE Destroy
  <2>1. TypeOK'
    BY <1>3 DEF Destroy
  <2>2. MutexInv'
    BY <1>3 DEF Destroy
  <2>3. RunningInv'
    BY <1>3 DEF Destroy
  <2>4. NoLostWakeup' /\ AtMostOneLateCall'
    BY <1>3 DEF Destroy
  <2>5. (node # "up" => started = Loops)'
    BY <1>3 DEF Destroy
  <2> QED
    BY <2>1, <2>2, <2>3, <2>4, <2>5
<1>4. CASE ShutdownLock
  <2>1. Order[at] \in Loops
    BY <1>4, OrderInLoops DEF ShutdownLock
  <2> QED
    BY <1>4, <2>1 DEF ShutdownLock
<1>5. CASE ShutdownClear
  <2>1. Order[at] \in Loops /\ mutex[Order[at]] = "owner"
    BY <1>5, OrderInLoops DEF ShutdownClear
  <2>2. pc[Order[at]] \notin {"test", "last", "block"}
    BY <2>1
  <2>3. TypeOK'
    BY <1>5, <2>1 DEF ShutdownClear
  <2>4. MutexInv'
    BY <1>5, <2>1, <2>2 DEF ShutdownClear
  <2>5. RunningInv'
    BY <1>5, <2>1, <2>2 DEF ShutdownClear
  <2>6. NoLostWakeup' /\ AtMostOneLateCall'
    BY <1>5, <2>1 DEF ShutdownClear
  <2> QED
    BY <1>5, <2>3, <2>4, <2>5, <2>6 DEF ShutdownClear
<1>6. CASE ShutdownJoin
  BY <1>6 DEF ShutdownJoin
<1>7. CASE Destroyed
  BY <1>7 DEF Destroyed
<1> QED
  BY <1>2, <1>3, <1>4, <1>5, <1>6, <1>7 DEF Owner

(* ...and so does every step of a loop's thread... *)
LEMMA ThreadIInv ==
  ASSUME IInv, NEW l \in Loops, Thread(l) PROVE IInv'
<1>1. Len(Order) \in Nat
  BY LoopAssumption
<1> USE <1>1, LoopAssumption
    DEF IInv, TypeOK, MutexInv, RunningInv, NoLostWakeup, AtMostOneLateCall,
        ownerVars
<1>2. CASE While(l)
  <2>1. TypeOK'
    BY <1>2 DEF While
  <2>2. MutexInv'
    <3>1. \A k \in Loops : pc'[k] = IF k = l THEN pc'[l] ELSE pc[k]
      BY <1>2 DEF While
    <3>2. pc[l] = "while" /\ pc'[l] \in {"begin", "done"}
      BY <1>2 DEF While
    <3> QED
      BY <1>2, <3>1, <3>2 DEF While
  <2>3. RunningInv'
    BY <1>2 DEF While
  <2>4. NoLostWakeup' /\ AtMostOneLateCall'
    BY <1>2 DEF While
  <2>5. (node # "up" => started = Loops)'
    BY <1>2 DEF While
  <2> QED
    BY <2>1, <2>2, <2>3, <2>4, <2>5
<1>3. CASE Call(l)
  <2>1. /\ pc[l] = "begin" /\ calls[l] < MaxCalls /\ late[l] = 0
        /\ calls[l] + 1 \in 0..MaxCalls
    BY <1>3 DEF Call
  <2>2. /\ late' \in [Loops -> 0..MaxCalls]
        /\ \A k \in Loops : late'[k] = IF k = l /\ ~running[l] THEN 1 ELSE late[k]
    BY <1>3, <2>1 DEF Call
  <2>3. calls' \in [Loops -> 0..MaxCalls]
    BY <1>3, <2>1 DEF Call
  <2>4. TypeOK'
    BY <1>3, <2>2, <2>3 DEF Call
  <2>5. MutexInv'
    BY <1>3, <2>1 DEF Call
  <2>6. RunningInv'
    BY <1>3, <2>1, <2>2 DEF Call
  <2>7. NoLostWakeup' /\ AtMostOneLateCall'
    BY <1>3, <2>1, <2>2 DEF Call
  <2> QED
    BY <1>3, <2>4, <2>5, <2>6, <2>7 DEF Call
<1>4. CASE Return(l)
  BY <1>4 DEF Return
<1>5. CASE Lock(l)
  <2>1. TypeOK'
    BY <1>5 DEF Lock
  <2>2. MutexInv'
    BY <1>5 DEF Lock
  <2>3. RunningInv'
    BY <1>5 DEF Lock
  <2>4. NoLostWakeup' /\ AtMostOneLateCall'
    BY <1>5 DEF Lock
  <2>5. (node # "up" => started = Loops)'
    BY <1>5 DEF Lock
  <2> QED
    BY <2>1, <2>2, <2>3, <2>4, <2>5
<1>6. CASE Test(l)
  <2> DEFINE Frees == /\ pc'[l] \in {"done", "while"}
                      /\ mutex' = [mutex EXCEPT ![l] = "free"]
             Keeps == pc[l] = "test" /\ pc'[l] = "block" /\ running[l] /\ mutex' = mutex
  <2>1. /\ pc[l] \in {"test", "last"} /\ mutex[l] = "loop"
        /\ UNCHANGED <<ownerVars, running, waiting, calls, late>>
        /\ pc' = [pc EXCEPT ![l] = pc'[l]]
    BY <1>6 DEF Test
  <2>2. Frees \/ Keeps
    BY <1>6 DEF Test
  <2>3. TypeOK'
    <3>1. mutex' \in [Loops -> {"free", "owner", "loop"}]
      BY <2>2
    <3>2. pc' \in [Loops -> {"none", "while", "begin", "call", "lock", "test", "block",
                            "wait", "expired", "last", "done"}]
      <4> DEFINE q == pc'[l]
      <4>1. q \in {"done", "while", "block"} /\ pc' = [pc EXCEPT ![l] = q]
        BY <2>1, <2>2
      <4> HIDE DEF q
      <4> QED
        BY <4>1
    <3>3. UNCHANGED <<node, started, at, step, running, waiting, calls, late>>
      BY <2>1
    <3> QED
      BY <3>1, <3>2, <3>3
  <2>4. MutexInv'
    <3>1. CASE Frees
      BY <2>1, <3>1
    <3>2. CASE Keeps
      BY <2>1, <3>2
    <3> QED
      BY <2>2, <3>1, <3>2
  <2>5. RunningInv'
    BY <2>1, <2>2
  <2>6. NoLostWakeup' /\ AtMostOneLateCall'
    BY <2>1
  <2>7. (node # "up" => started = Loops)'
    BY <2>1
  <2> QED
    BY <2>3, <2>4, <2>5, <2>6, <2>7
<1>7. CASE Block(l)
  BY <1>7 DEF Block
<1> QED
  BY <1>2, <1>3, <1>4, <1>5, <1>6, <1>7 DEF Thread

(* ...and every wake-up. *)
LEMMA WakeIInv ==
  ASSUME IInv, NEW l \in Loops, SpuriousWake(l) \/ Timeout(l) PROVE IInv'
<1>1. Len(Order) \in Nat
  BY LoopAssumption
<1> USE <1>1, LoopAssumption
    DEF IInv, TypeOK, MutexInv, RunningInv, NoLostWakeup, AtMostOneLateCall,
        ownerVars
<1>2. CASE SpuriousWake(l)
  BY <1>2 DEF SpuriousWake
<1>3. CASE Timeout(l)
  BY <1>3 DEF Timeout
<1> QED
  BY <1>2, <1>3

(* The inductive invariant of the loops: who holds which mutex, and what a *)
(* thread past its test of _running has seen, whatever start, loop and     *)
(* shutdown do.                                                            *)
THEOREM Invariance == Spec => []IInv
<1>1. IInv /\ [Next]_vars => IInv'
  <2> SUFFICES ASSUME IInv, [Next]_vars PROVE IInv'
    OBVIOUS
  <2>1. CASE Next
    BY <2>1, OwnerIInv, ThreadIInv, WakeIInv DEF Next
  <2>2. CASE UNCHANGED vars
    BY <2>2 DEF vars, IInv, TypeOK, MutexInv, RunningInv, NoLostWakeup,
                AtMostOneLateCall
  <2> QED
    BY <2>1, <2>2
<1> QED
  BY InitIInv, <1>1, PTL DEF Spec

(* Every variable keeps its type: shutdown stays within the destructor's   *)
(* list of loops.                                                          *)
THEOREM TypeCorrect == Spec => []TypeOK
<1>1. IInv => TypeOK
  BY DEF IInv
<1> QED
  BY <1>1, Invariance, PTL

(* shutdown's notify_one is never lost: no thread stays blocked in         *)
(* wait_for once its _running is false.                                    *)
THEOREM NoWakeupLost == Spec => []NoLostWakeup
<1>1. IInv => NoLostWakeup
  BY DEF IInv
<1> QED
  BY <1>1, Invariance, PTL

(* After shutdown has cleared _running a loop starts its function at most  *)
(* once more.                                                              *)
THEOREM LateCallsBounded == Spec => []AtMostOneLateCall
<1>1. IInv => AtMostOneLateCall
  BY DEF IInv
<1> QED
  BY <1>1, Invariance, PTL

-----------------------------------------------------------------------------
(***************************************************************************)
(* The sensors' way to the policy.                                         *)
(***************************************************************************)

(* What a copy still has to copy, as a set; a copy takes nothing twice.    *)
Left(s) == {s[i] : i \in 1..Len(s)}
NoRepeat(s) == \A i, k \in 1..Len(s) : s[i] = s[k] => i = k

(* The messages of an element's kind that arrived. *)
Arrivals(e) == IF e[1] = "imu" THEN imu ELSE motors

(* How far each of the two copies is, and that its thread is there.        *)
CopyInv ==
  /\ NoRepeat(getting) /\ NoRepeat(reading)
  /\ control = "get" <=> getting # <<>>
  /\ policy = "read" <=> reading # <<>>

(* A copy is never newer than its source. *)
NumberInv ==
  \A e \in Elements : /\ latest[e].number <= Arrivals(e)
                      /\ robot_state[e].number <= latest[Source(e)].number

(* Under a mutex: what is there is one message of each kind, and so is     *)
(* what GetState has copied of it so far, and in the end the whole copy.   *)
Whole(state, es) == \A e, f \in es : state[e].number = state[f].number

SnapshotInv ==
  program # "gazebo" =>
    /\ writing = <<>>
    /\ program = "mujoco" => imu = motors
    /\ \A e \in Elements : latest[e].number = Arrivals(e)
    /\ control = "get" =>
         \A e \in Elements \ Left(getting) : robot_state[e].number = Arrivals(e)
    /\ control = "act" => /\ Whole(robot_state, ImuElements) /\ Whole(robot_state, JointElements)
                          /\ program = "mujoco" => Whole(robot_state, Elements)

(* Which motor an element is of. *)
OriginInv ==
  \A j \in Joints :
    /\ latest[<<"q", j>>].from \in {0, j}
    /\ robot_state[<<"q", j>>].from \in {0, joint_mapping[j]}
    /\ command[j] # 0 => joint_mapping[command[j]] = j

(* What RunModel has read is between the robot_state it began with and the *)
(* present one, and is the former if no cycle of the control thread began. *)
ReadInv ==
  policy # "idle" =>
    /\ \A e \in Elements : before[e].number <= robot_state[e].number
    /\ \A e \in Elements \ Left(reading) :
         obs[e].number \in before[e].number..robot_state[e].number
    /\ ~torn => /\ \A e \in Elements \ Left(reading) : obs[e] = before[e]
                /\ policy = "read" => control # "get" /\ robot_state = before

(* The real robot's control thread begins when both kinds have arrived,    *)
(* and the policy after a cycle of it.                                     *)
ReportInv ==
  program = "real" =>
    /\ control # "idle" => SensorsReady
    /\ control = "get" => \A e \in Elements \ Left(getting) : robot_state[e].number > 0
    /\ control = "act" \/ rl_init_done => \A e \in Elements : robot_state[e].number > 0
    /\ policy # "idle" => \A e \in Elements : before[e].number > 0

SensorInv == SensorTypeOK /\ CopyInv /\ NumberInv /\ SnapshotInv /\ OriginInv /\ ReadInv /\ ReportInv

-----------------------------------------------------------------------------
(***************************************************************************)
(* Elements, and sequences of them.                                        *)
(***************************************************************************)

LEMMA JointFacts == NumJoints \in Nat /\ NumJoints >= 1 /\ 1 \in Joints /\ MaxMessages \in Nat
BY SensorAssumption DEF Joints

(* The element an element is copied from is one of the same kind. *)
LEMMA ElementFacts ==
  /\ <<"imu", "quaternion">> \in ImuElements /\ <<"imu", "gyroscope">> \in ImuElements
  /\ \A j \in Joints : <<"q", j>> \in JointElements
  /\ \A e \in ImuElements : e \in Elements /\ e[1] = "imu"
  /\ \A e \in JointElements : /\ e \in Elements /\ e[1] = "q" /\ e[1] # "imu"
                              /\ e[2] \in Joints /\ e = <<"q", e[2]>>
  /\ \A e \in Elements : e \in ImuElements \/ e \in JointElements
BY DEF Elements, ImuElements, JointElements

LEMMA SourceFacts ==
  ASSUME joint_mapping \in Mappings
  PROVE  /\ \A e \in Elements : Source(e) \in Elements /\ Source(e)[1] = e[1]
         /\ \A e \in ImuElements : Source(e) = e
         /\ \A j \in Joints : joint_mapping[j] \in Joints /\ Source(<<"q", j>>) = <<"q", joint_mapping[j]>>
<1>1. \A j \in Joints : joint_mapping[j] \in Joints
  BY DEF Mappings
<1>2. \A e \in ImuElements : Source(e) = e
  BY ElementFacts DEF Source
<1>3. \A e \in JointElements : Source(e) = <<"q", joint_mapping[e[2]]>>
  BY ElementFacts DEF Source
<1>4. \A e \in JointElements : Source(e) \in JointElements
  BY <1>1, <1>3, ElementFacts
<1>5. \A j \in Joints : Source(<<"q", j>>) = <<"q", joint_mapping[j]>>
  BY DEF Source
<1> QED
  BY <1>1, <1>2, <1>4, <1>5, ElementFacts

(* Taking the head of a sequence leaves the other elements. *)
LEMMA TailLeft ==
  ASSUME NEW S, NEW s \in Seq(S), s # <<>>
  PROVE  /\ Tail(s) \in Seq(S) /\ Head(s) \in S /\ Head(s) \in Left(s)
         /\ Left(s) = Left(Tail(s)) \cup {Head(s)}
         /\ NoRepeat(s) => NoRepeat(Tail(s)) /\ Head(s) \notin Left(Tail(s))
         /\ Tail(s) = <<>> => Left(Tail(s)) = {}
<1>1. /\ Tail(s) \in Seq(S) /\ Len(Tail(s)) = Len(s) - 1 /\ Len(s) \in Nat /\ Len(s) >= 1
      /\ Head(s) = s[1] /\ Head(s) \in S /\ 1 \in 1..Len(s)
      /\ \A i \in 1..Len(Tail(s)) : Tail(s)[i] = s[i + 1] /\ i + 1 \in 1..Len(s)
      /\ Tail(s) = <<>> => Len(Tail(s)) = 0
  <2>1. Len(s) \in Nat /\ Len(s) >= 1
    OBVIOUS
  <2>2. Tail(s) = <<>> => Len(Tail(s)) = 0
    <3>1. Len(<<>>) = 0
      OBVIOUS
    <3> QED
      BY <3>1, Zenon
  <2>3. /\ Tail(s) \in Seq(S) /\ Len(Tail(s)) = Len(s) - 1
        /\ Head(s) = s[1] /\ Head(s) \in S /\ 1 \in 1..Len(s)
        /\ \A i \in 1..Len(Tail(s)) : Tail(s)[i] = s[i + 1] /\ i + 1 \in 1..Len(s)
    OBVIOUS
  <2> QED
    BY <2>1, <2>2, <2>3
<1>2. ASSUME NEW e \in Left(s) PROVE e \in Left(Tail(s)) \cup {Head(s)}
  <2>1. PICK i \in 1..Len(s) : e = s[i]
    BY DEF Left
  <2>2. CASE i = 1
    BY <2>1, <2>2, <1>1
  <2>3. CASE i # 1
    <3>1. i - 1 \in 1..Len(Tail(s)) /\ Tail(s)[i - 1] = s[i]
      BY <1>1, <2>3
    <3> QED
      BY <2>1, <3>1 DEF Left
  <2> QED
    BY <2>2, <2>3
<1>3. Left(Tail(s)) \cup {Head(s)} \subseteq Left(s)
  BY <1>1 DEF Left
<1>4. ASSUME NoRepeat(s) PROVE NoRepeat(Tail(s)) /\ Head(s) \notin Left(Tail(s))
  <2>1. ASSUME NEW i \in 1..Len(Tail(s)) PROVE Tail(s)[i] # Head(s)
    BY <1>1, <1>4 DEF NoRepeat
  <2>2. ASSUME NEW i \in 1..Len(Tail(s)), NEW k \in 1..Len(Tail(s)), Tail(s)[i] = Tail(s)[k]
        PROVE  i = k
    <3>1. s[i + 1] = s[k + 1] /\ i + 1 \in 1..Len(s) /\ k + 1 \in 1..Len(s)
      BY <1>1, <2>2
    <3>2. i + 1 = k + 1
      BY <3>1, <1>4 DEF NoRepeat
    <3> QED
      BY <3>2
  <2> QED
    BY <2>1, <2>2 DEF NoRepeat, Left
<1>5. Left(Tail(s)) = {} \/ Tail(s) # <<>>
  BY <1>1 DEF Left
<1> QED
  BY <1>1, <1>2, <1>3, <1>4, <1>5

(* A whole copy takes every element once, whichever sensor of the imu comes *)
(* first.                                                                  *)
LEMMA WholeOrder ==
  ASSUME NEW a, NEW b, a # b, ImuElements = {a, b}
  PROVE  /\ <<a, b>> \o JointElementOrder \in Seq(Elements)
         /\ <<a, b>> \o JointElementOrder # <<>>
         /\ NoRepeat(<<a, b>> \o JointElementOrder)
         /\ Left(<<a, b>> \o JointElementOrder) = Elements
<1> DEFINE s == <<a, b>> \o JointElementOrder
<1>1. /\ JointElementOrder \in Seq(JointElements) /\ Len(JointElementOrder) = NumJoints
      /\ \A i \in Joints : JointElementOrder[i] = <<"q", i>>
  BY JointFacts, ElementFacts DEF JointElementOrder, Joints
<1>2. JointElementOrder \in Seq(Elements)
  BY <1>1 DEF Elements
<1>3. <<a, b>> \in Seq(Elements)
  BY DEF Elements
<1>4. /\ s \in Seq(Elements) /\ Len(s) = 2 + NumJoints
      /\ s[1] = a /\ s[2] = b
      /\ \A i \in 3..(2 + NumJoints) : s[i] = <<"q", i - 2>> /\ i - 2 \in Joints
  <2>1. s \in Seq(Elements) /\ Len(s) = 2 + NumJoints
    BY <1>1, <1>2, <1>3, JointFacts
  <2>2. s[1] = a /\ s[2] = b
    BY <1>1, <1>2, <1>3, JointFacts
  <2>3. ASSUME NEW i \in 3..(2 + NumJoints) PROVE s[i] = <<"q", i - 2>> /\ i - 2 \in Joints
    <3>1. i - 2 \in Joints /\ i \in 1..(2 + NumJoints) /\ i > 2
      BY JointFacts DEF Joints
    <3>2. s[i] = JointElementOrder[i - 2]
      BY <3>1, <1>1, <1>2, <1>3, JointFacts
    <3> QED
      BY <3>1, <3>2, <1>1
  <2> QED
    BY <2>1, <2>2, <2>3
<1> HIDE DEF s
<1>5. a \in ImuElements /\ b \in ImuElements /\ \A j \in Joints : <<"q", j>> # a /\ <<"q", j>> # b
  BY ElementFacts
<1>6. NoRepeat(s)
  <2> SUFFICES ASSUME NEW i \in 1..(2 + NumJoints), NEW k \in 1..(2 + NumJoints), s[i] = s[k]
               PROVE  i = k
    BY <1>4 DEF NoRepeat
  <2>1. \A n \in 1..(2 + NumJoints) : n = 1 \/ n = 2 \/ n \in 3..(2 + NumJoints)
    BY JointFacts
  <2>2. CASE i \in 3..(2 + NumJoints) /\ k \in 3..(2 + NumJoints)
    <3>1. <<"q", i - 2>> = <<"q", k - 2>>
      BY <1>4, <2>2
    <3>2. i - 2 = k - 2
      BY <3>1
    <3> QED
      BY <3>2
  <2>3. \A n \in 3..(2 + NumJoints) : s[n] # a /\ s[n] # b
    BY <1>4, <1>5
  <2>4. s[1] = a /\ s[2] = b
    BY <1>4
  <2>5. CASE i = 1
    BY <2>1, <2>3, <2>4, <2>5
  <2>6. CASE i = 2
    BY <2>1, <2>3, <2>4, <2>6
  <2>7. CASE k = 1 \/ k = 2
    BY <2>1, <2>3, <2>4, <2>7
  <2> QED
    BY <2>1, <2>2, <2>5, <2>6, <2>7
<1>7. Left(s) \subseteq Elements
  BY <1>4 DEF Left
<1>8. ASSUME NEW e \in Elements PROVE e \in Left(s)
  <2>1. CASE e \in ImuElements
    <3>1. 1 \in 1..Len(s) /\ 2 \in 1..Len(s)
      BY <1>4, JointFacts
    <3> QED
      BY <2>1, <3>1, <1>4 DEF Left
  <2>2. CASE e \in JointElements
    <3>1. PICK j \in Joints : e = <<"q", j>>
      BY <2>2, ElementFacts
    <3>2. PICK n \in 3..(2 + NumJoints) : n = j + 2
      BY JointFacts DEF Joints
    <3>3. s[n] = <<"q", n - 2>>
      BY <1>4
    <3>4. s[n] = e /\ n \in 1..Len(s)
      <4>1. n - 2 = j /\ n \in 1..Len(s)
        BY <3>2, <1>4, JointFacts DEF Joints
      <4> QED
        BY <3>1, <3>3, <4>1, Zenon
    <3> QED
      BY <3>4 DEF Left
  <2> QED
    BY <2>1, <2>2, ElementFacts
<1>9. s # <<>>
  BY <1>4, JointFacts
<1> QED
  BY <1>4, <1>6, <1>7, <1>8, <1>9 DEF s

(* The orders of GetState and of RunModel. *)
LEMMA Orders ==
  LET get == ImuOrder \o JointElementOrder
      read == <<ImuOrder[2], ImuOrder[1]>> \o JointElementOrder
  IN /\ get \in Seq(Elements) /\ get # <<>> /\ NoRepeat(get) /\ Left(get) = Elements
     /\ read \in Seq(Elements) /\ read # <<>> /\ NoRepeat(read) /\ Left(read) = Elements
<1>1. /\ <<"imu", "quaternion">> # <<"imu", "gyroscope">>
      /\ ImuElements = {<<"imu", "quaternion">>, <<"imu", "gyroscope">>}
      /\ ImuElements = {<<"imu", "gyroscope">>, <<"imu", "quaternion">>}
  BY DEF ImuElements
<1>2. /\ ImuOrder[1] = <<"imu", "quaternion">> /\ ImuOrder[2] = <<"imu", "gyroscope">>
      /\ ImuOrder = <<<<"imu", "quaternion">>, <<"imu", "gyroscope">>>>
  BY DEF ImuOrder
<1> QED
  BY <1>1, <1>2, WholeOrder

(* Every motor is some joint's: a mapping that takes no motor twice takes  *)
(* them all.                                                               *)
LEMMA MappedBack ==
  ASSUME joint_mapping \in Mappings, NEW m \in Joints
  PROVE  \E i \in Joints : joint_mapping[i] = m
<1> SUFFICES ASSUME \A i \in Joints : joint_mapping[i] # m PROVE FALSE
  OBVIOUS
<1>1. joint_mapping \in [Joints -> Joints \ {m}]
  BY DEF Mappings
<1>2. IsFiniteSet(Joints) /\ Cardinality(Joints) = NumJoints
  BY JointFacts, FS_Interval DEF Joints
<1>3. IsFiniteSet(Joints \ {m}) /\ Cardinality(Joints \ {m}) = NumJoints - 1
  BY <1>2, FS_RemoveElement
<1>4. Cardinality(Joints \ {m}) < Cardinality(Joints)
  BY <1>2, <1>3, JointFacts
<1>5. \E i, k \in Joints : i # k /\ joint_mapping[i] = joint_mapping[k]
  BY <1>1, <1>2, <1>3, <1>4, FS_PigeonHole
<1> QED
  BY <1>5 DEF Mappings

LEMMA CommandOf ==
  ASSUME joint_mapping \in Mappings, NEW m \in Joints
  PROVE  LET i == CHOOSE i \in Joints : joint_mapping[i] = m
         IN i \in Joints /\ joint_mapping[i] = m
BY MappedBack

-----------------------------------------------------------------------------
(***************************************************************************)
(* Types.                                                                  *)
(***************************************************************************)

LEMMA ArrivedFacts ==
  ASSUME NEW e \in Elements, imu' \in 0..MaxMessages, motors' \in 0..MaxMessages
  PROVE  /\ Arrived(e) \in Value
         /\ Arrived(e).number = IF e[1] = "imu" THEN imu' ELSE motors'
         /\ Arrived(e).from = IF e[1] = "imu" THEN 0 ELSE e[2]
<1>1. 0 \in 0..NumJoints
  BY JointFacts
<1>2. e[1] # "imu" => e[2] \in 0..NumJoints
  BY ElementFacts, JointFacts DEF Joints
<1> QED
  BY <1>1, <1>2 DEF Arrived, Value

(* What a write makes of latest. *)
LEMMA WriteFacts ==
  ASSUME NEW es, Write(es), latest \in [Elements -> Value],
         imu' \in 0..MaxMessages, motors' \in 0..MaxMessages
  PROVE  /\ latest' \in [Elements -> Value]
         /\ \A e \in Elements : latest'[e] = IF e \in es THEN Arrived(e) ELSE latest[e]
BY ArrivedFacts DEF Write

LEMMA SensorTypeInit == SensorInit => SensorTypeOK
<1> SUFFICES ASSUME SensorInit PROVE SensorTypeOK
  OBVIOUS
<1>1. joint_mapping \in Mappings
  <2>1. [i \in Joints |-> i] \in Mappings
    BY DEF Mappings
  <2> QED
    BY <2>1 DEF SensorInit
<1>2. Nothing \in Value /\ 0 \in 0..MaxMessages /\ 0 \in 0..NumJoints
  BY JointFacts DEF Nothing, Value
<1>3. <<>> \in Seq(Elements)
  OBVIOUS
<1>4. [e \in Elements |-> Nothing] \in [Elements -> Value]
  BY <1>2
<1> QED
  BY <1>1, <1>2, <1>3, <1>4 DEF SensorInit, SensorTypeOK

(* How the messages move. *)
LEMMA MessageFacts ==
  ASSUME SensorTypeOK,
         MotorFeedbackCallback \/ ImuCallback \/ Physics \/ GazeboImuCallback
           \/ RobotStateCallback \/ AssignElement
  PROVE  /\ imu' \in 0..MaxMessages /\ motors' \in 0..MaxMessages
         /\ latest' \in [Elements -> Value] /\ writing' \in Seq(Elements)
         /\ UNCHANGED <<program, joint_mapping, controlVars, policyVars, torn>>
<1> USE DEF SensorTypeOK
<1>1. CASE MotorFeedbackCallback
  <2>1. imu' \in 0..MaxMessages /\ motors' \in 0..MaxMessages
    BY <1>1, JointFacts DEF MotorFeedbackCallback, MotorFeedback
  <2> QED
    BY <1>1, <2>1, WriteFacts DEF MotorFeedbackCallback, MotorFeedback
<1>2. CASE ImuCallback
  <2>1. imu' \in 0..MaxMessages /\ motors' \in 0..MaxMessages
    BY <1>2, JointFacts DEF ImuCallback
  <2> QED
    BY <1>2, <2>1, WriteFacts DEF ImuCallback
<1>3. CASE Physics
  <2>1. imu' \in 0..MaxMessages /\ motors' \in 0..MaxMessages
    BY <1>3, JointFacts DEF Physics
  <2> QED
    BY <1>3, <2>1, WriteFacts DEF Physics
<1>4. ImuOrder \in Seq(Elements) /\ JointElementOrder \in Seq(Elements)
  <2>1. ImuOrder \in Seq(Elements)
    BY ElementFacts DEF ImuOrder
  <2>2. JointElementOrder \in Seq(Elements)
    BY ElementFacts, JointFacts DEF JointElementOrder, Joints
  <2> QED
    BY <2>1, <2>2
<1>5. CASE GazeboImuCallback
  BY <1>4, <1>5, JointFacts DEF GazeboImuCallback
<1>6. CASE RobotStateCallback
  BY <1>4, <1>6, JointFacts DEF RobotStateCallback
<1>7. CASE AssignElement
  <2>1. writing' \in Seq(Elements)
    BY <1>7, TailLeft DEF AssignElement
  <2>2. imu' \in 0..MaxMessages /\ motors' \in 0..MaxMessages
    BY <1>7 DEF AssignElement
  <2> QED
    BY <1>7, <2>1, <2>2, WriteFacts DEF AssignElement
<1> QED
  BY <1>1, <1>2, <1>3, <1>5, <1>6, <1>7

Message == MotorFeedbackCallback \/ ImuCallback \/ Physics \/ GazeboImuCallback
           \/ RobotStateCallback \/ AssignElement

LEMMA SensorTypeStep == SensorTypeOK /\ [SensorNext]_sensorPathVars => SensorTypeOK'
<1> SUFFICES ASSUME SensorTypeOK, [SensorNext]_sensorPathVars PROVE SensorTypeOK'
  OBVIOUS
<1>1. CASE Message
  <2>1. /\ imu' \in 0..MaxMessages /\ motors' \in 0..MaxMessages
        /\ latest' \in [Elements -> Value] /\ writing' \in Seq(Elements)
        /\ UNCHANGED <<program, joint_mapping, controlVars, policyVars, torn>>
    BY <1>1, MessageFacts DEF Message
  <2> QED
    BY <2>1 DEF SensorTypeOK, controlVars, policyVars
<1> USE DEF SensorTypeOK, sensorVars, controlVars, policyVars
<1>2. CASE RobotControl
  <2>1. getting' \in Seq(Elements)
    BY <1>2, Orders DEF RobotControl
  <2>2. torn' \in BOOLEAN
    BY <1>2 DEF RobotControl
  <2> QED
    BY <1>2, <2>1, <2>2 DEF RobotControl
<1>3. CASE GetState
  <2>1. /\ getting' \in Seq(Elements) /\ Head(getting) \in Elements
        /\ control' \in {"idle", "get", "act"}
    BY <1>3, TailLeft DEF GetState, GetFrom
  <2>2. Source(Head(getting)) \in Elements
    BY <2>1, SourceFacts
  <2>3. robot_state' \in [Elements -> Value]
    BY <1>3, <2>1, <2>2 DEF GetState, GetFrom
  <2>4. UNCHANGED <<program, joint_mapping, sensorVars, command, rl_init_done, policyVars, torn>>
    BY <1>3 DEF GetState, GetFrom
  <2> QED
    BY <2>1, <2>3, <2>4
<1>4. CASE SetCommand
  <2>1. command' \in [Joints -> 0..NumJoints]
    <3>1. Joints \subseteq 0..NumJoints
      BY JointFacts DEF Joints
    <3>2. ASSUME NEW m \in Joints
          PROVE  (CHOOSE i \in Joints : joint_mapping[i] = m) \in 0..NumJoints
      BY <3>1, CommandOf, Zenon
    <3> QED
      BY <1>4, <3>2 DEF SetCommand
  <2>2. /\ control' = "idle" /\ rl_init_done' \in BOOLEAN
        /\ UNCHANGED <<program, joint_mapping, sensorVars, robot_state, getting, policyVars, torn>>
    BY <1>4 DEF SetCommand
  <2> QED
    BY <2>1, <2>2
<1>5. CASE RunModel
  <2>1. reading' \in Seq(Elements)
    BY <1>5, Orders DEF RunModel
  <2>2. torn' \in BOOLEAN
    BY <1>5 DEF RunModel
  <2> QED
    BY <1>5, <2>1, <2>2 DEF RunModel
<1>6. CASE ReadState
  <2>1. /\ reading' \in Seq(Elements) /\ Head(reading) \in Elements
        /\ policy' \in {"idle", "read", "run"}
    BY <1>6, TailLeft DEF ReadState, Read
  <2>2. obs' \in [Elements -> Value]
    BY <1>6, <2>1 DEF ReadState, Read
  <2>3. UNCHANGED <<program, joint_mapping, sensorVars, controlVars, before, torn>>
    BY <1>6 DEF ReadState, Read
  <2> QED
    BY <2>1, <2>2, <2>3
<1>7. CASE Forward
  BY <1>7 DEF Forward
<1>8. CASE UNCHANGED sensorPathVars
  BY <1>8 DEF sensorPathVars
<1> QED
  BY <1>1, <1>2, <1>3, <1>4, <1>5, <1>6, <1>7, <1>8 DEF SensorNext, Message

-----------------------------------------------------------------------------
(***************************************************************************)
(* The two copies.                                                         *)
(***************************************************************************)

(* One step of GetState: the head is copied from its source, and the rest  *)
(* is left. *)
LEMMA GetFacts ==
  ASSUME SensorTypeOK, CopyInv, GetState
  PROVE  /\ Head(getting) \in Elements /\ Source(Head(getting)) \in Elements
         /\ Left(getting) = Left(getting') \cup {Head(getting)}
         /\ NoRepeat(getting') /\ (getting' = <<>> => Left(getting') = {})
         /\ \A e \in Elements :
              robot_state'[e] = IF e = Head(getting) THEN latest[Source(e)] ELSE robot_state[e]
         /\ control = "get" /\ control' = IF getting' = <<>> THEN "act" ELSE "get"
         /\ UNCHANGED <<program, joint_mapping, sensorVars, command, rl_init_done, policyVars, torn>>
<1>1. control = "get" /\ getting # <<>> /\ getting' = Tail(getting)
  BY DEF GetState, GetFrom
<1>2. getting \in Seq(Elements)
  BY DEF SensorTypeOK
<1>3. /\ Head(getting) \in Elements /\ Left(getting) = Left(getting') \cup {Head(getting)}
      /\ NoRepeat(getting') /\ (getting' = <<>> => Left(getting') = {})
  BY <1>1, <1>2, TailLeft DEF CopyInv
<1>4. Source(Head(getting)) \in Elements
  BY <1>3, SourceFacts DEF SensorTypeOK
<1>5. \A e \in Elements :
        robot_state'[e] = IF e = Head(getting) THEN latest[Source(e)] ELSE robot_state[e]
  BY <1>3 DEF GetState, GetFrom, SensorTypeOK
<1>6. /\ control' = IF getting' = <<>> THEN "act" ELSE "get"
      /\ UNCHANGED <<program, joint_mapping, sensorVars, command, rl_init_done, policyVars, torn>>
  BY <1>1 DEF GetState, GetFrom
<1> QED
  BY <1>1, <1>3, <1>4, <1>5, <1>6

(* One step of RunModel's copy. *)
LEMMA ReadFacts ==
  ASSUME SensorTypeOK, CopyInv, ReadState
  PROVE  /\ Head(reading) \in Elements
         /\ Left(reading) = Left(reading') \cup {Head(reading)}
         /\ NoRepeat(reading') /\ (reading' = <<>> => Left(reading') = {})
         /\ \A e \in Elements :
              obs'[e] = IF e = Head(reading) THEN robot_state[e] ELSE obs[e]
         /\ policy = "read" /\ policy' = IF reading' = <<>> THEN "run" ELSE "read"
         /\ UNCHANGED <<program, joint_mapping, sensorVars, controlVars, before, torn>>
<1>1. policy = "read" /\ reading # <<>> /\ reading' = Tail(reading)
  BY DEF ReadState, Read
<1>2. reading \in Seq(Elements)
  BY DEF SensorTypeOK
<1>3. /\ Head(reading) \in Elements /\ Left(reading) = Left(reading') \cup {Head(reading)}
      /\ NoRepeat(reading') /\ (reading' = <<>> => Left(reading') = {})
  BY <1>1, <1>2, TailLeft DEF CopyInv
<1>4. \A e \in Elements : obs'[e] = IF e = Head(reading) THEN robot_state[e] ELSE obs[e]
  BY <1>3 DEF ReadState, Read, SensorTypeOK
<1>5. /\ policy' = IF reading' = <<>> THEN "run" ELSE "read"
      /\ UNCHANGED <<program, joint_mapping, sensorVars, controlVars, before, torn>>
  BY <1>1 DEF ReadState, Read
<1> QED
  BY <1>1, <1>3, <1>4, <1>5

LEMMA NothingLeft == Left(<<>>) = {} /\ NoRepeat(<<>>)
<1>1. 1..Len(<<>>) = {}
  OBVIOUS
<1> QED
  BY <1>1 DEF Left, NoRepeat

LEMMA CopyStep ==
  ASSUME SensorInv, [SensorNext]_sensorPathVars PROVE CopyInv'
<1> USE DEF SensorInv
<1>1. CASE Message
  BY <1>1, MessageFacts DEF Message, CopyInv, controlVars, policyVars
<1>2. CASE RobotControl
  BY <1>2, Orders DEF RobotControl, CopyInv, policyVars
<1>3. CASE GetState
  BY <1>3, GetFacts DEF CopyInv, policyVars
<1>4. CASE SetCommand
  BY <1>4 DEF SetCommand, CopyInv, policyVars
<1>5. CASE RunModel
  BY <1>5, Orders DEF RunModel, CopyInv, controlVars
<1>6. CASE ReadState
  BY <1>6, ReadFacts DEF CopyInv, controlVars
<1>7. CASE Forward
  BY <1>7 DEF Forward, CopyInv, controlVars
<1>8. CASE UNCHANGED sensorPathVars
  BY <1>8 DEF sensorPathVars, CopyInv, controlVars, policyVars
<1> QED
  BY <1>1, <1>2, <1>3, <1>4, <1>5, <1>6, <1>7, <1>8 DEF SensorNext, Message

-----------------------------------------------------------------------------
(***************************************************************************)
(* Numbers of messages only grow, from the callbacks to robot_state.       *)
(***************************************************************************)

LEMMA NumberType ==
  ASSUME SensorTypeOK
  PROVE  /\ \A e \in Elements : /\ latest[e] \in Value /\ latest[e].number \in Nat
                                /\ robot_state[e] \in Value /\ robot_state[e].number \in Nat
                                /\ before[e] \in Value /\ before[e].number \in Nat
                                /\ obs[e] \in Value /\ obs[e].number \in Nat
         /\ imu \in Nat /\ motors \in Nat /\ (\A e \in Elements : Arrivals(e) \in Nat)
BY JointFacts DEF SensorTypeOK, Value, Arrivals

(* Messages make latest no older, and never newer than what arrived. *)
LEMMA MessageNumbers ==
  ASSUME SensorInv, Message, NEW e \in Elements
  PROVE  /\ latest[e].number <= latest'[e].number
         /\ latest'[e].number <= Arrivals(e)'
         /\ Arrivals(e) <= Arrivals(e)'
<1> USE DEF SensorInv
<1>1. /\ imu' \in 0..MaxMessages /\ motors' \in 0..MaxMessages
      /\ latest \in [Elements -> Value]
  BY MessageFacts DEF Message, SensorTypeOK
<1>2. /\ latest[e].number \in Nat /\ imu \in Nat /\ motors \in Nat /\ imu' \in Nat /\ motors' \in Nat
      /\ latest[e].number <= Arrivals(e)
  BY <1>1, NumberType, JointFacts DEF NumberInv
<1>3. Arrived(e).number = Arrivals(e)'
  BY <1>1, ArrivedFacts DEF Arrivals
<1>4. imu <= imu' /\ motors <= motors'
  BY <1>2 DEF Message, MotorFeedbackCallback, MotorFeedback, ImuCallback, Physics,
              GazeboImuCallback, RobotStateCallback, AssignElement, SnapshotInv
<1>5. Arrivals(e) <= Arrivals(e)' /\ Arrivals(e) \in Nat /\ Arrivals(e)' \in Nat
  BY <1>2, <1>4 DEF Arrivals
<1>6. latest'[e] = latest[e] \/ latest'[e] = Arrived(e)
  BY <1>1, WriteFacts DEF Message, MotorFeedbackCallback, MotorFeedback, ImuCallback, Physics,
                          GazeboImuCallback, RobotStateCallback, AssignElement
<1> QED
  BY <1>2, <1>3, <1>5, <1>6

LEMMA SourceKind ==
  ASSUME SensorInv, NEW e \in Elements
  PROVE  Source(e) \in Elements /\ Arrivals(Source(e)) = Arrivals(e)
BY SourceFacts DEF SensorInv, SensorTypeOK, Arrivals

LEMMA NumberStep ==
  ASSUME SensorInv, [SensorNext]_sensorPathVars
  PROVE  NumberInv' /\ \A e \in Elements : robot_state[e].number <= robot_state'[e].number
<1> USE DEF SensorInv
<1>0. \A e \in Elements : latest[e].number \in Nat /\ robot_state[e].number \in Nat
  BY NumberType
<1>1. CASE Message
  <2>1. UNCHANGED <<joint_mapping, robot_state>>
    BY <1>1, MessageFacts DEF Message, controlVars
  <2>2. SensorTypeOK'
    BY SensorTypeStep
  <2> SUFFICES ASSUME NEW e \in Elements
               PROVE  /\ latest'[e].number <= Arrivals(e)'
                      /\ robot_state'[e].number <= latest'[Source(e)'].number
                      /\ robot_state[e].number <= robot_state'[e].number
    BY DEF NumberInv
  <2>3. Source(e) \in Elements /\ Source(e)' = Source(e)
    BY <2>1, SourceKind DEF Source
  <2>4. /\ latest'[e].number <= Arrivals(e)'
        /\ latest[Source(e)].number <= latest'[Source(e)].number
    BY <1>1, <2>3, MessageNumbers
  <2>5. robot_state[e].number <= latest[Source(e)].number
    BY DEF NumberInv
  <2>6. latest'[Source(e)].number \in Nat /\ latest[Source(e)].number \in Nat
    BY <2>2, <2>3, <1>0, NumberType, JointFacts DEF SensorTypeOK, Value
  <2> QED
    BY <2>1, <2>3, <2>4, <2>5, <2>6, <1>0
<1>2. CASE GetState
  <2>1. UNCHANGED <<joint_mapping, imu, motors, latest>>
    BY <1>2, GetFacts DEF sensorVars
  <2> SUFFICES ASSUME NEW e \in Elements
               PROVE  /\ latest'[e].number <= Arrivals(e)'
                      /\ robot_state'[e].number <= latest'[Source(e)'].number
                      /\ robot_state[e].number <= robot_state'[e].number
    BY DEF NumberInv
  <2>2. Source(e) \in Elements /\ Source(e)' = Source(e) /\ Arrivals(e)' = Arrivals(e)
    BY <2>1, SourceKind DEF Source, Arrivals
  <2>3. robot_state'[e] = latest[Source(e)] \/ robot_state'[e] = robot_state[e]
    BY <1>2, GetFacts
  <2>4. latest[e].number <= Arrivals(e) /\ robot_state[e].number <= latest[Source(e)].number
    BY DEF NumberInv
  <2> QED
    BY <2>1, <2>2, <2>3, <2>4, <1>0
<1>3. CASE UNCHANGED <<joint_mapping, imu, motors, latest, robot_state>>
  BY <1>0, <1>3 DEF NumberInv, Source, Arrivals
<1>4. RobotControl \/ SetCommand \/ RunModel \/ ReadState \/ Forward \/ UNCHANGED sensorPathVars
        => UNCHANGED <<joint_mapping, imu, motors, latest, robot_state>>
  BY DEF RobotControl, SetCommand, RunModel, ReadState, Read, Forward, sensorPathVars, sensorVars,
         controlVars
<1> QED
  BY <1>1, <1>2, <1>3, <1>4 DEF SensorNext, Message

-----------------------------------------------------------------------------
(***************************************************************************)
(* What the two mutexes give.                                              *)
(***************************************************************************)

(* A message comes when the control thread does not hold the mutex, and    *)
(* whole.                                                                  *)
LEMMA MessageWhole ==
  ASSUME SensorInv, program # "gazebo", Message
  PROVE  /\ control # "get" /\ (program = "mujoco" => control = "idle")
         /\ writing' = <<>> /\ (program = "mujoco" => imu' = motors')
         /\ \A e \in Elements : latest'[e].number = Arrivals(e)'
<1> USE DEF SensorInv
<1>1. /\ writing = <<>> /\ (program = "mujoco" => imu = motors)
      /\ \A e \in Elements : latest[e].number = Arrivals(e)
  BY DEF SnapshotInv
<1>2. /\ imu' \in 0..MaxMessages /\ motors' \in 0..MaxMessages
      /\ latest \in [Elements -> Value]
  BY MessageFacts DEF Message, SensorTypeOK
<1>3. \A e \in Elements : Arrived(e).number = Arrivals(e)'
  BY <1>2, ArrivedFacts DEF Arrivals
<1>4. CASE MotorFeedbackCallback
  <2>1. /\ program = "real" /\ control # "get" /\ imu' = imu /\ writing' = writing
        /\ Write(JointElements)
    BY <1>4 DEF MotorFeedbackCallback, MotorFeedback, Locked
  <2>2. \A e \in Elements : latest'[e] = IF e \in JointElements THEN Arrived(e) ELSE latest[e]
    BY <1>2, <2>1, WriteFacts
  <2>3. \A e \in ImuElements : e \notin JointElements /\ Arrivals(e)' = Arrivals(e)
    BY <2>1, ElementFacts DEF Arrivals
  <2> QED
    BY <1>1, <1>3, <2>1, <2>2, <2>3, ElementFacts
<1>5. CASE ImuCallback
  <2>1. /\ program = "real" /\ control # "get" /\ motors' = motors /\ writing' = writing
        /\ Write(ImuElements)
    BY <1>5 DEF ImuCallback, Locked
  <2>2. \A e \in Elements : latest'[e] = IF e \in ImuElements THEN Arrived(e) ELSE latest[e]
    BY <1>2, <2>1, WriteFacts
  <2>3. \A e \in JointElements : e \notin ImuElements /\ Arrivals(e)' = Arrivals(e)
    BY <2>1, ElementFacts DEF Arrivals
  <2> QED
    BY <1>1, <1>3, <2>1, <2>2, <2>3, ElementFacts
<1>6. CASE Physics
  <2>1. /\ program = "mujoco" /\ control = "idle" /\ imu' = motors' /\ writing' = writing
        /\ Write(Elements)
    BY <1>6 DEF Physics, Locked
  <2>2. \A e \in Elements : latest'[e] = Arrived(e)
    BY <1>2, <2>1, WriteFacts
  <2> QED
    BY <1>1, <1>3, <2>1, <2>2
<1>7. ~GazeboImuCallback /\ ~RobotStateCallback /\ ~AssignElement
  BY <1>1 DEF GazeboImuCallback, RobotStateCallback, AssignElement
<1> QED
  BY <1>4, <1>5, <1>6, <1>7 DEF Message

LEMMA SnapshotStep ==
  ASSUME SensorInv, [SensorNext]_sensorPathVars PROVE SnapshotInv'
<1> USE DEF SensorInv
<1>1. program' = program
  BY MessageFacts DEF SensorNext, Message, RobotControl, GetState, GetFrom, SetCommand, RunModel,
                      ReadState, Read, Forward, sensorPathVars
<1> SUFFICES ASSUME program # "gazebo" PROVE SnapshotInv'
  BY <1>1 DEF SnapshotInv
<1>2. /\ writing = <<>> /\ (program = "mujoco" => imu = motors)
      /\ \A e \in Elements : latest[e].number = Arrivals(e)
  BY DEF SnapshotInv
<1>3. CASE Message
  <2>1. UNCHANGED <<robot_state, getting, control>>
    BY <1>3, MessageFacts DEF Message, controlVars
  <2>2. control = "act" => /\ Whole(robot_state, ImuElements) /\ Whole(robot_state, JointElements)
                           /\ program = "mujoco" => Whole(robot_state, Elements)
    BY DEF SnapshotInv
  <2>3. Whole(robot_state, ImuElements)' = Whole(robot_state, ImuElements)
        /\ Whole(robot_state, JointElements)' = Whole(robot_state, JointElements)
    BY <2>1 DEF Whole
  <2> QED
    BY <1>1, <1>3, <2>1, <2>2, <2>3, MessageWhole DEF SnapshotInv
<1>4. CASE RobotControl
  <2>1. /\ control' = "get" /\ Left(getting') = Elements
        /\ UNCHANGED <<imu, motors, latest, writing>>
    BY <1>4, Orders DEF RobotControl, sensorVars
  <2> QED
    BY <1>1, <1>2, <2>1 DEF SnapshotInv, Arrivals
<1>5. CASE GetState
  <2>1. UNCHANGED <<imu, motors, latest, writing>>
    BY <1>5, GetFacts DEF sensorVars
  <2>2. ASSUME NEW e \in Elements, e \notin Left(getting')
        PROVE  robot_state'[e].number = Arrivals(e)
    <3>1. CASE e = Head(getting)
      BY <1>2, <1>5, <3>1, GetFacts, SourceKind
    <3>2. CASE e # Head(getting)
      <4>1. e \notin Left(getting) /\ control = "get"
        BY <1>5, <2>2, <3>2, GetFacts
      <4>2. robot_state[e].number = Arrivals(e)
        BY <4>1 DEF SnapshotInv
      <4> QED
        BY <1>5, <3>2, <4>2, GetFacts
    <3> QED
      BY <3>1, <3>2
  <2>3. \A e \in Elements : Arrivals(e)' = Arrivals(e)
    BY <2>1 DEF Arrivals
  <2>4. CASE getting' # <<>>
    <3>1. control' = "get"
      BY <1>5, <2>4, GetFacts
    <3> QED
      BY <1>1, <1>2, <2>1, <2>2, <2>3, <3>1 DEF SnapshotInv
  <2>5. CASE getting' = <<>>
    <3>1. control' = "act" /\ Left(getting') = {}
      BY <1>5, <2>5, GetFacts
    <3>2. \A e \in Elements : robot_state'[e].number = Arrivals(e)
      BY <2>2, <3>1
    <3>3. /\ \A e \in ImuElements : robot_state'[e].number = imu
          /\ \A e \in JointElements : robot_state'[e].number = motors
          /\ \A e \in Elements : e \in ImuElements \/ e \in JointElements
      BY <3>2, ElementFacts DEF Arrivals
    <3>4. /\ Whole(robot_state, ImuElements)' /\ Whole(robot_state, JointElements)'
          /\ program = "mujoco" => Whole(robot_state, Elements)'
      BY <1>2, <3>3 DEF Whole
    <3> QED
      BY <1>1, <1>2, <2>1, <2>3, <3>1, <3>4 DEF SnapshotInv
  <2> QED
    BY <2>4, <2>5
<1>6. CASE SetCommand
  BY <1>1, <1>2, <1>6 DEF SnapshotInv, SetCommand, sensorVars, Arrivals
<1>7. CASE UNCHANGED <<sensorVars, robot_state, getting, control>>
  BY <1>1, <1>2, <1>7 DEF SnapshotInv, sensorVars, Arrivals, Whole
<1>8. RunModel \/ ReadState \/ Forward \/ UNCHANGED sensorPathVars
        => UNCHANGED <<sensorVars, robot_state, getting, control>>
  BY DEF RunModel, ReadState, Read, Forward, sensorPathVars, controlVars
<1> QED
  BY <1>3, <1>4, <1>5, <1>6, <1>7, <1>8 DEF SensorNext, Message

-----------------------------------------------------------------------------
(***************************************************************************)
(* Joints and motors.                                                      *)
(***************************************************************************)

LEMMA OriginStep ==
  ASSUME SensorInv, [SensorNext]_sensorPathVars PROVE OriginInv'
<1> USE DEF SensorInv
<1>1. \A j \in Joints : <<"q", j>> \in Elements /\ <<"q", j>>[1] = "q" /\ <<"q", j>>[2] = j
  BY ElementFacts
<1>2. joint_mapping \in Mappings /\ \A j \in Joints : joint_mapping[j] \in Joints
  BY DEF SensorTypeOK, Mappings
<1>3. CASE Message
  <2>1. UNCHANGED <<joint_mapping, robot_state, command>>
    BY <1>3, MessageFacts DEF Message, controlVars
  <2>2. /\ imu' \in 0..MaxMessages /\ motors' \in 0..MaxMessages
        /\ latest \in [Elements -> Value]
    BY <1>3, MessageFacts DEF Message, SensorTypeOK
  <2>3. ASSUME NEW j \in Joints PROVE latest'[<<"q", j>>].from \in {0, j}
    <3>1. latest'[<<"q", j>>] = latest[<<"q", j>>] \/ latest'[<<"q", j>>] = Arrived(<<"q", j>>)
      BY <1>1, <1>3, <2>2, WriteFacts
         DEF Message, MotorFeedbackCallback, MotorFeedback, ImuCallback, Physics,
             GazeboImuCallback, RobotStateCallback, AssignElement
    <3>2. Arrived(<<"q", j>>).from = j
      BY <1>1, <2>2, ArrivedFacts
    <3> QED
      BY <3>1, <3>2 DEF OriginInv
  <2> QED
    BY <2>1, <2>3 DEF OriginInv
<1>4. CASE GetState
  <2>1. UNCHANGED <<joint_mapping, latest, command>>
    BY <1>4, GetFacts DEF sensorVars
  <2>2. ASSUME NEW j \in Joints PROVE robot_state'[<<"q", j>>].from \in {0, joint_mapping[j]}
    <3>1. Source(<<"q", j>>) = <<"q", joint_mapping[j]>>
      BY <1>2, SourceFacts
    <3>2. \/ robot_state'[<<"q", j>>] = robot_state[<<"q", j>>]
          \/ robot_state'[<<"q", j>>] = latest[<<"q", joint_mapping[j]>>]
      BY <1>1, <1>4, <3>1, GetFacts
    <3> QED
      BY <1>2, <3>2 DEF OriginInv
  <2> QED
    BY <2>1, <2>2 DEF OriginInv
<1>5. CASE SetCommand
  <2>1. UNCHANGED <<joint_mapping, latest, robot_state>>
    BY <1>5 DEF SetCommand, sensorVars
  <2>2. ASSUME NEW j \in Joints PROVE joint_mapping[command'[j]] = j
    <3>1. command'[j] = CHOOSE i \in Joints : joint_mapping[i] = j
      BY <1>5 DEF SetCommand
    <3> QED
      BY <1>2, <3>1, CommandOf, Zenon
  <2> QED
    BY <2>1, <2>2 DEF OriginInv
<1>6. CASE UNCHANGED <<joint_mapping, latest, robot_state, command>>
  BY <1>6 DEF OriginInv
<1>7. RobotControl \/ RunModel \/ ReadState \/ Forward \/ UNCHANGED sensorPathVars
        => UNCHANGED <<joint_mapping, latest, robot_state, command>>
  BY DEF RobotControl, RunModel, ReadState, Read, Forward, sensorPathVars, controlVars, sensorVars
<1> QED
  BY <1>3, <1>4, <1>5, <1>6, <1>7 DEF SensorNext, Message

-----------------------------------------------------------------------------
(***************************************************************************)
(* What the policy reads.                                                  *)
(***************************************************************************)

LEMMA ReadStep ==
  ASSUME SensorInv, [SensorNext]_sensorPathVars PROVE ReadInv'
<1> USE DEF SensorInv
<1>1. \A e \in Elements : /\ before[e].number \in Nat /\ robot_state[e].number \in Nat
                          /\ robot_state'[e].number \in Nat /\ obs[e].number \in Nat
  <2>1. SensorTypeOK'
    BY SensorTypeStep
  <2>2. \A e \in Elements : robot_state'[e].number \in Nat
    BY <2>1, JointFacts DEF SensorTypeOK, Value
  <2> QED
    BY <2>2, NumberType
<1>2. CASE UNCHANGED <<robot_state, control, policyVars, torn>>
  BY <1>2 DEF ReadInv, policyVars
<1>3. Message \/ UNCHANGED sensorPathVars => UNCHANGED <<robot_state, control, policyVars, torn>>
  BY MessageFacts DEF Message, sensorPathVars, controlVars
<1>4. CASE RobotControl
  BY <1>4 DEF RobotControl, ReadInv, policyVars
<1>5. CASE GetState
  <2>1. \A e \in Elements : robot_state[e].number <= robot_state'[e].number
    BY NumberStep
  <2>2. UNCHANGED <<policyVars, torn>> /\ control = "get"
    BY <1>5, GetFacts
  <2>3. CASE policy = "idle"
    BY <2>2, <2>3 DEF ReadInv, policyVars
  <2>4. CASE policy # "idle"
    <3>1. policy = "read" => torn
      BY <2>2, <2>4 DEF ReadInv
    <3>2. \A e \in Elements : before[e].number <= robot_state'[e].number
      BY <1>1, <2>1, <2>4 DEF ReadInv
    <3>3. \A e \in Elements \ Left(reading) :
            obs[e].number \in before[e].number..robot_state'[e].number
      <4> SUFFICES ASSUME NEW e \in Elements \ Left(reading)
                   PROVE  obs[e].number \in before[e].number..robot_state'[e].number
        OBVIOUS
      <4>1. obs[e].number \in before[e].number..robot_state[e].number
        BY <2>4 DEF ReadInv
      <4> QED
        BY <4>1, <1>1, <2>1
    <3>4. ~torn => \A e \in Elements \ Left(reading) : obs[e] = before[e]
      BY <2>4 DEF ReadInv
    <3> QED
      BY <2>2, <3>1, <3>2, <3>3, <3>4 DEF ReadInv, policyVars
  <2> QED
    BY <2>3, <2>4
<1>6. CASE SetCommand
  BY <1>6 DEF SetCommand, ReadInv, policyVars
<1>7. CASE RunModel
  <2>1. /\ Left(reading') = Elements /\ before' = robot_state
        /\ UNCHANGED <<robot_state, control>>
    BY <1>7, Orders DEF RunModel, controlVars
  <2>2. ~torn' => control # "get"
    BY <1>7 DEF RunModel
  <2> QED
    BY <2>1, <2>2, <1>1 DEF ReadInv
<1>8. CASE ReadState
  <2>1. UNCHANGED <<robot_state, control, before, torn>> /\ policy = "read"
    BY <1>8, ReadFacts DEF controlVars
  <2>2. /\ \A e \in Elements : before[e].number <= robot_state[e].number
        /\ ~torn => control # "get" /\ robot_state = before
    BY <2>1 DEF ReadInv
  <2>3. ASSUME NEW e \in Elements, e \notin Left(reading')
        PROVE  /\ obs'[e].number \in before[e].number..robot_state[e].number
               /\ ~torn => obs'[e] = before[e]
    <3>1. CASE e = Head(reading)
      <4>1. obs'[e] = robot_state[e]
        BY <1>8, <3>1, ReadFacts
      <4> QED
        BY <4>1, <2>2, <1>1
    <3>2. CASE e # Head(reading)
      <4>1. e \notin Left(reading) /\ obs'[e] = obs[e]
        BY <1>8, <2>3, <3>2, ReadFacts
      <4> QED
        BY <2>1, <4>1 DEF ReadInv
    <3> QED
      BY <3>1, <3>2
  <2> QED
    BY <2>1, <2>2, <2>3 DEF ReadInv
<1>9. CASE Forward
  BY <1>9 DEF Forward, ReadInv
<1> QED
  BY <1>2, <1>3, <1>4, <1>5, <1>6, <1>7, <1>8, <1>9 DEF SensorNext, Message

LEMMA ReportStep ==
  ASSUME SensorInv, [SensorNext]_sensorPathVars PROVE ReportInv'
<1> USE DEF SensorInv
<1>1. program' = program
  BY MessageFacts DEF SensorNext, Message, RobotControl, GetState, GetFrom, SetCommand, RunModel,
                      ReadState, Read, Forward, sensorPathVars
<1> SUFFICES ASSUME program = "real" PROVE ReportInv'
  BY <1>1 DEF ReportInv
<1>2. /\ control # "idle" => SensorsReady
      /\ control = "get" => \A e \in Elements \ Left(getting) : robot_state[e].number > 0
      /\ control = "act" \/ rl_init_done => \A e \in Elements : robot_state[e].number > 0
      /\ policy # "idle" => \A e \in Elements : before[e].number > 0
  BY DEF ReportInv
<1>3. CASE Message
  <2>1. UNCHANGED <<controlVars, policyVars>>
    BY <1>3, MessageFacts DEF Message
  <2>2. SensorsReady => SensorsReady'
    <3>1. imu \in Nat /\ motors \in Nat
      BY NumberType
    <3> QED
      BY <1>3, <3>1 DEF Message, MotorFeedbackCallback, MotorFeedback, ImuCallback, Physics,
                   GazeboImuCallback, RobotStateCallback, AssignElement, SensorsReady
  <2> QED
    BY <1>1, <1>2, <2>1, <2>2 DEF ReportInv, controlVars, policyVars
<1>4. CASE RobotControl
  <2>1. /\ control = "idle" /\ control' = "get" /\ Left(getting') = Elements /\ SensorsReady
        /\ UNCHANGED <<imu, motors, robot_state, rl_init_done, policyVars>>
    BY <1>4, Orders DEF RobotControl, sensorVars
  <2> QED
    BY <1>1, <1>2, <2>1 DEF ReportInv, SensorsReady, policyVars
<1>5. CASE GetState
  <2>1. control = "get" /\ UNCHANGED <<imu, motors, latest, rl_init_done, policyVars>>
    BY <1>5, GetFacts DEF sensorVars
  <2>2. SensorsReady /\ SensorsReady'
    BY <1>2, <2>1 DEF SensorsReady
  <2>3. \A e \in Elements : latest[Source(e)].number > 0
    <3>1. \A e \in Elements : Arrivals(e) > 0
      BY <2>2 DEF SensorsReady, Arrivals
    <3>2. \A e \in Elements : latest[Source(e)].number = Arrivals(e)
      BY SourceKind DEF SnapshotInv
    <3> QED
      BY <3>1, <3>2
  <2>4. ASSUME NEW e \in Elements, e \notin Left(getting') \/ rl_init_done
        PROVE  robot_state'[e].number > 0
    <3>1. CASE e = Head(getting)
      BY <1>5, <2>3, <3>1, GetFacts
    <3>2. CASE e # Head(getting)
      BY <1>2, <1>5, <2>1, <2>4, <3>2, GetFacts
    <3> QED
      BY <3>1, <3>2
  <2>5. control' = "act" => Left(getting') = {}
    BY <1>5, GetFacts
  <2> QED
    BY <1>1, <1>2, <2>1, <2>2, <2>4, <2>5 DEF ReportInv, policyVars
<1>6. CASE SetCommand
  BY <1>1, <1>2, <1>6 DEF SetCommand, ReportInv, policyVars
<1>7. CASE RunModel
  BY <1>1, <1>2, <1>7 DEF RunModel, ReportInv, controlVars, sensorVars, SensorsReady
<1>8. CASE UNCHANGED <<imu, motors, controlVars, before>> /\ (policy' # "idle" => policy # "idle")
  BY <1>1, <1>2, <1>8 DEF ReportInv, controlVars, SensorsReady
<1>9. ReadState \/ Forward \/ UNCHANGED sensorPathVars
        => UNCHANGED <<imu, motors, controlVars, before>> /\ (policy' # "idle" => policy # "idle")
  BY DEF ReadState, Read, Forward, sensorPathVars, sensorVars, policyVars
<1> QED
  BY <1>3, <1>4, <1>5, <1>6, <1>7, <1>8, <1>9 DEF SensorNext, Message

-----------------------------------------------------------------------------
LEMMA SensorInvInit == SensorInit => SensorInv
<1> SUFFICES ASSUME SensorInit PROVE SensorInv
  OBVIOUS
<1>1. SensorTypeOK
  BY SensorTypeInit
<1>2. /\ getting = <<>> /\ reading = <<>> /\ writing = <<>> /\ control = "idle" /\ policy = "idle"
      /\ imu = 0 /\ motors = 0 /\ rl_init_done = FALSE /\ command = [m \in Joints |-> 0]
      /\ latest = [e \in Elements |-> Nothing] /\ robot_state = [e \in Elements |-> Nothing]
  BY DEF SensorInit
<1>3. \A e \in Elements : /\ latest[e].number = 0 /\ latest[e].from = 0
                          /\ robot_state[e].number = 0 /\ robot_state[e].from = 0
                          /\ Arrivals(e) = 0 /\ Source(e) \in Elements
  BY <1>1, <1>2, SourceFacts DEF Nothing, Arrivals, SensorTypeOK
<1>4. CopyInv
  BY <1>2, NothingLeft DEF CopyInv
<1>5. NumberInv
  BY <1>3 DEF NumberInv
<1>6. SnapshotInv
  BY <1>2, <1>3 DEF SnapshotInv
<1>7. OriginInv
  BY <1>2, <1>3, ElementFacts DEF OriginInv
<1>8. ReadInv /\ ReportInv
  BY <1>2 DEF ReadInv, ReportInv
<1> QED
  BY <1>1, <1>4, <1>5, <1>6, <1>7, <1>8 DEF SensorInv

THEOREM SensorInvariance == SensorSpec => []SensorInv
<1>1. SensorInv /\ [SensorNext]_sensorPathVars => SensorInv'
  BY SensorTypeStep, CopyStep, NumberStep, SnapshotStep, OriginStep, ReadStep, ReportStep DEF SensorInv
<1> QED
  BY <1>1, SensorInvInit, PTL DEF SensorSpec

LEMMA OneNumber ==
  ASSUME NEW state, NEW es, NEW a \in es, Whole(state, es)
  PROVE  Cardinality(Numbers(state, es)) = 1
<1>1. Numbers(state, es) = {state[a].number}
  BY DEF Numbers, Whole
<1> QED
  BY <1>1, FS_Singleton

(* Every variable keeps its type; a command names a joint for each motor.  *)
THEOREM SensorTypeCorrect == SensorSpec => []SensorTypeOK
<1>1. SensorInv => SensorTypeOK
  BY DEF SensorInv
<1> QED
  BY <1>1, SensorInvariance, PTL

(* What the state machine acts on is of one message of each kind, and of   *)
(* MuJoCo one step, for any number of joints.                              *)
THEOREM SnapshotWholeHolds == SensorSpec => []SnapshotWhole
<1>1. SensorInv => SnapshotWhole
  <2>1. ASSUME SensorInv, control = "act", program # "gazebo"
        PROVE  /\ Cardinality(Numbers(robot_state, ImuElements)) = 1
               /\ Cardinality(Numbers(robot_state, JointElements)) = 1
               /\ program = "mujoco" => Cardinality(Numbers(robot_state, Elements)) = 1
    <3>1. /\ Whole(robot_state, ImuElements) /\ Whole(robot_state, JointElements)
          /\ program = "mujoco" => Whole(robot_state, Elements)
      BY <2>1 DEF SensorInv, SnapshotInv
    <3>2. PICK a : a \in ImuElements /\ a \in Elements
      BY ElementFacts
    <3>3. PICK b : b \in JointElements
      BY ElementFacts, JointFacts
    <3> QED
      BY <3>1, <3>2, <3>3, OneNumber
  <2> QED
    BY <2>1 DEF SnapshotWhole
<1> QED
  BY <1>1, SensorInvariance, PTL

(* The real robot's policy sees no sensor that did not report. *)
THEOREM SeesSensorsHolds == SensorSpec => []SeesSensors
<1>1. SensorInv => SeesSensors
  <2> SUFFICES ASSUME SensorInv, policy = "run", program = "real", NEW e \in Elements
               PROVE  obs[e].number > 0
    BY DEF SeesSensors
  <2>1. reading = <<>> /\ e \notin Left(reading)
    BY NothingLeft DEF SensorInv, CopyInv
  <2>2. obs[e].number \in before[e].number..robot_state[e].number /\ before[e].number > 0
    BY <2>1 DEF SensorInv, ReadInv, ReportInv
  <2> QED
    BY <2>2, NumberType DEF SensorInv
<1> QED
  BY <1>1, SensorInvariance, PTL

(* RunModel's copy is between the robot_state it began with and the present *)
(* one, and is the former if no cycle of the control thread began.         *)
THEOREM SeesRecentHolds == SensorSpec => []SeesRecent
<1>1. SensorInv => SeesRecent
  <2> SUFFICES ASSUME SensorInv, policy = "run"
               PROVE  /\ \A e \in Elements : obs[e].number \in before[e].number..robot_state[e].number
                      /\ torn \/ obs = before
    BY DEF SeesRecent
  <2>1. Left(reading) = {}
    BY NothingLeft DEF SensorInv, CopyInv
  <2>2. \A e \in Elements : obs[e].number \in before[e].number..robot_state[e].number
    BY <2>1 DEF SensorInv, ReadInv
  <2>3. ~torn => \A e \in Elements : obs[e] = before[e]
    BY <2>1 DEF SensorInv, ReadInv
  <2>4. ~torn => obs = before
    BY <2>3 DEF SensorInv, SensorTypeOK
  <2> QED
    BY <2>2, <2>4
<1> QED
  BY <1>1, SensorInvariance, PTL

(* The state and the command of a joint are of the same motor, for every   *)
(* order of the motors.                                                    *)
THEOREM JointOrderHolds == SensorSpec => []JointOrder
<1>1. SensorInv => JointOrder
  <2> SUFFICES ASSUME SensorInv, NEW m \in Joints, command[m] # 0
               PROVE  robot_state[<<"q", command[m]>>].from \in {0, m}
    BY DEF JointOrder
  <2>1. command[m] \in Joints /\ joint_mapping[command[m]] = m
    <3>1. command[m] \in 0..NumJoints
      BY DEF SensorInv, SensorTypeOK
    <3>2. command[m] \in Joints
      BY <3>1, JointFacts DEF Joints
    <3> QED
      BY <3>2 DEF SensorInv, OriginInv
  <2> QED
    BY <2>1 DEF SensorInv, OriginInv
<1> QED
  BY <1>1, SensorInvariance, PTL
==============================================================================
