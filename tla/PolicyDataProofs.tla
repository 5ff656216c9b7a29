-------------------------- MODULE PolicyDataProofs --------------------------
(***************************************************************************)
(* What holds of the parts that only compute, for every policy, history,   *)
(* clip, command, network and gear: the invariants of PolicyObservation    *)
(* (PolicyInv), ObservationBuffer (BufInv), MotionLoader (MotionInv), L4W4 *)
(* (WireInv), InferenceRuntime (NetInv) and MotorGear (GearInv), and the   *)
(* properties of PolicyData that follow from them.                         *)
(***************************************************************************)
EXTENDS PolicyData, SequenceTheorems, FiniteSetTheorems, WellFoundedInduction, TLAPS

(***************************************************************************)
(* Induction. The library's principle takes a property as a parameter;     *)
(* that Nat has no infinite descent is stated of sets, and is enough.      *)
(***************************************************************************)

(* A set of numbers that is not empty has a least one. *)
LEMMA LeastNumber ==
  ASSUME NEW T, T \subseteq Nat, T # {}
  PROVE  \E n \in T : \A m \in T : n <= m
<1> DEFINE R == OpToRel(<, Nat)
<1>1. IsWellFoundedOn(R, Nat)
  BY NatLessThanWellFounded
<1>2. PICK n \in T : \A m \in T : ~(<<m, n>> \in R)
  <2> HIDE DEF R
  <2> QED
    BY <1>1, WFMin
<1>3. \A m \in T : ~(m < n)
  BY <1>2 DEF OpToRel
<1> QED
  BY <1>3

(* A set of numbers with 0 and the successor of each of its members. *)
LEMMA Induction ==
  ASSUME NEW S, S \subseteq Nat, 0 \in S, \A n \in S : n + 1 \in S
  PROVE  S = Nat
<1> SUFFICES ASSUME S # Nat PROVE FALSE
  OBVIOUS
<1>1. PICK n \in Nat \ S : \A m \in Nat \ S : n <= m
  BY LeastNumber
<1>2. n # 0 /\ n - 1 \in Nat /\ n - 1 \in S
  BY <1>1
<1> QED
  BY <1>1, <1>2

-----------------------------------------------------------------------------
(***************************************************************************)
(* Sequences joined together. FlattenSeq is the last value of a function   *)
(* on the indices that is defined by itself: it exists, by induction.      *)
(***************************************************************************)

Joins(seqs, f, n) ==
  f = [i \in 1..n |-> IF i = 1 THEN seqs[i] ELSE f[i - 1] \o seqs[i]]

(* Sequences of any number are joined by such a function. *)
LEMMA JoinsExist ==
  ASSUME NEW seqs, NEW k \in Nat
  PROVE  \E f : Joins(seqs, f, k)
<1> DEFINE S == {n \in Nat : \E f : Joins(seqs, f, n)}
<1>1. 0 \in S
  <2>1. Joins(seqs, [i \in 1..0 |-> 0], 0)
    BY DEF Joins
  <2> QED
    BY <2>1
<1>2. ASSUME NEW n \in S PROVE n + 1 \in S
  <2>1. PICK f : Joins(seqs, f, n)
    OBVIOUS
  <2> DEFINE g == [i \in 1..(n + 1) |-> IF i <= n THEN f[i]
                     ELSE IF i = 1 THEN seqs[i] ELSE f[n] \o seqs[i]]
  <2>2. ASSUME NEW i \in 1..n PROVE g[i] = IF i = 1 THEN seqs[i] ELSE g[i - 1] \o seqs[i]
    <3>1. f[i] = IF i = 1 THEN seqs[i] ELSE f[i - 1] \o seqs[i]
      BY <2>1 DEF Joins
    <3>2. g[i] = f[i] /\ (i # 1 => g[i - 1] = f[i - 1])
      OBVIOUS
    <3> HIDE DEF g
    <3> QED
      BY <3>1, <3>2
  <2>3. g[n + 1] = IF n + 1 = 1 THEN seqs[n + 1] ELSE g[(n + 1) - 1] \o seqs[n + 1]
    OBVIOUS
  <2>4. DOMAIN g = 1..(n + 1) /\ g = [i \in 1..(n + 1) |-> g[i]]
    OBVIOUS
  <2>5. \A i \in 1..(n + 1) : g[i] = IF i = 1 THEN seqs[i] ELSE g[i - 1] \o seqs[i]
    <3> HIDE DEF g
    <3>1. \A i \in 1..(n + 1) : i \in 1..n \/ i = n + 1
      OBVIOUS
    <3> QED
      BY <2>2, <2>3, <3>1
  <2>6. Joins(seqs, g, n + 1)
    <3> HIDE DEF g
    <3> QED
      BY <2>4, <2>5 DEF Joins
  <2> QED
    BY <2>6
<1>3. S = Nat
  <2> HIDE DEF S
  <2>1. S \subseteq Nat
    BY DEF S
  <2> QED
    BY <1>1, <1>2, <2>1, Induction
<1> QED
  BY <1>3

(* FlattenSeq is its last value. *)
LEMMA FlattenJoins ==
  ASSUME NEW seqs, Len(seqs) \in Nat, Len(seqs) # 0
  PROVE  \E f : Joins(seqs, f, Len(seqs)) /\ FlattenSeq(seqs) = f[Len(seqs)]
<1> DEFINE f == CHOOSE g : Joins(seqs, g, Len(seqs))
<1>1. Joins(seqs, f, Len(seqs))
  <2>1. \E g : Joins(seqs, g, Len(seqs))
    BY JoinsExist
  <2> QED
    BY <2>1, Zenon
<1>2. FlattenSeq(seqs) = f[Len(seqs)]
  BY DEF FlattenSeq, Joins
<1> QED
  BY <1>1, <1>2

(* What it adds at each index. *)
LEMMA JoinsAt ==
  ASSUME NEW seqs, NEW f, NEW n \in Nat, Joins(seqs, f, n), NEW i \in Nat, i + 1 \in 1..n
  PROVE  /\ i = 0 => f[i + 1] = seqs[i + 1]
         /\ i # 0 => f[i + 1] = f[i] \o seqs[i + 1]
<1>1. f[i + 1] = IF i + 1 = 1 THEN seqs[i + 1] ELSE f[(i + 1) - 1] \o seqs[i + 1]
  BY DEF Joins
<1>2. (i + 1) - 1 = i /\ (i + 1 = 1 <=> i = 0)
  OBVIOUS
<1> QED
  BY <1>1, <1>2

(* Sequences of the same lengths, one by one, are as long as each other    *)
(* when they are joined.                                                   *)
LEMMA FlattenLength ==
  ASSUME NEW a \in Seq(Seq(Int)), NEW b \in Seq(Seq(Int)), Len(a) = Len(b),
         \A i \in 1..Len(a) : Len(a[i]) = Len(b[i])
  PROVE  /\ FlattenSeq(a) \in Seq(Int) /\ FlattenSeq(b) \in Seq(Int)
         /\ Len(FlattenSeq(a)) = Len(FlattenSeq(b))
<1>1. CASE Len(a) = 0
  <2>1. a = <<>> /\ b = <<>>
    BY <1>1, EmptySeq
  <2>2. Len(<<>>) = 0
    OBVIOUS
  <2>3. FlattenSeq(a) = <<>> /\ FlattenSeq(b) = <<>>
    BY <2>1, <2>2 DEF FlattenSeq
  <2> QED
    BY <2>3
<1>2. CASE Len(a) # 0
  <2>1. PICK f : Joins(a, f, Len(a)) /\ FlattenSeq(a) = f[Len(a)]
    <3>1. Len(a) \in Nat
      OBVIOUS
    <3> QED
      BY <1>2, <3>1, FlattenJoins
  <2>2. PICK g : Joins(b, g, Len(a)) /\ FlattenSeq(b) = g[Len(a)]
    <3>1. Len(b) \in Nat /\ Len(b) # 0
      BY <1>2
    <3>2. \E g : Joins(b, g, Len(b)) /\ FlattenSeq(b) = g[Len(b)]
      BY <3>1, FlattenJoins
    <3> QED
      BY <3>2
  <2> DEFINE Same(i) == f[i] \in Seq(Int) /\ g[i] \in Seq(Int) /\ Len(f[i]) = Len(g[i])
             S == {i \in Nat : i \in 1..Len(a) => Same(i)}
  <2>3. 0 \in S
    OBVIOUS
  <2>4. ASSUME NEW i \in S PROVE i + 1 \in S
    <3> SUFFICES ASSUME i + 1 \in 1..Len(a) PROVE Same(i + 1)
      OBVIOUS
    <3>1. a[i + 1] \in Seq(Int) /\ b[i + 1] \in Seq(Int) /\ Len(a[i + 1]) = Len(b[i + 1])
      OBVIOUS
    <3>2. /\ i = 0 => f[i + 1] = a[i + 1] /\ g[i + 1] = b[i + 1]
          /\ i # 0 => f[i + 1] = f[i] \o a[i + 1] /\ g[i + 1] = g[i] \o b[i + 1]
      <4>1. Joins(a, f, Len(a)) /\ Joins(b, g, Len(a)) /\ Len(a) \in Nat /\ i \in Nat
        BY <2>1, <2>2
      <4> HIDE DEF S, Same
      <4> QED
        BY <4>1, JoinsAt
    <3>3. CASE i = 0
      BY <3>1, <3>2, <3>3
    <3>4. CASE i # 0
      <4>1. Same(i)
        BY <3>4
      <4>2. f[i] \o a[i + 1] \in Seq(Int) /\ Len(f[i] \o a[i + 1]) = Len(f[i]) + Len(a[i + 1])
        BY <3>1, <4>1, ConcatProperties
      <4>3. g[i] \o b[i + 1] \in Seq(Int) /\ Len(g[i] \o b[i + 1]) = Len(g[i]) + Len(b[i + 1])
        BY <3>1, <4>1, ConcatProperties
      <4> QED
        BY <3>1, <3>2, <3>4, <4>1, <4>2, <4>3
    <3> QED
      BY <3>3, <3>4
  <2>5. S = Nat
    <3> HIDE DEF S
    <3>1. S \subseteq Nat
      BY DEF S
    <3> QED
      BY <2>3, <2>4, <3>1, Induction
  <2>6. Same(Len(a))
    <3>1. Len(a) \in S /\ Len(a) \in 1..Len(a)
      <4> HIDE DEF S
      <4> QED
        BY <1>2, <2>5
    <3> QED
      BY <3>1
  <2> QED
    BY <2>1, <2>2, <2>6
<1> QED
  BY <1>1, <1>2
-----------------------------------------------------------------------------
(***************************************************************************)
(* The invariant.                                                          *)
(***************************************************************************)

(* The observations of a policy that is running: as many numbers of each   *)
(* kind as when it was entered.                                            *)
Dofs(p) == Len(p.default_dof_pos)
CommandsLength(p) == IF Len(p.commands_scale) > 3 THEN Len(p.commands_scale) ELSE 3
ObsOf(p) ==
  [ang_vel : Vectors(3), gravity_vec : {<<0, 0, -1>>}, commands : Vectors(CommandsLength(p)),
   base_quat : [1..4 -> Int], dof_pos : Vectors(Dofs(p)), dof_vel : Vectors(Dofs(p)),
   actions : Vectors(Dofs(p))]

FirstSize(p) == Len(ComputeObservation(p, InitObservations(p), 0))

(* The inferences are a sequence, and each observed as much as the policy  *)
(* expects.                                                                *)
EpisodeInv ==
  /\ episode \in Seq(ToSet(episode))
  /\ \A n \in 1..Len(episode) : episode[n].observation \in Vectors(params.num_observations)

(* What a running policy has: its own observation, of the size it expects, *)
(* and the actions it gave last.                                           *)
RunningInv ==
  rl_init_done =>
    /\ obs \in ObsOf(params)
    /\ FirstSize(params) = params.num_observations
    /\ obs.actions = IF episode = <<>> THEN Zeros(NumDofs) ELSE Latest.actions

(* Step k of the history is the observation of k inferences ago.           *)
ObservedAgo(k) ==
  IF Len(episode) - k > 0 THEN episode[Len(episode) - k].observation
  ELSE Zeros(params.num_observations)

HistoryInv ==
  rl_init_done /\ params.observations_history # <<>> =>
    /\ history_obs_buf.size = params.num_observations
    /\ history_obs_buf = [size |-> history_obs_buf.size, steps |-> history_obs_buf.steps]
    /\ history_obs_buf.steps \in Seq(Vectors(params.num_observations))
    /\ Len(history_obs_buf.steps) = Max(ToSet(params.observations_history)) + 1
    /\ \A t \in 1..Len(history_obs_buf.steps) : history_obs_buf.steps[t] = ObservedAgo(t - 1)

(* The last inference looked at the attitude it observed. *)
ProtectInv ==
  episode # <<>> => Latest.quat \in Orientations /\ protect.p = AttitudeProtect(Latest.quat)

PolicyInv ==
  /\ TypeOK /\ EpisodeInv /\ RunningInv /\ HistoryInv /\ ProtectInv
  /\ EpisodeOnly /\ ActionsFed /\ FrameBody
-----------------------------------------------------------------------------
(***************************************************************************)
(* Vectors.                                                                *)
(***************************************************************************)

Shorter(m, n) == IF m < n THEN m ELSE n

(* Element by element, two vectors give one as long as the shorter. *)
LEMMA PairwiseLength ==
  ASSUME NEW m \in Nat, NEW n \in Nat, NEW u \in Vectors(m), NEW v \in Vectors(n)
  PROVE  {Plus(u, v), Minus(u, v), Times(u, v)} \subseteq Vectors(Shorter(m, n))
<1> DEFINE k == Shorter(m, n)
<1>1. u \in Seq(Int) /\ v \in Seq(Int) /\ Len(u) = m /\ Len(v) = n
  BY DEF Vectors
<1>2. k \in Nat /\ k <= m /\ k <= n
  BY DEF Shorter
<1>3. \A i \in 1..k : /\ u[i] \in Int /\ v[i] \in Int
                      /\ u[i] + v[i] \in Int /\ u[i] - v[i] \in Int /\ u[i] * v[i] \in Int
  <2> HIDE DEF k
  <2>1. \A i \in 1..k : i \in 1..m /\ i \in 1..n
    BY <1>2
  <2>2. \A i \in 1..k : u[i] \in Int /\ v[i] \in Int
    BY <1>1, <2>1, ElementOfSeq
  <2> QED
    BY <2>2
<1>4. ASSUME NEW f, \A i \in 1..k : f[i] \in Int
      PROVE  SubSeq(f, 1, k) \in Vectors(k)
  <2> HIDE DEF k
  <2>1. SubSeq(f, 1, k) \in Seq(Int) /\ Len(SubSeq(f, 1, k)) = IF 1 <= k THEN k - 1 + 1 ELSE 0
    BY <1>2, <1>4, SubSeqProperties
  <2> QED
    BY <1>2, <2>1 DEF Vectors
<1>5. (IF Len(u) < Len(v) THEN Len(u) ELSE Len(v)) = k
  BY <1>1 DEF Shorter
<1>6. Plus(u, v) \in Vectors(k)
  <2>1. Plus(u, v) = SubSeq([i \in 1..k |-> u[i] + v[i]], 1, k)
    BY <1>5 DEF Plus, Pairwise
  <2> HIDE DEF k
  <2> QED
    BY <1>3, <1>4, <2>1
<1>7. Minus(u, v) \in Vectors(k)
  <2>1. Minus(u, v) = SubSeq([i \in 1..k |-> u[i] - v[i]], 1, k)
    BY <1>5 DEF Minus, Pairwise
  <2> HIDE DEF k
  <2> QED
    BY <1>3, <1>4, <2>1
<1>8. Times(u, v) \in Vectors(k)
  <2>1. Times(u, v) = SubSeq([i \in 1..k |-> u[i] * v[i]], 1, k)
    BY <1>5 DEF Times, Pairwise
  <2> HIDE DEF k
  <2> QED
    BY <1>3, <1>4, <2>1
<1> QED
  BY <1>6, <1>7, <1>8

(* A function of the indices is a vector. *)
LEMMA IsVector ==
  ASSUME NEW n \in Nat, NEW f, DOMAIN f = 1..n, f = [i \in 1..n |-> f[i]],
         \A i \in 1..n : f[i] \in Int
  PROVE  f \in Vectors(n)
BY DEF Vectors

(* The elements and the length of a vector. *)
LEMMA VectorFacts ==
  ASSUME NEW n \in Nat, NEW v \in Vectors(n)
  PROVE  v \in Seq(Int) /\ Len(v) = n /\ DOMAIN v = 1..n /\ \A i \in 1..n : v[i] \in Int
BY DEF Vectors

(* Each operator on vectors keeps their length: scaling, *)
LEMMA ScaledLength ==
  ASSUME NEW n \in Nat, NEW v \in Vectors(n), NEW factor \in Int
  PROVE  Scaled(v, factor) \in Vectors(n)
BY IsVector, VectorFacts DEF Scaled

(* negating, *)
LEMMA NegatedLength ==
  ASSUME NEW n \in Nat, NEW v \in Vectors(n)
  PROVE  Negated(v) \in Vectors(n)
BY IsVector, VectorFacts DEF Negated

(* zeros, *)
LEMMA ZerosLength ==
  ASSUME NEW n \in Nat
  PROVE  Zeros(n) \in Vectors(n)
BY IsVector DEF Zeros

(* clamping to one bound, *)
LEMMA ClampAllLength ==
  ASSUME NEW v \in Seq(Int), NEW low \in Int, NEW high \in Int
  PROVE  ClampAll(v, low, high) \in Vectors(Len(v))
<1>1. Len(v) \in Nat /\ v \in Vectors(Len(v))
  BY DEF Vectors
<1> QED
  BY <1>1, IsVector, VectorFacts DEF ClampAll, Clamp

(* clamping each element to its own. *)
LEMMA ClampVectorLength ==
  ASSUME NEW n \in Nat, NEW v \in Vectors(n), NEW lows \in Seq(Int), NEW highs \in Seq(Int)
  PROVE  ClampVector(v, lows, highs) \in Vectors(n)
<1>1. \A i \in 1..n : v[i] \in Int
  BY VectorFacts
<1>2. ASSUME NEW b \in Seq(Int), NEW i \in 1..n
      PROVE  Bound(b, v, i) \in Int
  BY <1>1, EmptySeq DEF Bound
<1>3. \A i \in 1..n : Clamp(v[i], Bound(lows, v, i), Bound(highs, v, i)) \in Int
  BY <1>1, <1>2 DEF Clamp
<1> QED
  BY <1>3, IsVector, VectorFacts DEF ClampVector
-----------------------------------------------------------------------------
(***************************************************************************)
(* The size of an observation depends on the policy alone.                 *)
(***************************************************************************)

(* What the assumptions on the data of a policy say of its sizes. *)
LEMMA PolicyFacts ==
  ASSUME NEW p \in Policies
  PROVE  /\ Dofs(p) \in Nat /\ CommandsLength(p) \in Nat /\ p.num_observations \in Nat
         /\ p.observations \in Seq(Names) /\ p.observations_history \in Seq(Nat)
         /\ p.obs_mapping \in Seq(1..Dofs(p))
         /\ {p.ang_vel_scale, p.dof_pos_scale, p.dof_vel_scale, p.clip_obs} \subseteq Int
         /\ p.commands_scale \in Vectors(Len(p.commands_scale)) /\ p.clip_actions \in Seq(Int)
         /\ Len(p.commands_scale) \in Nat
         /\ {p.default_dof_pos, p.action_scale, p.rl_kp, p.rl_kd, p.torque_limits}
              \subseteq Vectors(Dofs(p))
<1>1. /\ p.num_observations \in Nat
      /\ p.observations \in Seq(Names) /\ p.observations_history \in Seq(Nat)
      /\ p.obs_mapping \in Seq(1..Dofs(p))
      /\ {p.ang_vel_scale, p.dof_pos_scale, p.dof_vel_scale, p.clip_obs} \subseteq Int
      /\ {p.commands_scale, p.clip_actions} \subseteq Seq(Int)
      /\ {p.default_dof_pos, p.action_scale, p.rl_kp, p.rl_kd, p.torque_limits}
           \subseteq Vectors(Dofs(p))
  BY SizesAssumption DEF Dofs
<1>2. Dofs(p) \in Nat
  BY <1>1 DEF Dofs, Vectors
<1>3. Len(p.commands_scale) \in Nat /\ p.commands_scale \in Vectors(Len(p.commands_scale))
  BY <1>1 DEF Vectors
<1>4. CommandsLength(p) \in Nat
  BY <1>3 DEF CommandsLength
<1> QED
  BY <1>1, <1>2, <1>3, <1>4

(* Joints in another order are as many. *)
LEMMA ReorderedLength ==
  ASSUME NEW p \in Policies, NEW v \in Vectors(Dofs(p))
  PROVE  Reordered(p, v) \in
           Vectors(IF p.obs_mapping = <<>> THEN Dofs(p) ELSE Len(p.obs_mapping))
<1>1. CASE p.obs_mapping = <<>>
  BY <1>1 DEF Reordered
<1>2. CASE p.obs_mapping # <<>>
  <2> DEFINE m == p.obs_mapping
             n == Len(m)
             f == [i \in DOMAIN m |-> v[m[i]]]
  <2>1. n \in Nat /\ DOMAIN m = 1..n /\ \A i \in 1..n : m[i] \in 1..Dofs(p)
    BY PolicyFacts
  <2>2. \A j \in 1..Dofs(p) : v[j] \in Int
    BY PolicyFacts, VectorFacts
  <2>3. DOMAIN f = 1..n /\ f = [i \in 1..n |-> f[i]] /\ \A i \in 1..n : f[i] \in Int
    BY <2>1, <2>2
  <2>4. f \in Vectors(n)
    <3> HIDE DEF f, n
    <3> QED
      BY <2>1, <2>3, IsVector
  <2> QED
    BY <1>2, <2>4 DEF Reordered
<1> QED
  BY <1>1, <1>2

TermLength(name, p) ==
  CASE name \in {"ang_vel", "gravity_vec"} -> 3
    [] name = "commands" -> Len(p.commands_scale)
    [] name \in {"dof_pos", "dof_vel"} ->
         IF p.obs_mapping = <<>> THEN Dofs(p) ELSE Len(p.obs_mapping)
    [] name = "actions" -> Dofs(p)
    [] name = "takeoff/phase" -> 2

(* A rotated vector has three elements. *)
LEMMA RotatedLength ==
  ASSUME NEW q \in [1..4 -> Int], NEW v \in Vectors(3)
  PROVE  QuatRotateInverse(q, v) \in Vectors(3)
<1> DEFINE f == [i \in 1..3 |-> v[i] * (2 * q[1] * q[1] - Scale * Scale)
                  + (-1) * 2 * q[1] * Cross(Axis(q), v)[i] + 2 * q[i + 1] * Dot(Axis(q), v)]
<1>1. v[1] \in Int /\ v[2] \in Int /\ v[3] \in Int
  BY VectorFacts
<1>2. q[1] \in Int /\ q[2] \in Int /\ q[3] \in Int /\ q[4] \in Int /\ Scale \in Int
  BY ScaleAssumption
<1>3. Axis(q)[1] = q[2] /\ Axis(q)[2] = q[3] /\ Axis(q)[3] = q[4]
  BY DEF Axis
<1>4. Dot(Axis(q), v) \in Int /\ \A i \in 1..3 : Cross(Axis(q), v)[i] \in Int
  BY <1>1, <1>2, <1>3 DEF Dot, Cross
<1>5. \A i \in 1..3 : f[i] \in Int
  <2>1. \A i \in 1..3 : v[i] \in Int /\ q[i + 1] \in Int
    BY <1>1, <1>2
  <2> QED
    BY <1>2, <1>4, <2>1
<1>6. QuatRotateInverse(q, v) = f
  BY DEF QuatRotateInverse, Rotated
<1> QED
  <2> HIDE DEF f
  <2>1. DOMAIN f = 1..3 /\ f = [i \in 1..3 |-> f[i]]
    BY DEF f
  <2> QED
    BY <1>5, <1>6, <2>1, IsVector

(* Each term of an observation is a vector of the length its data gives. *)
LEMMA TermFacts ==
  ASSUME NEW p \in Policies, NEW o \in ObsOf(p), NEW n \in Nat, NEW name \in Names
  PROVE  Term(name, p, o, n) \in Vectors(TermLength(name, p)) /\ TermLength(name, p) \in Nat
<1>1. /\ o.ang_vel \in Vectors(3) /\ o.gravity_vec = <<0, 0, -1>>
      /\ o.commands \in Vectors(CommandsLength(p)) /\ o.base_quat \in [1..4 -> Int]
      /\ o.dof_pos \in Vectors(Dofs(p)) /\ o.dof_vel \in Vectors(Dofs(p))
      /\ o.actions \in Vectors(Dofs(p))
  BY DEF ObsOf
<1>2. CASE name = "ang_vel"
  BY <1>1, <1>2, PolicyFacts, RotatedLength, ScaledLength DEF Term, TermLength
<1>3. CASE name = "gravity_vec"
  <2>1. <<0, 0, -1>> \in Vectors(3)
    BY DEF Vectors
  <2> QED
    BY <1>1, <1>3, <2>1, RotatedLength DEF Term, TermLength
<1>4. CASE name = "commands"
  <2>1. Shorter(CommandsLength(p), Len(p.commands_scale)) = Len(p.commands_scale)
    BY PolicyFacts DEF Shorter, CommandsLength
  <2>2. Times(o.commands, p.commands_scale) \in Vectors(Len(p.commands_scale))
    BY <1>1, <2>1, PolicyFacts, PairwiseLength
  <2> QED
    BY <1>4, <2>2, PolicyFacts DEF Term, TermLength
<1>5. Shorter(Dofs(p), Dofs(p)) = Dofs(p) /\ Len(p.obs_mapping) \in Nat /\ Dofs(p) \in Nat
  BY PolicyFacts DEF Shorter
<1>6. CASE name = "dof_pos"
  <2> DEFINE rel == Minus(o.dof_pos, p.default_dof_pos)
  <2>1. rel \in Vectors(Dofs(p))
    BY <1>1, <1>5, PolicyFacts, PairwiseLength
  <2>2. DofPosRel(p, o) \in Vectors(Dofs(p))
    <3> DEFINE f == [i \in DOMAIN rel |->
                       IF p.zero_wheel_dof_pos /\ i \in p.wheel_indices THEN 0 ELSE rel[i]]
    <3>1. DOMAIN rel = 1..Dofs(p) /\ \A i \in 1..Dofs(p) : rel[i] \in Int
      <4> HIDE DEF rel
      <4> QED
        BY <1>5, <2>1, VectorFacts
    <3>2. DOMAIN f = 1..Dofs(p) /\ f = [i \in 1..Dofs(p) |-> f[i]]
      <4> HIDE DEF rel
      <4> QED
        BY <3>1
    <3>3. \A i \in 1..Dofs(p) : f[i] \in Int
      <4> HIDE DEF rel
      <4> QED
        BY <3>1
    <3>4. DofPosRel(p, o) = f
      BY DEF DofPosRel
    <3> HIDE DEF f
    <3> QED
      BY <1>5, <3>2, <3>3, <3>4, IsVector
  <2>3. Term(name, p, o, n) = Reordered(p, Scaled(DofPosRel(p, o), p.dof_pos_scale))
    BY <1>6 DEF Term
  <2>4. Scaled(DofPosRel(p, o), p.dof_pos_scale) \in Vectors(Dofs(p))
    BY <1>5, <2>2, PolicyFacts, ScaledLength
  <2> QED
    BY <1>5, <1>6, <2>3, <2>4, ReorderedLength DEF TermLength
<1>7. CASE name = "dof_vel"
  <2>1. Term(name, p, o, n) = Reordered(p, Scaled(o.dof_vel, p.dof_vel_scale))
    BY <1>7 DEF Term
  <2>2. Scaled(o.dof_vel, p.dof_vel_scale) \in Vectors(Dofs(p))
    BY <1>1, <1>5, PolicyFacts, ScaledLength
  <2> QED
    BY <1>5, <1>7, <2>1, <2>2, ReorderedLength DEF TermLength
<1>8. CASE name = "actions"
  BY <1>1, <1>5, <1>8 DEF Term, TermLength
<1>9. CASE name = "takeoff/phase"
  <2>1. (n % 4) + 1 \in 1..4
    OBVIOUS
  <2>2. <<<<0, 1, 0, -1>>[(n % 4) + 1], <<1, 0, -1, 0>>[(n % 4) + 1]>> \in Vectors(2)
    BY <2>1 DEF Vectors
  <2> QED
    BY <1>9, <2>2 DEF Term, TermLength, Phase
<1> QED
  BY <1>2, <1>3, <1>4, <1>6, <1>7, <1>8, <1>9 DEF Names

(* Two observations of one policy have one size, whatever the sensors say. *)
LEMMA ObservationSize ==
  ASSUME NEW p \in Policies, NEW o1 \in ObsOf(p), NEW n1 \in Nat,
         NEW o2 \in ObsOf(p), NEW n2 \in Nat
  PROVE  /\ ComputeObservation(p, o1, n1) \in Seq(Int)
         /\ Len(ComputeObservation(p, o1, n1)) = Len(ComputeObservation(p, o2, n2))
<1> DEFINE Terms(o, n) == [k \in DOMAIN p.observations |-> ObsList(p, o, n)[p.observations[k]]]
<1>1. ASSUME NEW o \in ObsOf(p), NEW n \in Nat
      PROVE  /\ Terms(o, n) \in Seq(Seq(Int)) /\ Len(Terms(o, n)) = Len(p.observations)
             /\ \A k \in 1..Len(p.observations) :
                  Len(Terms(o, n)[k]) = TermLength(p.observations[k], p)
  <2>1. /\ p.observations \in Seq(Names) /\ Len(p.observations) \in Nat
        /\ DOMAIN p.observations = 1..Len(p.observations)
    BY PolicyFacts
  <2>2. ASSUME NEW k \in 1..Len(p.observations)
        PROVE  Terms(o, n)[k] \in Seq(Int) /\ Len(Terms(o, n)[k]) = TermLength(p.observations[k], p)
    <3>1. p.observations[k] \in Names /\ p.observations[k] \in ToSet(p.observations)
      BY <2>1 DEF ToSet
    <3>2. Terms(o, n)[k] = Term(p.observations[k], p, o, n)
      BY <2>1, <3>1 DEF ObsList
    <3> HIDE DEF Terms
    <3> QED
      BY <3>1, <3>2, TermFacts, VectorFacts
  <2>3. DOMAIN Terms(o, n) = 1..Len(p.observations)
        /\ Terms(o, n) = [k \in 1..Len(p.observations) |-> Terms(o, n)[k]]
    BY <2>1
  <2>4. Terms(o, n) \in Seq(Seq(Int)) /\ Len(Terms(o, n)) = Len(p.observations)
    <3> DEFINE f == Terms(o, n)
               m == Len(p.observations)
    <3>1. \A k \in 1..m : f[k] \in Seq(Int)
      BY <2>2
    <3> HIDE DEF f
    <3>2. m \in Nat /\ DOMAIN f = 1..m /\ f = [k \in 1..m |-> f[k]]
      BY <2>1, <2>3 DEF f
    <3> HIDE DEF m
    <3>3. f \in Seq(Seq(Int)) /\ Len(f) = m
      BY <3>1, <3>2
    <3> QED
      BY <3>3 DEF f, m
  <2> HIDE DEF Terms
  <2> QED
    BY <2>2, <2>4
<1>2. ASSUME NEW o, NEW n
      PROVE  ComputeObservation(p, o, n) = ClampAll(FlattenSeq(Terms(o, n)), -p.clip_obs, p.clip_obs)
  BY DEF ComputeObservation
<1> HIDE DEF Terms
<1>3. /\ FlattenSeq(Terms(o1, n1)) \in Seq(Int) /\ FlattenSeq(Terms(o2, n2)) \in Seq(Int)
      /\ Len(FlattenSeq(Terms(o1, n1))) = Len(FlattenSeq(Terms(o2, n2)))
  <2> DEFINE a == Terms(o1, n1)
             b == Terms(o2, n2)
  <2>1. a \in Seq(Seq(Int)) /\ b \in Seq(Seq(Int)) /\ Len(a) = Len(b)
        /\ \A k \in 1..Len(a) : Len(a[k]) = Len(b[k])
    BY <1>1
  <2> HIDE DEF a, b
  <2>2. /\ FlattenSeq(a) \in Seq(Int) /\ FlattenSeq(b) \in Seq(Int)
        /\ Len(FlattenSeq(a)) = Len(FlattenSeq(b))
    BY <2>1, FlattenLength
  <2> QED
    BY <2>2 DEF a, b
<1>4. p.clip_obs \in Int /\ -p.clip_obs \in Int
  BY PolicyFacts
<1>5. ASSUME NEW v \in Seq(Int)
      PROVE  /\ ClampAll(v, -p.clip_obs, p.clip_obs) \in Seq(Int)
             /\ Len(ClampAll(v, -p.clip_obs, p.clip_obs)) = Len(v)
  BY <1>4, ClampAllLength, VectorFacts
<1> QED
  BY <1>2, <1>3, <1>5
-----------------------------------------------------------------------------
(***************************************************************************)
(* Rotations.                                                              *)
(***************************************************************************)

(* A unit quaternion, its components in units of 1/Scale. *)
LEMMA UnitFacts ==
  ASSUME NEW q \in Units
  PROVE  /\ q \in [1..4 -> Int] /\ Scale \in Int
         /\ q[1] * q[1] + q[2] * q[2] + q[3] * q[3] + q[4] * q[4] = Scale * Scale
<1>1. \A n \in (-Scale)..Scale : n \in Int
  BY ScaleAssumption
<1> QED
  BY <1>1, ScaleAssumption DEF Units, Norm2

(* QuatRotateInverse multiplies by the transposed matrix. *)
LEMMA InverseIsTranspose ==
  ASSUME NEW q \in Units, NEW v \in Vectors(3)
  PROVE  QuatRotateInverse(q, v) = Turned(q, v)
<1> DEFINE w == q[1]  x == q[2]  y == q[3]  z == q[4]  a == v[1]  b == v[2]  c == v[3]
<1>1. /\ w \in Int /\ x \in Int /\ y \in Int /\ z \in Int /\ Scale \in Int
      /\ a \in Int /\ b \in Int /\ c \in Int
      /\ w * w + x * x + y * y + z * z = Scale * Scale
  BY UnitFacts, VectorFacts
<1>2. Axis(q)[1] = x /\ Axis(q)[2] = y /\ Axis(q)[3] = z
  BY DEF Axis
<1>3. /\ QuatRotateInverse(q, v)[1] = a * (2 * w * w - Scale * Scale)
           + (-1) * 2 * w * (y * c - z * b) + 2 * x * (x * a + y * b + z * c)
      /\ QuatRotateInverse(q, v)[2] = b * (2 * w * w - Scale * Scale)
           + (-1) * 2 * w * (z * a - x * c) + 2 * y * (x * a + y * b + z * c)
      /\ QuatRotateInverse(q, v)[3] = c * (2 * w * w - Scale * Scale)
           + (-1) * 2 * w * (x * b - y * a) + 2 * z * (x * a + y * b + z * c)
  BY <1>2 DEF QuatRotateInverse, Rotated, Cross, Dot
<1>4. /\ Turned(q, v)[1] = (Scale * Scale - 2 * (y * y + z * z)) * a + (2 * (x * y + w * z)) * b
           + (2 * (x * z - w * y)) * c
      /\ Turned(q, v)[2] = (2 * (x * y - w * z)) * a + (Scale * Scale - 2 * (x * x + z * z)) * b
           + (2 * (y * z + w * x)) * c
      /\ Turned(q, v)[3] = (2 * (x * z + w * y)) * a + (2 * (y * z - w * x)) * b
           + (Scale * Scale - 2 * (x * x + y * y)) * c
  BY DEF Turned, Applied, Dot, TransposeMatrix3x3, QuaternionToRotationMatrix
<1>5. \A i \in {1, 2, 3} : QuatRotateInverse(q, v)[i] = Turned(q, v)[i]
  <2> HIDE DEF w, x, y, z, a, b, c
  <2>1. QuatRotateInverse(q, v)[1] = Turned(q, v)[1]
    BY <1>1, <1>3, <1>4
  <2>2. QuatRotateInverse(q, v)[2] = Turned(q, v)[2]
    BY <1>1, <1>3, <1>4
  <2>3. QuatRotateInverse(q, v)[3] = Turned(q, v)[3]
    BY <1>1, <1>3, <1>4
  <2> QED
    BY <2>1, <2>2, <2>3
<1>6. /\ QuatRotateInverse(q, v) = [i \in 1..3 |-> QuatRotateInverse(q, v)[i]]
      /\ Turned(q, v) = [i \in 1..3 |-> Turned(q, v)[i]]
  BY DEF QuatRotateInverse, Rotated, Turned, Applied
<1>7. 1..3 = {1, 2, 3}
  OBVIOUS
<1> QED
  BY <1>5, <1>6, <1>7

(* It also gives what the quaternion's own products do of gravity. *)
LEMMA InverseConjugates ==
  ASSUME NEW q \in Units
  PROVE  QuatRotateInverse(q, <<0, 0, -1>>) = Conjugated(q, <<0, 0, -1>>)
<1> DEFINE w == q[1]  x == q[2]  y == q[3]  z == q[4]
           g == <<0, 0, -1>>
           m == QuaternionMultiply(QuaternionConjugate(q), <<0>> \o g)
           t == QuaternionMultiply(m, q)
<1>1. /\ w \in Int /\ x \in Int /\ y \in Int /\ z \in Int /\ Scale \in Int
      /\ w * w + x * x + y * y + z * z = Scale * Scale
  BY UnitFacts
<1>2. Axis(q)[1] = x /\ Axis(q)[2] = y /\ Axis(q)[3] = z
  BY DEF Axis
<1>3. /\ (<<0>> \o g)[1] = 0 /\ (<<0>> \o g)[2] = 0
      /\ (<<0>> \o g)[3] = 0 /\ (<<0>> \o g)[4] = -1
  OBVIOUS
<1>4. m[1] = -z /\ m[2] = y /\ m[3] = -x /\ m[4] = -w
  <2> DEFINE v == <<0>> \o g
  <2>1. m = QuaternionMultiply(<<w, -x, -y, -z>>, v)
    BY DEF QuaternionConjugate
  <2> HIDE DEF v, m
  <2>2. v[1] = 0 /\ v[2] = 0 /\ v[3] = 0 /\ v[4] = -1
    BY <1>3 DEF v
  <2> QED
    BY <1>1, <2>1, <2>2 DEF QuaternionMultiply
<1>5. /\ t[2] = (-z) * x + y * w + (-x) * z - (-w) * y
      /\ t[3] = (-z) * y - y * z + (-x) * w + (-w) * x
      /\ t[4] = (-z) * z + y * y - (-x) * x + (-w) * w
  <2> HIDE DEF m
  <2> QED
    BY <1>1, <1>4 DEF QuaternionMultiply
<1>6. Conjugated(q, g) = SubSeq(t, 2, 4)
  BY DEF Conjugated, Axis
<1>7. SubSeq(t, 2, 4) = [i \in 1..3 |-> t[i + 1]]
  <2> HIDE DEF t
  <2> QED
    OBVIOUS
<1>8. /\ QuatRotateInverse(q, g)[1] = 0 * (2 * w * w - Scale * Scale)
           + (-1) * 2 * w * (y * (-1) - z * 0) + 2 * x * (x * 0 + y * 0 + z * (-1))
      /\ QuatRotateInverse(q, g)[2] = 0 * (2 * w * w - Scale * Scale)
           + (-1) * 2 * w * (z * 0 - x * (-1)) + 2 * y * (x * 0 + y * 0 + z * (-1))
      /\ QuatRotateInverse(q, g)[3] = (-1) * (2 * w * w - Scale * Scale)
           + (-1) * 2 * w * (x * 0 - y * 0) + 2 * z * (x * 0 + y * 0 + z * (-1))
  BY <1>2 DEF QuatRotateInverse, Rotated, Cross, Dot
<1>9. /\ QuatRotateInverse(q, g)[1] = t[2]
      /\ QuatRotateInverse(q, g)[2] = t[3]
      /\ QuatRotateInverse(q, g)[3] = t[4]
  <2> HIDE DEF w, x, y, z, g, t
  <2>1. QuatRotateInverse(q, g)[1] = t[2]
    BY <1>1, <1>5, <1>8
  <2>2. QuatRotateInverse(q, g)[2] = t[3]
    BY <1>1, <1>5, <1>8
  <2>3. QuatRotateInverse(q, g)[3] = t[4]
    BY <1>1, <1>5, <1>8
  <2> QED
    BY <2>1, <2>2, <2>3
<1>10. QuatRotateInverse(q, g) = [i \in 1..3 |-> QuatRotateInverse(q, g)[i]]
  BY DEF QuatRotateInverse, Rotated
<1>11. \A i \in 1..3 : QuatRotateInverse(q, g)[i] = t[i + 1]
  <2> HIDE DEF g, t
  <2>1. \A i \in 1..3 : i = 1 \/ i = 2 \/ i = 3
    OBVIOUS
  <2> QED
    BY <1>9, <2>1
<1> QED
  BY <1>6, <1>7, <1>10, <1>11

-----------------------------------------------------------------------------
(***************************************************************************)
(* Falling over.                                                           *)
(***************************************************************************)

(* The third row of the rotation matrix has length one: up is the cosine   *)
(* of the roll, next to it are the sines of the roll and of the pitch.     *)
LEMMA RowLength ==
  ASSUME NEW q \in Units
  PROVE  LET s == RollOf(q)[1]  c == RollOf(q)[2]  p == PitchOf(q)
         IN /\ s \in Int /\ c \in Int /\ p \in Int
            /\ c = QuaternionToRotationMatrix(q)[3][3]
            /\ s * s + c * c + p * p = (Scale * Scale) * (Scale * Scale)
<1> DEFINE w == q[1]  x == q[2]  y == q[3]  z == q[4]
           s == 2 * (w * x + y * z)
           c == Scale * Scale - 2 * (x * x + y * y)
           p == 2 * (w * y - z * x)
<1>1. /\ w \in Int /\ x \in Int /\ y \in Int /\ z \in Int /\ Scale \in Int
      /\ w * w + x * x + y * y + z * z = Scale * Scale
  BY UnitFacts
<1>2. RollOf(q)[1] = s /\ RollOf(q)[2] = c /\ PitchOf(q) = p
  BY DEF RollOf, PitchOf
<1>3. QuaternionToRotationMatrix(q)[3][3] = c
  BY DEF QuaternionToRotationMatrix
<1>4. s * s + c * c + p * p = (Scale * Scale) * (Scale * Scale)
  <2> HIDE DEF w, x, y, z
  <2> QED
    BY <1>1
<1>5. s \in Int /\ c \in Int /\ p \in Int
  <2> HIDE DEF w, x, y, z
  <2> QED
    BY <1>1
<1> HIDE DEF s, c, p
<1> QED
  BY <1>2, <1>3, <1>4, <1>5

(* Squares grow with their roots. *)
LEMMA SquareGrows ==
  ASSUME NEW a \in Int, NEW b \in Int, 0 <= a, a < b
  PROVE  a * a <= b * b /\ a * a < b * b
OBVIOUS

(* Less than 1/20 up is a fall, more than 1/3 up is none. *)
LEMMA FallFacts ==
  ASSUME NEW q \in Units
  PROVE  LET up == QuaternionToRotationMatrix(q)[3][3]
         IN /\ 20 * up < Scale * Scale => AttitudeProtect(q)
            /\ 3 * up > Scale * Scale => ~AttitudeProtect(q)
<1> DEFINE s == RollOf(q)[1]  c == RollOf(q)[2]  p == PitchOf(q)
           n == Scale * Scale
           S == s * s  C == c * c  P == p * p  N == n * n
<1>1. /\ s \in Int /\ c \in Int /\ p \in Int /\ c = QuaternionToRotationMatrix(q)[3][3]
      /\ S + C + P = N
  BY RowLength
<1>2. n \in Int /\ n > 0 /\ N \in Int /\ S \in Int /\ C \in Int /\ P \in Int /\ N > 0
      /\ S >= 0 /\ C >= 0 /\ P >= 0
  BY <1>1, ScaleAssumption
<1>3. AttitudeProtect(q) <=> c < 0 \/ 1000 * S > 13928 * C \/ 1000 * P > 933 * N
  <2>1. RollOver75(q) <=> c < 0 \/ 1000 * s * s > 13928 * c * c
    BY DEF RollOver75
  <2>2. PitchOver75(q) <=> 1000 * (p * p) > 933 * Scale * Scale * Scale * Scale
    BY DEF PitchOver75
  <2>3. /\ 1000 * s * s = 1000 * S /\ 13928 * c * c = 13928 * C
        /\ 933 * Scale * Scale * Scale * Scale = 933 * N
    <3> HIDE DEF s, c
    <3> QED
      BY <1>1, ScaleAssumption
  <2> HIDE DEF s, c, p, N, S, C
  <2> QED
    BY <2>1, <2>2, <2>3 DEF AttitudeProtect
<1>4. ASSUME 20 * c < n, c >= 0 PROVE 400 * C <= N
  <2> HIDE DEF c, n
  <2>1. (20 * c) * (20 * c) <= n * n
    BY <1>1, <1>2, <1>4, SquareGrows
  <2> QED
    BY <1>1, <2>1
<1>5. ASSUME 3 * c > n PROVE 9 * C > N /\ c > 0
  <2> HIDE DEF c, n
  <2>1. n * n < (3 * c) * (3 * c)
    BY <1>1, <1>2, <1>5, SquareGrows
  <2> QED
    BY <1>1, <1>2, <1>5, <2>1
<1> HIDE DEF S, C, P, N
<1>6. ASSUME 400 * C <= N, ~(1000 * S > 13928 * C) PROVE 1000 * P > 933 * N
  BY <1>1, <1>2, <1>6
<1>7. ASSUME 9 * C > N PROVE ~(1000 * S > 13928 * C) /\ ~(1000 * P > 933 * N)
  BY <1>1, <1>2, <1>7
<1> HIDE DEF s, c, p, n
<1>8. 20 * c < n => AttitudeProtect(q)
  BY <1>1, <1>2, <1>3, <1>4, <1>6
<1>9. 3 * c > n => ~AttitudeProtect(q)
  BY <1>1, <1>2, <1>3, <1>5, <1>7
<1> QED
  BY <1>1, <1>8, <1>9 DEF n
-----------------------------------------------------------------------------
(***************************************************************************)
(* Sequences that grow.                                                    *)
(***************************************************************************)

(* The observations of an episode after one more inference. *)
LEMMA Appended ==
  ASSUME NEW s, s \in Seq(ToSet(s)), NEW e
  PROVE  /\ Append(s, e) \in Seq(ToSet(Append(s, e)))
         /\ Len(s) \in Nat /\ Len(Append(s, e)) = Len(s) + 1
         /\ Append(s, e)[Len(s) + 1] = e
         /\ \A i \in 1..Len(s) : Append(s, e)[i] = s[i]
         /\ Append(s, e) # <<>> /\ Last(Append(s, e)) = e
<1> DEFINE T == ToSet(s) \cup {e}
           a == Append(s, e)
<1>1. s \in Seq(T)
  <2> HIDE DEF T
  <2>1. ToSet(s) \subseteq T
    BY DEF T
  <2> QED
    BY <2>1, SeqMonotonic
<1>2. /\ a \in Seq(T) /\ Len(a) = Len(s) + 1 /\ Len(s) \in Nat
      /\ a[Len(s) + 1] = e /\ \A i \in 1..Len(s) : a[i] = s[i]
  <2> HIDE DEF T
  <2>1. e \in T
    BY DEF T
  <2> QED
    BY <1>1, <2>1, AppendProperties
<1>3. DOMAIN a = 1..Len(a) /\ a = [i \in 1..Len(a) |-> a[i]] /\ Len(a) \in Nat
  <2> HIDE DEF T, a
  <2> QED
    BY <1>2
<1>4. a \in Seq(ToSet(a))
  <2> HIDE DEF a
  <2>1. \A i \in 1..Len(a) : a[i] \in ToSet(a)
    BY <1>3 DEF ToSet
  <2> QED
    BY <1>3, <2>1
<1>5. a # <<>>
  <2> HIDE DEF a, T
  <2>1. Len(<<>>) = 0 /\ Len(s) + 1 # 0
    BY <1>2
  <2> QED
    BY <1>2, <2>1, Zenon
<1>6. Last(a) = e
  <2> HIDE DEF a
  <2> QED
    BY <1>2 DEF Last
<1> QED
  BY <1>2, <1>4, <1>5, <1>6

(* The steps of a history have a greatest one. *)
LEMMA OldestStep ==
  ASSUME NEW h \in Seq(Nat), h # <<>>
  PROVE  Max(ToSet(h)) \in Nat /\ \A k \in 1..Len(h) : h[k] <= Max(ToSet(h))
<1>1. Len(h) \in Nat /\ Len(h) >= 1 /\ DOMAIN h = 1..Len(h) /\ \A k \in 1..Len(h) : h[k] \in Nat
  BY EmptySeq
<1> DEFINE S == {n \in Nat : 1 <= n /\ n <= Len(h) =>
                   \E i \in 1..n : \A k \in 1..n : h[k] <= h[i]}
<1>2. 0 \in S
  OBVIOUS
<1>3. ASSUME NEW n \in S PROVE n + 1 \in S
  <2> SUFFICES ASSUME n + 1 <= Len(h)
               PROVE  \E i \in 1..(n + 1) : \A k \in 1..(n + 1) : h[k] <= h[i]
    OBVIOUS
  <2>1. \A k \in 1..(n + 1) : h[k] \in Nat /\ (k \in 1..n \/ k = n + 1)
    BY <1>1
  <2>2. CASE n = 0
    BY <2>1, <2>2
  <2>3. CASE n # 0
    <3>1. PICK i \in 1..n : \A k \in 1..n : h[k] <= h[i]
      BY <1>1, <2>3
    <3>2. CASE h[n + 1] <= h[i]
      <4>1. \A k \in 1..(n + 1) : h[k] <= h[i]
        BY <2>1, <3>1, <3>2
      <4>2. i \in 1..(n + 1)
        OBVIOUS
      <4> QED
        BY <4>1, <4>2, Zenon
    <3>3. CASE ~(h[n + 1] <= h[i])
      <4>1. \A k \in 1..(n + 1) : h[k] <= h[n + 1]
        BY <2>1, <3>1, <3>3
      <4> QED
        BY <4>1
    <3> QED
      BY <3>2, <3>3
  <2> QED
    BY <2>2, <2>3
<1>4. S = Nat
  <2> HIDE DEF S
  <2>1. S \subseteq Nat
    BY DEF S
  <2> QED
    BY <1>2, <1>3, <2>1, Induction
<1>5. PICK i \in 1..Len(h) : \A k \in 1..Len(h) : h[k] <= h[i]
  <2>1. Len(h) \in S
    <3> HIDE DEF S
    <3> QED
      BY <1>1, <1>4
  <2> QED
    BY <1>1, <2>1
<1>6. \E x \in ToSet(h) : \A y \in ToSet(h) : x >= y
  <2>1. h[i] \in ToSet(h) /\ \A y \in ToSet(h) : h[i] >= y
    BY <1>1, <1>5 DEF ToSet
  <2> QED
    BY <2>1
<1>7. Max(ToSet(h)) \in ToSet(h) /\ \A y \in ToSet(h) : Max(ToSet(h)) >= y
  BY <1>6, Zenon DEF Max
<1>8. ToSet(h) \subseteq Nat /\ \A k \in 1..Len(h) : h[k] \in ToSet(h)
  BY <1>1 DEF ToSet
<1> QED
  BY <1>1, <1>7, <1>8
-----------------------------------------------------------------------------
(***************************************************************************)
(* Steps.                                                                  *)
(***************************************************************************)

(* A policy that is loaded has observed its default pose, *)
LEMMA FirstObservations ==
  ASSUME NEW p \in Policies
  PROVE  InitObservations(p) \in ObsOf(p) /\ InitObservations(p).actions = Zeros(Dofs(p))
<1>1. Zeros(3) \in Vectors(3) /\ Zeros(Dofs(p)) \in Vectors(Dofs(p))
      /\ Zeros(CommandsLength(p)) \in Vectors(CommandsLength(p))
  BY PolicyFacts, ZerosLength
<1>2. <<Scale, 0, 0, 0>> \in [1..4 -> Int]
  BY ScaleAssumption
<1>3. p.default_dof_pos \in Vectors(Dofs(p))
  BY PolicyFacts
<1>4. InitObservations(p) =
        [ang_vel |-> Zeros(3), gravity_vec |-> <<0, 0, -1>>, commands |-> Zeros(CommandsLength(p)),
         base_quat |-> <<Scale, 0, 0, 0>>, dof_pos |-> p.default_dof_pos,
         dof_vel |-> Zeros(Dofs(p)), actions |-> Zeros(Dofs(p))]
  BY DEF InitObservations, Observations, CommandsLength, Dofs
<1> QED
  BY <1>1, <1>2, <1>3, <1>4 DEF ObsOf

(* gives no commands yet, for each of its joints, *)
LEMMA FirstOutputs ==
  ASSUME NEW p \in Policies
  PROVE  LET o == InitOutputs(p)
         IN Len(o.pos) = Dofs(p) /\ Len(o.vel) = Dofs(p) /\ Len(o.tau) = Dofs(p)
<1>1. Len(Zeros(Dofs(p))) = Dofs(p)
  BY PolicyFacts, ZerosLength, VectorFacts
<1> QED
  BY <1>1 DEF InitOutputs, Dofs

(* and remembers zeros, as many steps as it may ask for. *)
LEMMA FirstHistory ==
  ASSUME NEW p \in Policies, p.observations_history # <<>>, NEW n \in Nat
  PROVE  LET b == InitHistory(p, n)
         IN /\ b = [size |-> n, steps |-> b.steps] /\ b.size = n
            /\ b.steps \in Seq(Vectors(n))
            /\ Len(b.steps) = Max(ToSet(p.observations_history)) + 1
            /\ \A t \in 1..Len(b.steps) : b.steps[t] = Zeros(n)
<1> DEFINE m == Max(ToSet(p.observations_history)) + 1
<1>1. m \in Nat
  BY PolicyFacts, OldestStep
<1>2. Zeros(n) \in Vectors(n)
  BY ZerosLength
<1>3. InitHistory(p, n) = [size |-> n, steps |-> [t \in 1..m |-> Zeros(n)]]
  BY DEF InitHistory
<1> HIDE DEF m
<1>4. /\ [t \in 1..m |-> Zeros(n)] \in Seq(Vectors(n))
      /\ Len([t \in 1..m |-> Zeros(n)]) = m
  BY <1>1, <1>2
<1> QED
  BY <1>1, <1>3, <1>4 DEF m

(* The program begins with no policy running. *)
LEMMA PolicyInvInit == Init => PolicyInv
<1> SUFFICES ASSUME Init PROVE PolicyInv
  OBVIOUS
<1>1. /\ params \in Policies /\ rl_init_done = FALSE /\ episode = <<>>
      /\ output = InitOutputs(params) /\ history_obs_buf = [size |-> 0, steps |-> <<>>]
  BY DEF Init
<1>2. TypeOK
  <2>1. Len(output.pos) = NumDofs /\ Len(output.vel) = NumDofs /\ Len(output.tau) = NumDofs
    BY <1>1, FirstOutputs DEF NumDofs, Dofs
  <2>2. \A t \in DOMAIN history_obs_buf.steps : FALSE
    BY <1>1
  <2> QED
    BY <1>1, <2>1, <2>2 DEF TypeOK
<1>3. EpisodeInv
  <2>1. Len(<<>>) = 0 /\ <<>> \in Seq(ToSet(<<>>))
    OBVIOUS
  <2> QED
    BY <1>1, <2>1 DEF EpisodeInv
<1> QED
  BY <1>1, <1>2, <1>3
  DEF PolicyInv, RunningInv, HistoryInv, ProtectInv, EpisodeOnly, ActionsFed, FrameBody, Observed

(* A policy that is entered begins an episode of its own. *)
LEMMA EnterRLInv ==
  ASSUME PolicyInv, NEW p \in Policies, EnterRL(p)
  PROVE  PolicyInv'
<1> DEFINE o == InitObservations(p)
           size == Len(ComputeObservation(p, o, 0))
<1>1. /\ params' = p /\ obs' = o /\ episode' = <<>> /\ UNCHANGED protect
      /\ \/ /\ size # p.num_observations
            /\ UNCHANGED <<rl_init_done, output, history_obs_buf>>
         \/ /\ size = p.num_observations
            /\ output' = InitOutputs(p) /\ history_obs_buf' = InitHistory(p, size)
            /\ rl_init_done' \in BOOLEAN
      /\ ~rl_init_done
  BY DEF EnterRL, SizeFits
<1>2. o \in ObsOf(p) /\ o.actions = Zeros(Dofs(p))
  BY FirstObservations
<1>3. EpisodeInv'
  <2>1. Len(<<>>) = 0 /\ <<>> \in Seq(ToSet(<<>>))
    OBVIOUS
  <2> QED
    BY <1>1, <2>1 DEF EpisodeInv
<1>4. RunningInv'
  BY <1>1, <1>2 DEF RunningInv, FirstSize, NumDofs, Dofs
<1>5. HistoryInv'
  <2> SUFFICES ASSUME rl_init_done', p.observations_history # <<>>
               PROVE  HistoryInv'
    BY <1>1 DEF HistoryInv
  <2>1. history_obs_buf' = InitHistory(p, p.num_observations)
    BY <1>1
  <2>2. p.num_observations \in Nat
    BY PolicyFacts
  <2>3. \A k : ObservedAgo(k)' = IF Len(<<>>) - k > 0 THEN episode'[Len(<<>>) - k].observation
                                 ELSE Zeros(p.num_observations)
    BY <1>1 DEF ObservedAgo
  <2>4. \A t \in Nat \ {0} : ObservedAgo(t - 1)' = Zeros(p.num_observations)
    <3>1. \A t \in Nat \ {0} : ~(Len(<<>>) - (t - 1) > 0)
      OBVIOUS
    <3> QED
      BY <2>3, <3>1
  <2> QED
    BY <1>1, <2>1, <2>2, <2>4, FirstHistory DEF HistoryInv
<1>6. TypeOK'
  <2>1. Len(p.default_dof_pos) = NumDofs /\ NumDofs = Dofs(params)
    BY SizesAssumption DEF NumDofs, PolicyInv, TypeOK, Dofs
  <2>2. Len(output'.pos) = NumDofs' /\ Len(output'.vel) = NumDofs' /\ Len(output'.tau) = NumDofs'
    BY <1>1, <2>1, FirstOutputs DEF PolicyInv, TypeOK, NumDofs, Dofs
  <2>3. \A t \in DOMAIN history_obs_buf'.steps :
           Len(history_obs_buf'.steps[t]) = history_obs_buf'.size
    <3>1. CASE UNCHANGED history_obs_buf
      BY <3>1 DEF PolicyInv, TypeOK
    <3>2. CASE p.observations_history # <<>> /\ history_obs_buf' = InitHistory(p, p.num_observations)
      <4> DEFINE b == InitHistory(p, p.num_observations)
      <4>1. /\ b.size = p.num_observations /\ b.steps \in Seq(Vectors(p.num_observations))
            /\ \A t \in 1..Len(b.steps) : b.steps[t] = Zeros(p.num_observations)
        BY <3>2, PolicyFacts, FirstHistory
      <4>2. Len(Zeros(p.num_observations)) = p.num_observations
        BY PolicyFacts, ZerosLength, VectorFacts
      <4>3. DOMAIN b.steps = 1..Len(b.steps)
        <5> HIDE DEF b
        <5> QED
          BY <4>1
      <4> QED
        BY <3>2, <4>1, <4>2, <4>3
    <3> QED
      BY <1>1, <3>1, <3>2 DEF InitHistory
  <2>4. rl_init_done' => Len(obs'.dof_pos) = NumDofs' /\ Len(obs'.actions) = NumDofs'
    <3>1. o.dof_pos = p.default_dof_pos /\ o.actions = Zeros(Len(p.default_dof_pos))
      BY DEF InitObservations, Observations
    <3>2. Len(Zeros(Dofs(p))) = Dofs(p)
      BY PolicyFacts, ZerosLength, VectorFacts
    <3> QED
      BY <1>1, <3>1, <3>2 DEF NumDofs, Dofs
  <2>5. rl_init_done' \in BOOLEAN
    BY <1>1 DEF PolicyInv, TypeOK
  <2> QED
    BY <1>1, <2>2, <2>3, <2>4, <2>5 DEF TypeOK
<1> QED
  BY <1>1, <1>3, <1>4, <1>5, <1>6
  DEF PolicyInv, ProtectInv, EpisodeOnly, ActionsFed, FrameBody, Observed

(* A policy that is left, or left alone, keeps what it has. *)
LEMMA ExitInv ==
  ASSUME PolicyInv, Exit \/ UNCHANGED vars
  PROVE  PolicyInv'
<1>1. /\ UNCHANGED <<params, obs, history_obs_buf, output, protect, episode>>
      /\ rl_init_done' = FALSE \/ rl_init_done' = rl_init_done
  BY DEF Exit, vars
<1>2. TypeOK'
  <2>1. rl_init_done' \in BOOLEAN /\ (rl_init_done' => rl_init_done)
    <3>1. rl_init_done \in BOOLEAN
      BY DEF PolicyInv, TypeOK
    <3>2. CASE rl_init_done' = FALSE
      BY <3>2
    <3>3. CASE rl_init_done' = rl_init_done
      BY <3>1, <3>3, Zenon
    <3> QED
      BY <1>1, <3>2, <3>3
  <2> QED
    BY <1>1, <2>1 DEF PolicyInv, TypeOK, Latest, NumDofs
<1>5. EpisodeInv' /\ ProtectInv'
  BY <1>1 DEF PolicyInv, EpisodeInv, ProtectInv, Latest
<1>3. RunningInv' /\ HistoryInv'
  BY <1>1 DEF PolicyInv, RunningInv, HistoryInv, ObservedAgo, Latest, NumDofs
<1>4. EpisodeOnly' /\ ActionsFed' /\ FrameBody'
  BY <1>1 DEF PolicyInv, EpisodeOnly, ActionsFed, FrameBody, Observed, Latest, NumDofs
<1> QED
  BY <1>2, <1>3, <1>4, <1>5 DEF PolicyInv
(* What RunModel observes is the policy's observation. *)
LEMMA ObservedFacts ==
  ASSUME PolicyInv, rl_init_done, NEW in \in Inputs, NEW quat \in Orientations
  PROVE  [obs EXCEPT !.ang_vel = in.gyro, !.commands = Commands(in), !.base_quat = quat,
                     !.dof_pos = in.pos, !.dof_vel = in.vel] \in ObsOf(params)
<1>1. params \in Policies /\ obs \in ObsOf(params)
  BY DEF PolicyInv, TypeOK, RunningInv
<1>2. /\ {in.gyro, in.speed, in.cmd_vel} \subseteq Vectors(3)
      /\ {in.pos, in.vel} \subseteq Vectors(Dofs(params))
      /\ in.nav => Len(params.commands_scale) <= 3
  BY <1>1, SizesAssumption DEF Dofs
<1>3. quat \in [1..4 -> Int]
  BY DataAssumption, UnitFacts
<1>4. obs.commands \in Vectors(CommandsLength(params)) /\ Len(params.commands_scale) \in Nat
  BY <1>1, PolicyFacts DEF ObsOf
<1>5. Len(obs.commands) = CommandsLength(params)
  BY <1>4 DEF Vectors
<1>6. Commands(in) \in Vectors(CommandsLength(params))
  <2>1. CASE in.nav
    <3>1. CommandsLength(params) = 3
      BY <1>2, <1>4, <2>1 DEF CommandsLength
    <3> QED
      BY <1>2, <2>1, <3>1 DEF Commands
  <2>2. CASE ~in.nav /\ Len(obs.commands) <= 3
    <3>1. CommandsLength(params) = 3
      BY <1>4, <1>5, <2>2 DEF CommandsLength
    <3> QED
      BY <1>2, <2>2, <3>1 DEF Commands
  <2>3. CASE ~in.nav /\ ~(Len(obs.commands) <= 3)
    BY <1>4, <2>3 DEF Commands
  <2> QED
    BY <2>1, <2>2, <2>3
<1> DEFINE c == Commands(in)
<1> HIDE DEF c
<1>7. [obs EXCEPT !.ang_vel = in.gyro, !.commands = c, !.base_quat = quat,
                  !.dof_pos = in.pos, !.dof_vel = in.vel] \in ObsOf(params)
  BY <1>1, <1>2, <1>3, <1>6 DEF ObsOf, c
<1> QED
  BY <1>7 DEF c

(* A policy commands each of its joints. *)
LEMMA OutputLength ==
  ASSUME NEW p \in Policies, NEW o \in ObsOf(p), NEW actions \in Vectors(Dofs(p))
  PROVE  LET out == ComputeOutput(p, o, actions)
         IN Len(out.pos) = Dofs(p) /\ Len(out.vel) = Dofs(p) /\ Len(out.tau) = Dofs(p)
<1> DEFINE n == Dofs(p)
           scaled == Times(actions, p.action_scale)
           vel == [i \in DOMAIN scaled |-> IF i \in p.wheel_indices THEN scaled[i] ELSE 0]
           pos == Minus(scaled, vel)
           torque == Minus(Times(p.rl_kp, Minus(Plus(Plus(pos, vel), p.default_dof_pos), o.dof_pos)),
                           Times(p.rl_kd, o.dof_vel))
           tau == ClampVector(torque, Negated(p.torque_limits), p.torque_limits)
<1>1. /\ n \in Nat /\ Shorter(n, n) = n
      /\ {p.default_dof_pos, p.action_scale, p.rl_kp, p.rl_kd, p.torque_limits} \subseteq Vectors(n)
      /\ o.dof_pos \in Vectors(n) /\ o.dof_vel \in Vectors(n)
  BY PolicyFacts DEF Shorter, ObsOf
<1>2. ASSUME NEW u \in Vectors(n), NEW v \in Vectors(n)
      PROVE  {Plus(u, v), Minus(u, v), Times(u, v)} \subseteq Vectors(n)
  <2> HIDE DEF n
  <2>1. {Plus(u, v), Minus(u, v), Times(u, v)} \subseteq Vectors(Shorter(n, n))
    BY <1>1, <1>2, PairwiseLength
  <2> QED
    BY <1>1, <2>1
<1>3. scaled \in Vectors(n)
  BY <1>1, <1>2
<1>4. vel \in Vectors(n)
  <2>1. DOMAIN scaled = 1..n /\ \A i \in 1..n : scaled[i] \in Int
    <3> HIDE DEF n, scaled
    <3> QED
      BY <1>1, <1>3, VectorFacts
  <2>2. DOMAIN vel = 1..n /\ vel = [i \in 1..n |-> vel[i]] /\ \A i \in 1..n : vel[i] \in Int
    <3> HIDE DEF n, scaled
    <3> QED
      BY <2>1
  <2> HIDE DEF n, vel
  <2> QED
    BY <1>1, <2>2, IsVector
<1>5. pos \in Vectors(n)
  <2> HIDE DEF n, vel, scaled
  <2> QED
    BY <1>2, <1>3, <1>4
<1>6. Plus(pos, p.default_dof_pos) \in Vectors(n)
  <2> HIDE DEF n, pos
  <2> QED
    BY <1>1, <1>2, <1>5
<1>7. torque \in Vectors(n)
  <2> HIDE DEF n, pos, vel
  <2>1. Plus(pos, vel) \in Vectors(n)
    BY <1>2, <1>4, <1>5
  <2>2. Plus(Plus(pos, vel), p.default_dof_pos) \in Vectors(n)
    BY <1>1, <1>2, <2>1
  <2>3. Minus(Plus(Plus(pos, vel), p.default_dof_pos), o.dof_pos) \in Vectors(n)
    BY <1>1, <1>2, <2>2
  <2>4. Times(p.rl_kp, Minus(Plus(Plus(pos, vel), p.default_dof_pos), o.dof_pos)) \in Vectors(n)
    BY <1>1, <1>2, <2>3
  <2>5. Times(p.rl_kd, o.dof_vel) \in Vectors(n)
    BY <1>1, <1>2
  <2> QED
    BY <1>2, <2>4, <2>5
<1>8. tau \in Vectors(n)
  <2> HIDE DEF n, torque
  <2>1. p.torque_limits \in Seq(Int)
    BY <1>1, VectorFacts
  <2>2. Negated(p.torque_limits) \in Seq(Int)
    <3>1. Negated(p.torque_limits) \in Vectors(n)
      BY <1>1, NegatedLength
    <3> QED
      BY <1>1, <3>1, VectorFacts
  <2> QED
    BY <1>1, <1>7, <2>1, <2>2, ClampVectorLength
<1>9. ComputeOutput(p, o, actions) =
        [pos |-> Plus(pos, p.default_dof_pos), vel |-> vel, tau |-> tau]
  BY DEF ComputeOutput
<1> HIDE DEF n, pos, vel, tau
<1>10. Len(Plus(pos, p.default_dof_pos)) = n /\ Len(vel) = n /\ Len(tau) = n
  BY <1>1, <1>4, <1>6, <1>8, VectorFacts
<1> QED
  BY <1>9, <1>10 DEF n

(* The history moves back by one step. *)
LEMMA InsertFacts ==
  ASSUME NEW n \in Nat, NEW v \in Vectors(n), NEW buffer,
         buffer = [size |-> n, steps |-> buffer.steps], buffer.steps \in Seq(Vectors(n)),
         Len(buffer.steps) >= 1
  PROVE  LET b == Insert(buffer, v)
         IN /\ b = [size |-> n, steps |-> b.steps] /\ b.size = n
            /\ b.steps \in Seq(Vectors(n)) /\ Len(b.steps) = Len(buffer.steps)
            /\ b.steps[1] = v
            /\ \A t \in 1..Len(b.steps) : t # 1 => b.steps[t] = buffer.steps[t - 1]
<1> DEFINE s == buffer.steps
           f == SubSeq(s, 1, Len(s) - 1)
           c == <<v>> \o f
<1>1. Len(v) = n /\ buffer.size = n
  BY VectorFacts
<1>2. Len(s) \in Nat /\ Len(s) - 1 \in Nat /\ \A i \in 1..Len(s) : s[i] \in Vectors(n)
  BY ElementOfSeq
<1>3. /\ f \in Seq(Vectors(n)) /\ Len(f) = Len(s) - 1
      /\ \A i \in 1..(Len(s) - 1) : f[i] = s[i]
  <2> HIDE DEF s
  <2>1. \A i \in 1..(Len(s) - 1) : s[i] \in Vectors(n)
    BY <1>2
  <2>2. /\ f \in Seq(Vectors(n))
        /\ Len(f) = IF 1 <= Len(s) - 1 THEN (Len(s) - 1) - 1 + 1 ELSE 0
        /\ \A i \in 1..((Len(s) - 1) - 1 + 1) : f[i] = s[1 + i - 1]
    BY <1>2, <2>1, SubSeqProperties
  <2> HIDE DEF f
  <2>3. Len(f) = Len(s) - 1
    <3>1. \A m \in Nat : (IF 1 <= m THEN m - 1 + 1 ELSE 0) = m
      OBVIOUS
    <3> QED
      BY <1>2, <2>2, <3>1
  <2>4. \A i \in 1..(Len(s) - 1) : i \in 1..((Len(s) - 1) - 1 + 1) /\ 1 + i - 1 = i
    BY <1>2
  <2> QED
    BY <2>2, <2>3, <2>4
<1>4. /\ c \in Seq(Vectors(n)) /\ Len(c) = 1 + Len(f)
      /\ \A i \in 1..(1 + Len(f)) : c[i] = IF i <= 1 THEN <<v>>[i] ELSE f[i - 1]
  <2> HIDE DEF f
  <2>1. <<v>> \in Seq(Vectors(n)) /\ Len(<<v>>) = 1
    OBVIOUS
  <2> QED
    BY <1>3, <2>1, ConcatProperties
<1>5. Insert(buffer, v) = [size |-> n, steps |-> c]
  <2>1. Insert(buffer, v) = [buffer EXCEPT !.steps = c]
    BY <1>1 DEF Insert, Front
  <2> HIDE DEF c
  <2> QED
    BY <2>1
<1>6. Len(c) = Len(s) /\ c[1] = v /\ \A t \in 1..Len(s) : t # 1 => c[t] = s[t - 1]
  <2> HIDE DEF s, f, c
  <2>1. Len(c) = Len(s)
    BY <1>2, <1>3, <1>4
  <2>2. c[1] = v
    BY <1>2, <1>3, <1>4
  <2>3. ASSUME NEW t \in 1..Len(s), t # 1 PROVE c[t] = s[t - 1]
    <3>1. t \in 1..(1 + Len(f)) /\ ~(t <= 1) /\ t - 1 \in 1..(Len(s) - 1)
      BY <1>2, <1>3, <2>3
    <3> QED
      BY <1>3, <1>4, <3>1
  <2> QED
    BY <2>1, <2>2, <2>3
<1> HIDE DEF c
<1> QED
  BY <1>4, <1>5, <1>6

(* An inference is one more of the episode, on what it observed itself. *)
LEMMA RunModelInv ==
  ASSUME PolicyInv, NEW in \in Inputs, NEW quat \in Orientations, NEW ans \in Answers,
         RunModel(in, quat, ans)
  PROVE  PolicyInv'
<1> DEFINE n == params.num_observations
           h == params.observations_history
           last == Len(episode)
           o == [obs EXCEPT !.ang_vel = in.gyro, !.commands = Commands(in), !.base_quat = quat,
                            !.dof_pos = in.pos, !.dof_vel = in.vel]
           terms == ObsList(params, o, last + 1)
           seen == ComputeObservation(params, o, last + 1)
           buffer == Insert(history_obs_buf, seen)
           actions == ClampVector(ans, Negated(params.clip_actions), params.clip_actions)
           given == IF h = <<>> THEN seen ELSE GetObsVec(params, buffer)
           e == [terms |-> terms, observation |-> seen, actions |-> actions, quat |-> quat,
                 in |-> in, given |-> given]
           Ago(k) == IF Len(episode') - k > 0 THEN episode'[Len(episode') - k].observation
                     ELSE Zeros(n)
<1>1. /\ rl_init_done /\ UNCHANGED <<params, rl_init_done>>
      /\ obs' = [o EXCEPT !.actions = actions]
      /\ output' = ComputeOutput(params, o, actions)
      /\ protect'.p = AttitudeProtect(quat)
      /\ episode' = Append(episode, e)
      /\ IF h = <<>> THEN UNCHANGED history_obs_buf ELSE history_obs_buf' = buffer
  BY DEF RunModel
<1>2. /\ params \in Policies /\ n \in Nat /\ h \in Seq(Nat) /\ obs \in ObsOf(params)
      /\ quat \in Units
  BY <1>1, PolicyFacts, DataAssumption DEF PolicyInv, TypeOK, RunningInv
<1>3. /\ o \in ObsOf(params) /\ o.actions = obs.actions /\ o.base_quat = quat
      /\ o.ang_vel = in.gyro /\ o.gravity_vec = <<0, 0, -1>> /\ in.gyro \in Vectors(3)
  <2>1. o \in ObsOf(params)
    BY <1>1, ObservedFacts
  <2>2. /\ o.actions = obs.actions /\ o.base_quat = quat /\ o.ang_vel = in.gyro
        /\ o.gravity_vec = obs.gravity_vec
    BY <1>2 DEF ObsOf
  <2>3. obs.gravity_vec = <<0, 0, -1>>
    BY <1>2 DEF ObsOf
  <2>4. in.gyro \in Vectors(3)
    BY <1>2, SizesAssumption
  <2> QED
    BY <2>1, <2>2, <2>3, <2>4
<1>4. /\ episode' # <<>> /\ Latest' = e /\ last \in Nat /\ Len(episode') = last + 1
      /\ episode'[last + 1] = e /\ \A i \in 1..last : episode'[i] = episode[i]
      /\ episode' \in Seq(ToSet(episode'))
  <2> HIDE DEF e, last
  <2>1. episode \in Seq(ToSet(episode))
    BY DEF PolicyInv, EpisodeInv
  <2> QED
    BY <1>1, <2>1, Appended DEF Latest, last
<1>5. seen \in Vectors(n)
  <2> HIDE DEF o
  <2>1. FirstSize(params) = n /\ InitObservations(params) \in ObsOf(params)
    BY <1>1, <1>2, FirstObservations DEF PolicyInv, RunningInv
  <2>2. seen \in Seq(Int) /\ Len(seen) = FirstSize(params)
    <3> HIDE DEF last
    <3>1. last + 1 \in Nat
      BY <1>4
    <3> QED
      BY <1>2, <1>3, <2>1, <3>1, ObservationSize DEF FirstSize
  <2> HIDE DEF seen
  <2> QED
    BY <2>1, <2>2 DEF Vectors
<1>6. actions \in Vectors(Dofs(params))
  <2>1. ans \in Vectors(Dofs(params)) /\ Dofs(params) \in Nat /\ params.clip_actions \in Seq(Int)
    BY <1>2, SizesAssumption, PolicyFacts DEF Dofs
  <2>2. Negated(params.clip_actions) \in Seq(Int)
    <3>1. /\ Len(params.clip_actions) \in Nat
          /\ params.clip_actions \in Vectors(Len(params.clip_actions))
      BY <2>1 DEF Vectors
    <3> QED
      BY <3>1, NegatedLength, VectorFacts
  <2> QED
    BY <2>1, <2>2, ClampVectorLength
<1>7. /\ e.terms = terms /\ e.observation = seen /\ e.actions = actions /\ e.quat = quat
      /\ e.in = in /\ e.given = given
  <2> HIDE DEF terms, seen, actions, given
  <2> QED
    OBVIOUS
<1>8. EpisodeInv'
  <2> HIDE DEF e, seen, last, n
  <2>1. ASSUME NEW i \in 1..(last + 1) PROVE episode'[i].observation \in Vectors(n)
    <3>1. CASE i = last + 1
      BY <1>4, <1>5, <1>7, <3>1
    <3>2. CASE i # last + 1
      <4>1. i \in 1..last
        BY <1>4, <3>2
      <4> QED
        BY <1>4, <4>1 DEF PolicyInv, EpisodeInv, last, n
    <3> QED
      BY <3>1, <3>2
  <2> QED
    BY <1>1, <1>4, <2>1 DEF EpisodeInv, n
<1>9. RunningInv'
  <2> HIDE DEF e, actions, o
  <2>1. obs' \in ObsOf(params) /\ obs'.actions = actions
    BY <1>1, <1>3, <1>6 DEF ObsOf
  <2>2. FirstSize(params) = params.num_observations
    BY <1>1 DEF PolicyInv, RunningInv
  <2> QED
    BY <1>1, <1>4, <1>7, <2>1, <2>2 DEF RunningInv, FirstSize
<1>10. ASSUME h # <<>>
       PROVE  /\ HistoryInv'
              /\ \A k \in 1..Len(h) : buffer.steps[h[k] + 1] = Ago(h[k])
  <2> DEFINE s == history_obs_buf.steps
             size == Max(ToSet(h)) + 1
  <2>1. /\ history_obs_buf = [size |-> n, steps |-> s] /\ s \in Seq(Vectors(n)) /\ Len(s) = size
        /\ \A t \in 1..size : s[t] = ObservedAgo(t - 1)
    BY <1>1, <1>10 DEF PolicyInv, HistoryInv
  <2>2. Max(ToSet(h)) \in Nat /\ \A k \in 1..Len(h) : h[k] <= Max(ToSet(h))
    BY <1>2, <1>10, OldestStep
  <2>3. /\ buffer = [size |-> n, steps |-> buffer.steps] /\ buffer.size = n
        /\ buffer.steps \in Seq(Vectors(n)) /\ Len(buffer.steps) = size
        /\ buffer.steps[1] = seen
        /\ \A t \in 1..size : t # 1 => buffer.steps[t] = s[t - 1]
    <3> HIDE DEF n, seen
    <3>1. Len(history_obs_buf.steps) >= 1
      BY <2>1, <2>2
    <3> QED
      BY <1>2, <1>5, <2>1, <3>1, InsertFacts
  <2> HIDE DEF seen, buffer, e, last, n
  <2>4. \A k \in Nat : Ago(k) = IF last + 1 - k > 0 THEN episode'[last + 1 - k].observation
                           ELSE Zeros(n)
    BY <1>4
  <2>5. \A k : ObservedAgo(k) = IF last - k > 0 THEN episode[last - k].observation ELSE Zeros(n)
    BY DEF ObservedAgo, last, n
  <2>6. ASSUME NEW t \in 1..size PROVE buffer.steps[t] = Ago(t - 1)
    <3> HIDE DEF size, Ago
    <3>1. size \in Nat /\ t \in Nat
      BY <2>2 DEF size
    <3>2. CASE t = 1
      <4>1. t - 1 \in Nat /\ last + 1 - (t - 1) = last + 1 /\ last + 1 > 0
        BY <1>4, <3>2
      <4> QED
        BY <1>4, <1>7, <2>3, <2>4, <3>2, <4>1
    <3>3. CASE t # 1
      <4>1. t - 1 \in 1..size /\ last + 1 - (t - 1) = last - ((t - 1) - 1)
        BY <1>4, <3>1, <3>3
      <4>2. buffer.steps[t] = ObservedAgo((t - 1) - 1)
        BY <2>1, <2>3, <3>3, <4>1 DEF size
      <4>3. last - ((t - 1) - 1) > 0 => last - ((t - 1) - 1) \in 1..last
        BY <1>4, <3>1, <3>3
      <4> QED
        BY <1>4, <2>4, <2>5, <4>1, <4>2, <4>3
    <3> QED
      BY <3>2, <3>3
  <2>7. HistoryInv'
    BY <1>1, <1>10, <2>3, <2>6 DEF HistoryInv, ObservedAgo, n
  <2>8. ASSUME NEW k \in 1..Len(h) PROVE buffer.steps[h[k] + 1] = Ago(h[k])
    <3>1. h[k] \in Nat
      BY <1>2
    <3> HIDE DEF h, Ago
    <3>2. h[k] + 1 \in 1..size /\ (h[k] + 1) - 1 = h[k]
      BY <2>2, <3>1
    <3> HIDE DEF size
    <3> QED
      BY <2>6, <3>2
  <2> QED
    BY <2>7, <2>8
<1>11. HistoryInv'
  BY <1>1, <1>10 DEF HistoryInv
<1>12. ProtectInv'
  <2> HIDE DEF e
  <2> QED
    BY <1>1, <1>4, <1>7 DEF ProtectInv
<1>13. TypeOK'
  <2>1. Len(output'.pos) = NumDofs' /\ Len(output'.vel) = NumDofs' /\ Len(output'.tau) = NumDofs'
    <3> HIDE DEF o, actions
    <3> QED
      BY <1>1, <1>2, <1>3, <1>6, OutputLength DEF NumDofs, Dofs
  <2>2. obs' \in ObsOf(params)
    BY <1>1, <1>9 DEF RunningInv
  <2>3. Len(obs'.dof_pos) = NumDofs' /\ Len(obs'.actions) = NumDofs'
    <3>1. obs'.dof_pos \in Vectors(Dofs(params)) /\ obs'.actions \in Vectors(Dofs(params))
      BY <2>2 DEF ObsOf
    <3> QED
      BY <1>1, <1>2, <3>1, PolicyFacts, VectorFacts DEF NumDofs, Dofs
  <2>4. \A t \in DOMAIN history_obs_buf'.steps :
          Len(history_obs_buf'.steps[t]) = history_obs_buf'.size
    <3>1. CASE h = <<>>
      BY <1>1, <3>1 DEF PolicyInv, TypeOK
    <3>2. CASE h # <<>>
      <4>1. history_obs_buf'.size = n /\ history_obs_buf'.steps \in Seq(Vectors(n))
        BY <1>1, <1>11, <3>2 DEF HistoryInv
      <4> QED
        BY <1>2, <4>1, VectorFacts
    <3> QED
      BY <3>1, <3>2
  <2>5. Len(Latest'.observation) = params'.num_observations
    <3> HIDE DEF e, seen
    <3> QED
      BY <1>1, <1>2, <1>4, <1>5, <1>7, VectorFacts
  <2> QED
    BY <1>1, <1>2, <2>1, <2>3, <2>4, <2>5 DEF TypeOK
<1>14. EpisodeOnly'
  <2> SUFFICES ASSUME h # <<>>
               PROVE  Latest'.given = FlattenSeq([k \in DOMAIN h |->
                        LET m == Len(episode') - h[k]
                        IN IF m > 0 THEN episode'[m].observation ELSE Zeros(n)])
    BY <1>1 DEF EpisodeOnly
  <2>1. Latest'.given = FlattenSeq([k \in DOMAIN h |-> buffer.steps[h[k] + 1]])
    <3>1. Latest'.given = GetObsVec(params, buffer)
      <4> HIDE DEF e, buffer
      <4> QED
        BY <1>4, <1>7
    <3> HIDE DEF buffer
    <3> QED
      BY <3>1 DEF GetObsVec
  <2> HIDE DEF buffer, e
  <2>2. ASSUME NEW k \in DOMAIN h
        PROVE  buffer.steps[h[k] + 1] =
                 LET m == Len(episode') - h[k]
                 IN IF m > 0 THEN episode'[m].observation ELSE Zeros(n)
    <3>1. k \in 1..Len(h)
      BY <1>2
    <3> QED
      BY <1>10, <3>1
  <2>3. [k \in DOMAIN h |-> buffer.steps[h[k] + 1]] =
        [k \in DOMAIN h |-> LET m == Len(episode') - h[k]
                            IN IF m > 0 THEN episode'[m].observation ELSE Zeros(n)]
    <3> HIDE DEF h, n
    <3> QED
      BY <2>2
  <2> QED
    BY <2>1, <2>3
<1>15. ASSUME NEW name, Observed(name)'
       PROVE  Latest'.terms[name] = Term(name, params, o, last + 1)
  <2>1. name \in ToSet(params.observations)
    BY <1>1, <1>15 DEF Observed
  <2>2. Latest'.terms = terms
    <3> HIDE DEF e, terms
    <3> QED
      BY <1>4, <1>7
  <2> HIDE DEF o, last
  <2> QED
    BY <2>1, <2>2 DEF ObsList
<1>16. ActionsFed'
  <2> SUFFICES ASSUME Observed("actions")'
               PROVE  Latest'.terms["actions"] =
                        IF Len(episode') = 1 THEN Zeros(NumDofs)
                        ELSE episode'[Len(episode') - 1].actions
    BY <1>1 DEF ActionsFed, NumDofs
  <2>1. Latest'.terms["actions"] = obs.actions
    <3> HIDE DEF o
    <3> QED
      BY <1>3, <1>15 DEF Term
  <2>2. obs.actions = IF episode = <<>> THEN Zeros(NumDofs) ELSE episode[last].actions
    BY <1>1 DEF PolicyInv, RunningInv, Latest, Last
  <2>3. CASE episode = <<>>
    <3>1. Len(<<>>) = 0
      OBVIOUS
    <3>2. Len(episode') = 1
      BY <1>4, <2>3, <3>1
    <3> QED
      BY <2>1, <2>2, <2>3, <3>2
  <2>4. CASE episode # <<>>
    <3>1. last # 0
      <4>1. episode \in Seq(ToSet(episode))
        BY DEF PolicyInv, EpisodeInv
      <4> QED
        BY <2>4, <4>1, EmptySeq
    <3> HIDE DEF last, e
    <3>2. last \in 1..last /\ Len(episode') # 1 /\ Len(episode') - 1 = last
      BY <1>4, <3>1
    <3> QED
      BY <1>4, <2>1, <2>2, <2>4, <3>2
  <2> QED
    BY <2>3, <2>4
<1>17. FrameBody'
  <2> DEFINE g == <<0, 0, -1>>
  <2>1. g \in Vectors(3)
    BY DEF Vectors
  <2>2. Latest'.quat = quat /\ Latest'.in = in
    <3> HIDE DEF e
    <3> QED
      BY <1>4, <1>7
  <2> HIDE DEF o, last
  <2>3. ASSUME Observed("gravity_vec")'
        PROVE  /\ Latest'.terms["gravity_vec"] = Turned(quat, g)
               /\ Latest'.terms["gravity_vec"] = Conjugated(quat, g)
    <3>1. Latest'.terms["gravity_vec"] = QuatRotateInverse(quat, g)
      BY <1>3, <1>15, <2>3 DEF Term
    <3>2. QuatRotateInverse(quat, g) = Conjugated(quat, g)
      BY <1>2, InverseConjugates
    <3> HIDE DEF g
    <3>3. QuatRotateInverse(quat, g) = Turned(quat, g)
      BY <1>2, <2>1, InverseIsTranspose
    <3> QED
      BY <3>1, <3>2, <3>3
  <2>4. ASSUME Observed("ang_vel")'
        PROVE  Latest'.terms["ang_vel"] = Scaled(Turned(quat, in.gyro), params.ang_vel_scale)
    <3>1. Latest'.terms["ang_vel"] = Scaled(QuatRotateInverse(quat, in.gyro), params.ang_vel_scale)
      BY <1>3, <1>15, <2>4 DEF Term
    <3>2. QuatRotateInverse(quat, in.gyro) = Turned(quat, in.gyro)
      BY <1>2, <1>3, InverseIsTranspose
    <3> QED
      BY <3>1, <3>2
  <2> QED
    BY <1>1, <2>2, <2>3, <2>4 DEF FrameBody
<1> HIDE DEF o, e, actions, seen, terms, given, buffer
<1> QED
  BY <1>8, <1>9, <1>11, <1>12, <1>13, <1>14, <1>16, <1>17 DEF PolicyInv
-----------------------------------------------------------------------------
(***************************************************************************)
(* What holds of every policy, input and answer.                           *)
(***************************************************************************)

(* The invariant: an episode is of one policy, its buffer holds the         *)
(* observations of that episode alone, and the actions it has fed back are  *)
(* those it gave.                                                           *)
THEOREM PolicyInvariance == PolicySpec => []PolicyInv
<1>1. Init => PolicyInv
  BY PolicyInvInit
<1>2. PolicyInv /\ [Next]_vars => PolicyInv'
  BY EnterRLInv, ExitInv, RunModelInv DEF Next
<1> QED
  BY <1>1, <1>2, PTL DEF PolicySpec

(* Every vector has the size its readers expect, whichever policies were   *)
(* entered and left before.                                                *)
THEOREM PolicyTypeCorrect == PolicySpec => []TypeOK
<1>1. PolicyInv => TypeOK
  BY DEF PolicyInv
<1> QED
  BY <1>1, PolicyInvariance, PTL

(* A model is given the history of its own episode and of all of it.       *)
THEOREM EpisodeOnlyHolds == PolicySpec => []EpisodeOnly
<1>1. PolicyInv => EpisodeOnly
  BY DEF PolicyInv
<1> QED
  BY <1>1, PolicyInvariance, PTL

(* The actions observed are those of the inference before, as carried out. *)
THEOREM ActionsFedHolds == PolicySpec => []ActionsFed
<1>1. PolicyInv => ActionsFed
  BY DEF PolicyInv
<1> QED
  BY <1>1, PolicyInvariance, PTL

(* Gravity and the angular velocity are observed in the robot's axes.      *)
THEOREM FrameBodyHolds == PolicySpec => []FrameBody
<1>1. PolicyInv => FrameBody
  BY DEF PolicyInv
<1> QED
  BY <1>1, PolicyInvariance, PTL

(* A robot that has fallen is seen to have, one that leans is not.         *)
THEOREM FallProtectedHolds == PolicySpec => []FallProtected
<1>1. PolicyInv => FallProtected
  <2> SUFFICES ASSUME PolicyInv, episode # <<>>
               PROVE  LET up == QuaternionToRotationMatrix(Latest.quat)[3][3]
                      IN /\ 20 * up < Scale * Scale => protect.p
                         /\ 3 * up > Scale * Scale => ~protect.p
    BY DEF FallProtected
  <2>1. Latest.quat \in Units /\ protect.p = AttitudeProtect(Latest.quat)
    BY DataAssumption DEF PolicyInv, ProtectInv
  <2> QED
    BY <2>1, FallFacts
<1> QED
  BY <1>1, PolicyInvariance, PTL
-----------------------------------------------------------------------------
(***************************************************************************)
(* Networks.                                                               *)
(***************************************************************************)

(* A set of numbers that are all at most one of them. *)
LEMMA MaxIs ==
  ASSUME NEW T, T \subseteq Int, NEW m \in T, \A n \in T : n <= m
  PROVE  Max(T) = m
<1>1. m \in T /\ \A n \in T : m >= n
  OBVIOUS
<1>2. Max(T) \in T /\ \A n \in T : Max(T) >= n
  BY <1>1, Zenon DEF Max
<1>3. Max(T) \in Int /\ m \in Int /\ Max(T) >= m /\ Max(T) <= m
  BY <1>2
<1> QED
  BY <1>3

(* What a fold from the left does with the value it has and an element of  *)
(* the sequence: multiply (Elements), add (SumOf), move a step (Shift).    *)
Combine(op, v, x) ==
  IF op = "product" THEN v * x
  ELSE IF op = "sum" THEN v + x
  ELSE [v EXCEPT ![x] = v[x - 1]]

(* The function on the sets of indices that FoldLeft takes its value from: *)
(* it is defined by itself, and exists by induction.                       *)
Folds(g, op, base, s, D) ==
  g = [t \in SUBSET D |-> IF t = {} THEN base ELSE Combine(op, g[t \ {Max(t)}], s[Max(t)])]

(* There is such a function for as many elements as there are. *)
LEMMA FoldExists ==
  ASSUME NEW op, NEW base, NEW s, NEW k \in Nat
  PROVE  \E g : Folds(g, op, base, s, 1..k)
<1> DEFINE S == {n \in Nat : \E g : Folds(g, op, base, s, 1..n)}
<1>1. 0 \in S
  <2> DEFINE g == [t \in SUBSET (1..0) |-> base]
  <2>1. \A t \in SUBSET (1..0) : t = {}
    OBVIOUS
  <2>2. Folds(g, op, base, s, 1..0)
    BY <2>1 DEF Folds
  <2> QED
    BY <2>2
<1>2. ASSUME NEW n \in S PROVE n + 1 \in S
  <2>1. PICK f : Folds(f, op, base, s, 1..n)
    OBVIOUS
  <2> DEFINE g == [t \in SUBSET (1..(n + 1)) |->
                     IF n + 1 \in t THEN Combine(op, f[t \ {n + 1}], s[n + 1]) ELSE f[t]]
  <2>2. ASSUME NEW t \in SUBSET (1..(n + 1))
        PROVE  g[t] = IF t = {} THEN base ELSE Combine(op, g[t \ {Max(t)}], s[Max(t)])
    <3>1. CASE n + 1 \in t
      <4>1. Max(t) = n + 1
        <5>1. t \subseteq Int /\ \A m \in t : m <= n + 1
          OBVIOUS
        <5> QED
          BY <3>1, <5>1, MaxIs
      <4>2. t \ {n + 1} \in SUBSET (1..(n + 1)) /\ n + 1 \notin t \ {n + 1} /\ t # {}
        BY <3>1
      <4>3. g[t \ {n + 1}] = f[t \ {n + 1}] /\ g[t] = Combine(op, f[t \ {n + 1}], s[n + 1])
        BY <3>1, <4>2
      <4> HIDE DEF g
      <4> QED
        BY <4>1, <4>2, <4>3
    <3>2. CASE n + 1 \notin t
      <4>1. t \in SUBSET (1..n)
        <5>1. \A m \in t : m \in 1..(n + 1) /\ m # n + 1
          BY <3>2
        <5>2. \A m \in 1..(n + 1) : m # n + 1 => m \in 1..n
          OBVIOUS
        <5> QED
          BY <5>1, <5>2
      <4>2. f[t] = IF t = {} THEN base ELSE Combine(op, f[t \ {Max(t)}], s[Max(t)])
        BY <2>1, <4>1 DEF Folds
      <4>3. n + 1 \notin t \ {Max(t)} /\ t \ {Max(t)} \in SUBSET (1..(n + 1))
        BY <3>2
      <4>4. g[t] = f[t] /\ g[t \ {Max(t)}] = f[t \ {Max(t)}]
        BY <3>2, <4>3
      <4> HIDE DEF g
      <4> QED
        BY <4>2, <4>4
    <3> QED
      BY <3>1, <3>2
  <2>3. g = [t \in SUBSET (1..(n + 1)) |-> g[t]]
    OBVIOUS
  <2>4. Folds(g, op, base, s, 1..(n + 1))
    <3> HIDE DEF g
    <3> QED
      BY <2>2, <2>3 DEF Folds
  <2> QED
    BY <2>4
<1>3. S = Nat
  <2> HIDE DEF S
  <2>1. S \subseteq Nat
    BY DEF S
  <2> QED
    BY <1>1, <1>2, <2>1, Induction
<1> QED
  BY <1>3

(* What it adds at each index. *)
LEMMA FoldSteps ==
  ASSUME NEW g, NEW op, NEW base, NEW s, NEW n \in Nat, Folds(g, op, base, s, 1..n)
  PROVE  /\ g[1..0] = base
         /\ \A k \in Nat : k + 1 <= n => g[1..(k + 1)] = Combine(op, g[1..k], s[k + 1])
<1>1. ASSUME NEW t \in SUBSET (1..n)
      PROVE  g[t] = IF t = {} THEN base ELSE Combine(op, g[t \ {Max(t)}], s[Max(t)])
  BY DEF Folds
<1>2. g[1..0] = base
  <2>1. 1..0 = {} /\ 1..0 \in SUBSET (1..n)
    OBVIOUS
  <2> QED
    BY <1>1, <2>1
<1>3. ASSUME NEW k \in Nat, k + 1 <= n
      PROVE  g[1..(k + 1)] = Combine(op, g[1..k], s[k + 1])
  <2> DEFINE t == 1..(k + 1)
  <2>1. t \in SUBSET (1..n) /\ t # {} /\ t \subseteq Int /\ k + 1 \in t /\ \A m \in t : m <= k + 1
    BY <1>3
  <2>2. t \ {k + 1} = 1..k
    OBVIOUS
  <2> HIDE DEF t
  <2>3. Max(t) = k + 1
    BY <2>1, MaxIs
  <2>4. g[t] = Combine(op, g[1..k], s[k + 1])
    BY <1>1, <2>1, <2>2, <2>3
  <2> QED
    BY <2>4 DEF t
<1> QED
  BY <1>2, <1>3

(* Products, of Elements. *)
Multiplies(g, s, D) ==
  g = [t \in SUBSET D |-> IF t = {} THEN 1 ELSE g[t \ {Max(t)}] * s[Max(t)]]

(* Elements is its last value, *)
LEMMA ElementsMultiplies ==
  ASSUME NEW s
  PROVE  Networks!Elements(s) = (CHOOSE g : Multiplies(g, s, DOMAIN s))[DOMAIN s]
BY DEF Networks!Elements, Networks!FoldLeft, Networks!MapThenFoldSet, Multiplies, Networks!Max, Max

(* and an integer. *)
LEMMA ElementsInteger ==
  ASSUME NEW s \in Seq(Int)
  PROVE  Networks!Elements(s) \in Int
<1> DEFINE n == Len(s)
           g == CHOOSE f : Multiplies(f, s, 1..n)
<1>1. n \in Nat /\ DOMAIN s = 1..n /\ \A i \in 1..n : s[i] \in Int
  OBVIOUS
<1> HIDE DEF n
<1>2. \A f : Multiplies(f, s, 1..n) <=> Folds(f, "product", 1, s, 1..n)
  BY DEF Multiplies, Folds, Combine
<1>3. \E f : Multiplies(f, s, 1..n)
  BY <1>1, <1>2, FoldExists
<1>4. Multiplies(g, s, 1..n)
  BY <1>3, Zenon
<1> HIDE DEF g
<1>5. /\ g[1..0] = 1
      /\ \A k \in Nat : k + 1 <= n => g[1..(k + 1)] = g[1..k] * s[k + 1]
  <2>1. Folds(g, "product", 1, s, 1..n)
    BY <1>2, <1>4
  <2>2. \A v, x : Combine("product", v, x) = v * x
    BY DEF Combine
  <2> QED
    BY <1>1, <2>1, <2>2, FoldSteps
<1> DEFINE S == {k \in Nat : k <= n => g[1..k] \in Int}
<1>6. 0 \in S
  BY <1>5
<1>7. ASSUME NEW k \in S PROVE k + 1 \in S
  <2> SUFFICES ASSUME k + 1 <= n PROVE g[1..(k + 1)] \in Int
    OBVIOUS
  <2>1. k \in Nat /\ g[1..k] \in Int /\ s[k + 1] \in Int
    BY <1>1
  <2> QED
    BY <1>5, <2>1
<1>8. S = Nat
  <2> HIDE DEF S
  <2>1. S \subseteq Nat
    BY DEF S
  <2> QED
    BY <1>6, <1>7, <2>1, Induction
<1>9. g[1..n] \in Int
  BY <1>1, <1>8
<1> QED
  BY <1>1, <1>9, ElementsMultiplies DEF g

NetInv ==
  /\ state \in NetworkFiles \cup {Networks!NoFile}
  /\ state # Networks!NoFile =>
       /\ state \in NetworkFiles
       /\ model.loaded /\ model.file = state /\ model.type = Networks!DetectModelType(state)
       /\ model.type # "throw"
  /\ Networks!ReadyModel /\ (ready => state # Networks!NoFile)
  /\ Networks!WholeObservation

(* No file is loaded at first. *)
LEMMA NetInvInit == AllInit => NetInv
<1> SUFFICES ASSUME AllInit PROVE NetInv
  OBVIOUS
<1>1. /\ state = Networks!NoFile /\ ready = FALSE
      /\ answer = [file |-> Networks!NoFile, used |-> 0]
  BY DEF AllInit, Networks!InferenceInit
<1> QED
  BY <1>1 DEF NetInv, Networks!ReadyModel, Networks!WholeObservation, Networks!NoFile

(* A file is loaded whole or not at all, and nothing else changes the model. *)
LEMMA NetStep ==
  ASSUME NetInv, Networks!InferenceNext
  PROVE  NetInv'
<1>1. ASSUME NEW file \in NetworkFiles, Networks!EnterRL(file) PROVE NetInv'
  <2>1. state = Networks!NoFile /\ UNCHANGED <<ready, answer>> /\ ready # TRUE
    BY <1>1 DEF Networks!EnterRL, NetInv
  <2>2. CASE UNCHANGED <<model, state>>
    BY <2>1, <2>2 DEF NetInv, Networks!ReadyModel, Networks!WholeObservation
  <2>3. CASE state' = Networks!NoFile
    BY <2>1, <2>3 DEF NetInv, Networks!ReadyModel, Networks!WholeObservation
  <2>4. CASE /\ model' = Networks!LoadModel(file) /\ state' = file
             /\ Networks!DetectModelType(file) # "throw" /\ model'.type # "null"
    <3>1. model'.loaded /\ model'.file = file /\ model'.type = Networks!DetectModelType(file)
      BY <2>4 DEF Networks!LoadModel, Networks!NullModel
    <3> QED
      BY <2>1, <2>4, <3>1 DEF NetInv, Networks!ReadyModel, Networks!WholeObservation
  <2> QED
    BY <1>1, <2>2, <2>3, <2>4 DEF Networks!EnterRL
<1>2. CASE Networks!Run
  BY <1>2 DEF Networks!Run, NetInv, Networks!ReadyModel, Networks!WholeObservation
<1>3. CASE Networks!Exit
  BY <1>3 DEF Networks!Exit, NetInv, Networks!ReadyModel, Networks!WholeObservation
<1>4. CASE Networks!Forward
  <2>1. /\ ready /\ UNCHANGED <<state, ready, model>> /\ state \in NetworkFiles
        /\ model.loaded /\ model.file = state /\ model.type = Networks!DetectModelType(state)
        /\ model.type # "throw"
    BY <1>4 DEF Networks!Forward, NetInv
  <2> DEFINE used == Networks!ModelForward(model.type, state.shape, state.obs)
  <2>2. \/ UNCHANGED answer
        \/ used # Networks!Thrown /\ answer' = [file |-> state, used |-> used]
    BY <1>4, <2>1 DEF Networks!Forward
  <2>3. ASSUME used # Networks!Thrown
        PROVE  \/ used = state.obs
               \/ /\ state.extension = ".onnx" /\ used < state.obs
                  /\ used = Networks!Elements(state.shape)
    <3>1. state.shape \in Seq(Int) /\ state.obs \in Nat
      BY <2>1, PartsAssumption DEF Networks!NetworkAssumption
    <3>2. Networks!Elements(state.shape) \in Int
      BY <3>1, ElementsInteger
    <3>3. CASE model.type = "TORCH"
      BY <2>3, <3>3 DEF Networks!ModelForward, Networks!TorchForward
    <3>4. CASE model.type # "TORCH"
      <4>1. used = Networks!ONNXForward(state.shape, state.obs)
        BY <3>4 DEF Networks!ModelForward
      <4>2. used = Networks!Elements(state.shape) /\ used <= state.obs
        BY <2>3, <4>1 DEF Networks!ONNXForward
      <4>3. state.extension = ".onnx"
        BY <2>1, <3>4 DEF Networks!DetectModelType
      <4> QED
        BY <3>1, <3>2, <4>2, <4>3
    <3> QED
      BY <3>3, <3>4
  <2>4. Networks!WholeObservation'
    <3> HIDE DEF used
    <3> QED
      BY <2>2, <2>3 DEF NetInv, Networks!WholeObservation
  <2> QED
    BY <2>1, <2>4 DEF NetInv, Networks!ReadyModel
<1> QED
  BY <1>1, <1>2, <1>3, <1>4 DEF Networks!InferenceNext

-----------------------------------------------------------------------------
(***************************************************************************)
(* The gear.                                                               *)
(***************************************************************************)

(* What a gear multiplies is divided without a rest. *)
LEMMA Divides ==
  ASSUME NEW n \in Nat \ {0}, NEW a \in Int
  PROVE  (a * n) \div n = a
OBVIOUS

(* A motor is where the joint's gear puts it, and is told what the joint's *)
(* command comes to behind it.                                             *)
MotorAt(j, m, g) == m.position = j.q * g /\ m.velocity = j.dq * g
Told(c, m, g) ==
  /\ MotorAt(c, m, g)
  /\ m.torque \in Int /\ m.kp \in Int /\ m.kd \in Int
  /\ c.tau = m.torque * g /\ c.kp = m.kp * (g * g) /\ c.kd = m.kd * (g * g)

GearInv ==
  /\ calf_gear_ratio \in GearRatios
  /\ motor \in [Drive!Joints -> [position : Int, velocity : Int]]
  /\ latest \in [Drive!Joints -> [q : Int, dq : Int]]
  /\ joint_command \in [Drive!Joints -> [q : Int, dq : Int, tau : Int, kp : Int, kd : Int]]
  /\ \A i \in Drive!Joints : /\ MotorAt(latest[i], motor[i], Drive!Gear(i))
                             /\ Told(joint_command[i], motor_command[i], Drive!Gear(i))

(* No gear is without a ratio. *)
LEMMA GearFacts ==
  ASSUME calf_gear_ratio \in GearRatios, NEW i
  PROVE  Drive!Gear(i) \in Nat \ {0} /\ Drive!Gear(i) * Drive!Gear(i) \in Nat \ {0}
BY PartsAssumption DEF Drive!Gear, Drive!GearAssumption

(* Nothing has moved or been told at first. *)
LEMMA GearInvInit == AllInit => GearInv
<1> SUFFICES ASSUME AllInit PROVE GearInv
  OBVIOUS
<1>1. /\ calf_gear_ratio \in GearRatios
      /\ motor = [i \in Drive!Joints |-> [position |-> 0, velocity |-> 0]]
      /\ latest = [i \in Drive!Joints |-> [q |-> 0, dq |-> 0]]
      /\ joint_command = [i \in Drive!Joints |-> [q |-> 0, dq |-> 0, tau |-> 0, kp |-> 0, kd |-> 0]]
      /\ motor_command = [i \in Drive!Joints |->
           [position |-> 0, velocity |-> 0, torque |-> 0, kp |-> 0, kd |-> 0]]
  BY DEF AllInit, Drive!GearInit, Drive!AtRest, Drive!NoCommand
<1>2. ASSUME NEW i \in Drive!Joints
      PROVE  /\ MotorAt(latest[i], motor[i], Drive!Gear(i))
             /\ Told(joint_command[i], motor_command[i], Drive!Gear(i))
  <2>1. 0 * Drive!Gear(i) = 0 /\ 0 * (Drive!Gear(i) * Drive!Gear(i)) = 0
    BY <1>1, GearFacts
  <2> QED
    BY <1>1, <2>1 DEF MotorAt, Told
<1> QED
  BY <1>1, <1>2 DEF GearInv

(* Whatever moves or is told is behind its own gear. *)
LEMMA GearStep ==
  ASSUME GearInv, Drive!GearNext
  PROVE  GearInv'
<1> DEFINE g(i) == Drive!Gear(i)
<1>1. calf_gear_ratio \in GearRatios /\ \A i : g(i) \in Nat \ {0} /\ g(i) * g(i) \in Nat \ {0}
  BY GearFacts DEF GearInv
<1>2. ASSUME NEW i \in Drive!Joints, NEW turned \in GearPositions, NEW speed \in GearPositions,
             Drive!MotorFeedbackCallback(i, turned, speed)
      PROVE  GearInv'
  <2>1. /\ motor' = [motor EXCEPT ![i] = [position |-> turned * g(i), velocity |-> speed * g(i)]]
        /\ latest' = [j \in Drive!Joints |-> [q |-> motor'[j].position \div g(j),
                                              dq |-> motor'[j].velocity \div g(j)]]
        /\ UNCHANGED <<calf_gear_ratio, joint_command, motor_command>>
    BY <1>2 DEF Drive!MotorFeedbackCallback, Drive!ToJointPosition, Drive!ToJointVelocity
  <2>2. turned \in Int /\ speed \in Int
    BY PartsAssumption DEF Drive!GearAssumption
  <2> HIDE DEF g
  <2>3. ASSUME NEW j \in Drive!Joints
        PROVE  \E p, v \in Int : motor'[j].position = p * g(j) /\ motor'[j].velocity = v * g(j)
    <3>1. CASE j = i
      BY <2>1, <2>2, <3>1 DEF GearInv
    <3>2. CASE j # i
      <4>1. motor'[j] = motor[j]
        BY <2>1, <3>2 DEF GearInv
      <4> QED
        BY <4>1 DEF GearInv, MotorAt, g
    <3> QED
      BY <3>1, <3>2
  <2>4. ASSUME NEW j \in Drive!Joints
        PROVE  /\ latest'[j] \in [q : Int, dq : Int]
               /\ MotorAt(latest'[j], motor'[j], g(j))
    <3>1. PICK p \in Int, v \in Int : motor'[j].position = p * g(j) /\ motor'[j].velocity = v * g(j)
      BY <2>3
    <3>2. (p * g(j)) \div g(j) = p /\ (v * g(j)) \div g(j) = v
      BY <1>1, Divides
    <3>3. latest'[j] = [q |-> p, dq |-> v]
      BY <2>1, <3>1, <3>2
    <3> QED
      BY <3>1, <3>3 DEF MotorAt
  <2>5. /\ motor' \in [Drive!Joints -> [position : Int, velocity : Int]]
        /\ latest' \in [Drive!Joints -> [q : Int, dq : Int]]
    <3>1. turned * g(i) \in Int /\ speed * g(i) \in Int
      BY <1>1, <2>2
    <3> QED
      BY <2>1, <2>4, <3>1 DEF GearInv
  <2>6. \A j : Drive!Gear(j)' = g(j)
    BY <2>1 DEF Drive!Gear, g
  <2>7. \A j \in Drive!Joints : Told(joint_command[j], motor_command[j], g(j))
    BY DEF GearInv, g
  <2> QED
    BY <2>1, <2>4, <2>5, <2>6, <2>7 DEF GearInv
<1>3. ASSUME NEW i \in Drive!Joints, NEW q \in GearPositions, NEW tau \in GearGains,
             NEW kp \in GearGains, NEW kd \in GearGains,
             LET scale == Drive!Gear(i) * Drive!Gear(i)
             IN Drive!SetCommand(i, [q |-> q, dq |-> q, tau |-> tau * scale, kp |-> kp * scale,
                                     kd |-> kd * scale])
      PROVE  GearInv'
  <2> DEFINE c == [q |-> q, dq |-> q, tau |-> tau * (g(i) * g(i)), kp |-> kp * (g(i) * g(i)),
                   kd |-> kd * (g(i) * g(i))]
  <2>1. /\ joint_command' = [joint_command EXCEPT ![i] = c]
        /\ motor_command' = [j \in Drive!Joints |->
             [position |-> joint_command'[j].q * g(j), velocity |-> joint_command'[j].dq * g(j),
              torque |-> joint_command'[j].tau \div g(j),
              kp |-> joint_command'[j].kp \div (g(j) * g(j)),
              kd |-> joint_command'[j].kd \div (g(j) * g(j))]]
        /\ UNCHANGED <<calf_gear_ratio, motor, latest>>
    BY <1>3 DEF Drive!SetCommand, Drive!ToMotorPosition, Drive!ToMotorVelocity,
                Drive!ToMotorTorque, Drive!ToMotorGain
  <2>2. q \in Int /\ tau \in Int /\ kp \in Int /\ kd \in Int
    BY PartsAssumption DEF Drive!GearAssumption
  <2> HIDE DEF g
  <2>3. ASSUME NEW j \in Drive!Joints
        PROVE  \E p, d, t \in Int : /\ joint_command'[j].tau = t * g(j)
                                    /\ joint_command'[j].kp = p * (g(j) * g(j))
                                    /\ joint_command'[j].kd = d * (g(j) * g(j))
    <3>1. CASE j = i
      <4>1. joint_command'[j] = c
        BY <2>1, <3>1 DEF GearInv
      <4>2. tau * (g(j) * g(j)) = (tau * g(j)) * g(j) /\ tau * g(j) \in Int
        BY <1>1, <2>2
      <4>3. /\ joint_command'[j].tau = (tau * g(j)) * g(j)
            /\ joint_command'[j].kp = kp * (g(j) * g(j))
            /\ joint_command'[j].kd = kd * (g(j) * g(j))
        BY <3>1, <4>1, <4>2
      <4> QED
        BY <2>2, <4>2, <4>3
    <3>2. CASE j # i
      <4>1. joint_command'[j] = joint_command[j]
        BY <2>1, <3>2 DEF GearInv
      <4> QED
        BY <4>1 DEF GearInv, Told, g
    <3> QED
      BY <3>1, <3>2
  <2>4. ASSUME NEW j \in Drive!Joints PROVE Told(joint_command'[j], motor_command'[j], g(j))
    <3>1. PICK p \in Int, d \in Int, t \in Int : /\ joint_command'[j].tau = t * g(j)
                                                 /\ joint_command'[j].kp = p * (g(j) * g(j))
                                                 /\ joint_command'[j].kd = d * (g(j) * g(j))
      BY <2>3
    <3>2. /\ (p * (g(j) * g(j))) \div (g(j) * g(j)) = p
          /\ (d * (g(j) * g(j))) \div (g(j) * g(j)) = d
          /\ (t * g(j)) \div g(j) = t
      BY <1>1, Divides
    <3>3. motor_command'[j] = [position |-> joint_command'[j].q * g(j),
                               velocity |-> joint_command'[j].dq * g(j),
                               torque |-> t, kp |-> p, kd |-> d]
      BY <2>1, <3>1, <3>2
    <3> QED
      BY <3>1, <3>3 DEF Told, MotorAt
  <2>5. joint_command' \in [Drive!Joints -> [q : Int, dq : Int, tau : Int, kp : Int, kd : Int]]
    <3>1. c \in [q : Int, dq : Int, tau : Int, kp : Int, kd : Int]
      <4>1. \A n \in Int : n * (g(i) * g(i)) \in Int
        BY <1>1
      <4> QED
        BY <2>2, <4>1
    <3> HIDE DEF c
    <3> QED
      BY <2>1, <3>1 DEF GearInv
  <2>6. \A j : Drive!Gear(j)' = g(j)
    BY <2>1 DEF Drive!Gear, g
  <2>7. \A j \in Drive!Joints : MotorAt(latest[j], motor[j], g(j))
    BY DEF GearInv, g
  <2> HIDE DEF c
  <2> QED
    BY <2>1, <2>4, <2>5, <2>6, <2>7 DEF GearInv
<1> QED
  BY <1>2, <1>3 DEF Drive!GearNext

(* What comes back is what was sent. *)
LEMMA GearInvExact == GearInv => Drive!GearExact
<1> SUFFICES ASSUME GearInv, NEW i \in Drive!Joints
             PROVE  LET c == joint_command[i]
                    IN Drive!ToJointTorque(i, Drive!MotorTorque(i))
                       = c.kp * (c.q - latest[i].q) + c.kd * (c.dq - latest[i].dq) + c.tau
  BY DEF Drive!GearExact
<1> DEFINE g == Drive!Gear(i)  a == latest[i].q  b == latest[i].dq
           m == motor_command[i]  kp == m.kp  kd == m.kd  tau == m.torque
           c == joint_command[i]  q == c.q  dq == c.dq
<1>1. /\ g \in Nat \ {0} /\ a \in Int /\ b \in Int /\ q \in Int /\ dq \in Int
      /\ kp \in Int /\ kd \in Int /\ tau \in Int
  BY GearFacts DEF GearInv, Told
<1>2. /\ motor[i].position = a * g /\ motor[i].velocity = b * g
      /\ m.position = q * g /\ m.velocity = dq * g
      /\ c.tau = tau * g /\ c.kp = kp * (g * g) /\ c.kd = kd * (g * g)
  BY DEF GearInv, Told, MotorAt
<1>3. Drive!ToJointTorque(i, Drive!MotorTorque(i))
        = (kp * (q * g - a * g) + kd * (dq * g - b * g) + tau) * g
  <2> HIDE DEF g, a, b, q, dq
  <2>1. Drive!MotorTorque(i) = kp * (q * g - a * g) + kd * (dq * g - b * g) + tau
    BY <1>2 DEF Drive!MotorTorque
  <2> QED
    BY <2>1 DEF Drive!ToJointTorque, g
<1> HIDE DEF g, a, b, q, dq, kp, kd, tau
<1>4. (kp * (q * g - a * g) + kd * (dq * g - b * g) + tau) * g
        = (kp * (g * g)) * (q - a) + (kd * (g * g)) * (dq - b) + tau * g
  BY <1>1
<1> QED
  BY <1>2, <1>3, <1>4 DEF a, b, q, dq

-----------------------------------------------------------------------------
(* What is left of a sequence after its head, as AnalyzeUDP takes a vector *)
(* from a quaternion.                                                      *)
LEMMA TailAt ==
  ASSUME NEW S, NEW s \in Seq(S), NEW i \in 1..(Len(s) - 1)
  PROVE  Tail(s)[i] = s[i + 1]
<1>1. s # <<>>
  BY EmptySeq
<1> QED
  BY <1>1, HeadTailProperties

(* Only 0 is its own opposite. *)
LEMMA NegatedZero ==
  ASSUME NEW x \in Int, x = 0
  PROVE  -x = 0
<1> DEFINE y == -x
<1>1. y \in Int /\ x + y = 0
  OBVIOUS
<1> HIDE DEF y
<1>2. y = 0
  BY <1>1
<1> QED
  BY <1>2 DEF y

-----------------------------------------------------------------------------
(***************************************************************************)
(* The wire.                                                               *)
(***************************************************************************)

(* A field of a datagram gives the value that was written into it.         *)
LEMMA JointUnderstood ==
  ASSUME NEW v \in Int, -320 <= v, v <= 320
  PROVE  Wire!Understood(Wire!WriteInto2Bytes(v, 320), 320) = v
<1> DEFINE w == ((v + 320) * 65535) \div (2 * 320)
<1>1. w = ((v + 320) * 65535) \div 640
  OBVIOUS
<1> HIDE DEF w
<1>2. w \in Int /\ 640 * w <= (v + 320) * 65535 /\ (v + 320) * 65535 < 640 * w + 640
  BY <1>1
<1>3. 0 <= w /\ w <= 65535
  BY <1>2
<1>4. w % 65536 = w
  BY <1>2, <1>3
<1>5. Wire!WriteInto2Bytes(v, 320) = w
  BY <1>4 DEF Wire!WriteInto2Bytes, w
<1>6. (w * 640 + 32767) \div 65535 = v + 320
  BY <1>2, <1>3
<1>7. Wire!Understood(w, 320) = (w * 640 + 32767) \div 65535 - 320
  <2>1. w * 2 * 320 = w * 640
    BY <1>2
  <2> QED
    BY <2>1 DEF Wire!Understood
<1> QED
  BY <1>5, <1>6, <1>7

(* The robot understands the speed a wheel was sent. *)
LEMMA WheelUnderstood ==
  ASSUME NEW v \in Int, -320 <= v, v <= 320
  PROVE  Wire!Understood(Wire!WriteInto2Bytes(v, 2000), 2000) = v
<1> DEFINE w == ((v + 2000) * 65535) \div (2 * 2000)
<1>1. w = ((v + 2000) * 65535) \div 4000
  OBVIOUS
<1> HIDE DEF w
<1>2. w \in Int /\ 4000 * w <= (v + 2000) * 65535 /\ (v + 2000) * 65535 < 4000 * w + 4000
  BY <1>1
<1>3. 0 <= w /\ w <= 65535
  BY <1>2
<1>4. w % 65536 = w
  BY <1>2, <1>3
<1>5. Wire!WriteInto2Bytes(v, 2000) = w
  BY <1>4 DEF Wire!WriteInto2Bytes, w
<1>6. (w * 4000 + 32767) \div 65535 = v + 2000
  BY <1>2, <1>3
<1>7. Wire!Understood(w, 2000) = (w * 4000 + 32767) \div 65535 - 2000
  <2>1. w * 2 * 2000 = w * 4000
    BY <1>2
  <2> QED
    BY <2>1 DEF Wire!Understood
<1> QED
  BY <1>5, <1>6, <1>7

(* The orders of the legs, on the wire and in the robot: every motor has   *)
(* its field, and turns as the field does.                                 *)
LEMMA FieldOfMotor ==
  ASSUME NEW m \in Wire!Motors
  PROVE  LET k == Wire!FieldOf(m)
         IN k \in Wire!Motors /\ Wire!SentMotor(k) = m /\ Wire!Sign(m) * Wire!Sign(k) = 1
<1> DEFINE k == Wire!FieldOf(m)
<1>1. \E f \in Wire!Motors : Wire!MotorAt(f, Wire!WireOrder) = m
  <2>1. \A f \in 0..15 : f \div 4 \in 0..3 /\ f % 4 \in 0..3
    OBVIOUS
  <2>2. CASE m \in 0..3
    <3>1. (m + 12) \div 4 = 3 /\ (m + 12) % 4 = m /\ m + 12 \in 0..15
      BY <2>2
    <3>2. Wire!MotorAt(m + 12, Wire!WireOrder) = m
      BY <2>2, <3>1 DEF Wire!MotorAt, Wire!WireOrder
    <3> QED
      BY <3>1, <3>2 DEF Wire!Motors
  <2>3. CASE m \in 4..7
    <3>1. (m - 4) \div 4 = 0 /\ (m - 4) % 4 = m - 4 /\ m - 4 \in 0..15
      BY <2>3
    <3>2. Wire!MotorAt(m - 4, Wire!WireOrder) = m
      BY <2>3, <3>1 DEF Wire!MotorAt, Wire!WireOrder
    <3> QED
      BY <3>1, <3>2 DEF Wire!Motors
  <2>4. CASE m \in 8..11
    <3>1. m \div 4 = 2 /\ m % 4 = m - 8
      BY <2>4
    <3>2. Wire!MotorAt(m, Wire!WireOrder) = m
      BY <2>4, <3>1 DEF Wire!MotorAt, Wire!WireOrder
    <3> QED
      BY <3>2
  <2>5. CASE m \in 12..15
    <3>1. (m - 8) \div 4 = 1 /\ (m - 8) % 4 = m - 12 /\ m - 8 \in 0..15
      BY <2>5
    <3>2. Wire!MotorAt(m - 8, Wire!WireOrder) = m
      BY <2>5, <3>1 DEF Wire!MotorAt, Wire!WireOrder
    <3> QED
      BY <3>1, <3>2 DEF Wire!Motors
  <2> QED
    BY <2>2, <2>3, <2>4, <2>5 DEF Wire!Motors
<1>2. k \in Wire!Motors /\ Wire!MotorAt(k, Wire!WireOrder) = m
  BY <1>1, Zenon DEF Wire!FieldOf
<1> HIDE DEF k
<1>3. m % 4 = k % 4
  <2>1. k \in 0..15 /\ k \div 4 \in 0..3 /\ k % 4 \in 0..3
    BY <1>2 DEF Wire!Motors
  <2>2. Wire!WireOrder[(k \div 4) + 1] \in {0, 4, 8, 12}
    BY <2>1 DEF Wire!WireOrder
  <2>3. m = Wire!WireOrder[(k \div 4) + 1] + (k % 4)
    BY <1>2 DEF Wire!MotorAt
  <2> QED
    BY <2>1, <2>2, <2>3
<1>4. Wire!Sign(m) = Wire!Sign(k)
  BY <1>3 DEF Wire!Sign, Wire!Joint
<1>5. Wire!Sign(k) * Wire!Sign(k) = 1
  BY DEF Wire!Sign
<1> QED
  BY <1>2, <1>4, <1>5 DEF Wire!SentMotor, k

(* Each field is of a motor. *)
LEMMA MotorOfField ==
  ASSUME NEW k \in Wire!Motors
  PROVE  Wire!SentMotor(k) \in Wire!Motors
<1>1. k \in 0..15 /\ k \div 4 \in 0..3 /\ k % 4 \in 0..3
  BY DEF Wire!Motors
<1>2. Wire!WireOrder[(k \div 4) + 1] \in {0, 4, 8, 12}
  BY <1>1 DEF Wire!WireOrder
<1> QED
  BY <1>1, <1>2 DEF Wire!SentMotor, Wire!MotorAt, Wire!Motors

(* What QuaternionTransform makes of a vector. *)
LEMMA TurnedVector ==
  ASSUME NEW v, NEW r
  PROVE  LET t == Wire!QuaternionTransform(v, r)
             w == r[1]  x == Tail(r)[1]  y == Tail(r)[2]  z == Tail(r)[3]
             a == v[1]  b == v[2]  c == v[3]
             d == x * a + y * b + z * c
             s == w * w - (x * x + y * y + z * z)
         IN /\ t[1] = 2 * d * x + s * a + 2 * w * (y * c - z * b)
            /\ t[2] = 2 * d * y + s * b + 2 * w * (z * a - x * c)
            /\ t[3] = 2 * d * z + s * c + 2 * w * (x * b - y * a)
<1> DEFINE u == Tail(r)
<1>1. \A i \in 1..3 : Wire!QuaternionTransform(v, r)[i] = 2 * Wire!Dot(u, v) * u[i]
        + (r[1] * r[1] - Wire!Dot(u, u)) * v[i] + 2 * r[1] * Wire!Cross(u, v)[i]
  BY DEF Wire!QuaternionTransform
<1>2. /\ Wire!Cross(u, v)[1] = u[2] * v[3] - u[3] * v[2]
      /\ Wire!Cross(u, v)[2] = u[3] * v[1] - u[1] * v[3]
      /\ Wire!Cross(u, v)[3] = u[1] * v[2] - u[2] * v[1]
  BY DEF Wire!Cross
<1>3. /\ Wire!Dot(u, v) = u[1] * v[1] + u[2] * v[2] + u[3] * v[3]
      /\ Wire!Dot(u, u) = u[1] * u[1] + u[2] * u[2] + u[3] * u[3]
  BY DEF Wire!Dot
<1>4. 1 \in 1..3 /\ 2 \in 1..3 /\ 3 \in 1..3
  OBVIOUS
<1> QED
  BY <1>1, <1>2, <1>3, <1>4, Zenon

(* The attitude in the axes of LowState is the one that was reported.      *)
LEMMA AttitudeKept ==
  ASSUME NEW q, q \in Seq(Int), Len(q) = 4
  PROVE  LET written(v) == <<v[1], -v[3], v[2]>>
             turned(v) == Wire!QuaternionTransform(v, Wire!ImuQuaternion(q))
             robot == Wire!RobotAxes(q)
         IN /\ written(robot.up) = turned(<<0, 0, 1>>)
            /\ written(robot.front) = turned(<<1, 0, 0>>)
            /\ written(robot.right) = turned(<<0, -1, 0>>)
<1> DEFINE w == q[1]  x == q[2]  y == q[3]  z == q[4]
<1>1. /\ w \in Int /\ x \in Int /\ y \in Int /\ z \in Int
      /\ Tail(q)[1] = x /\ Tail(q)[2] = y /\ Tail(q)[3] = z
  <2>1. 1 \in 1..Len(q) /\ 2 \in 1..Len(q) /\ 3 \in 1..Len(q) /\ 4 \in 1..Len(q)
    OBVIOUS
  <2>2. w \in Int /\ x \in Int /\ y \in Int /\ z \in Int
    BY <2>1, ElementOfSeq, Zenon
  <2>3. \A i \in 1..3 : i \in 1..(Len(q) - 1)
    OBVIOUS
  <2>4. \A i \in 1..3 : Tail(q)[i] = q[i + 1]
    BY <2>3, TailAt
  <2>5. 1 + 1 = 2 /\ 2 + 1 = 3 /\ 3 + 1 = 4 /\ 1 \in 1..3 /\ 2 \in 1..3 /\ 3 \in 1..3
    OBVIOUS
  <2> QED
    BY <2>2, <2>4, <2>5
<1> DEFINE p == Wire!ImuQuaternion(q)
<1>2. /\ p = <<w, x, -z, y>> /\ p[1] = w
      /\ Tail(p)[1] = x /\ Tail(p)[2] = -z /\ Tail(p)[3] = y
  <2>1. p = <<w, x, -z, y>>
    BY DEF Wire!ImuQuaternion
  <2>2. ASSUME NEW a, NEW b, NEW c, NEW d
        PROVE  LET t == Tail(<<a, b, c, d>>) IN t[1] = b /\ t[2] = c /\ t[3] = d
    OBVIOUS
  <2> HIDE DEF p
  <2> QED
    BY <2>1, <2>2
<1> DEFINE T(v, r) == Wire!QuaternionTransform(v, r)
<1>3. \A v, r : T(v, r) = [i \in 1..3 |-> T(v, r)[i]]
  BY DEF Wire!QuaternionTransform
<1>4. ASSUME NEW a, NEW b, NEW c, NEW f, f = [i \in 1..3 |-> f[i]],
             a = f[1], b = f[2], c = f[3]
      PROVE  <<a, b, c>> = f
  BY <1>4
<1>5. ASSUME NEW v, NEW g,
             \/ v = <<0, 1, 0>> /\ g = <<0, 0, 1>>
             \/ v = <<1, 0, 0>> /\ g = <<1, 0, 0>>
             \/ v = <<0, 0, 1>> /\ g = <<0, -1, 0>>
      PROVE  <<T(v, q)[1], -T(v, q)[3], T(v, q)[2]>> = T(g, p)
  <2> DEFINE a == v[1]  b == v[2]  c == v[3]
  <2>1. a \in Int /\ b \in Int /\ c \in Int /\ g[1] = a /\ g[2] = -c /\ g[3] = b
    BY <1>5
  <2> DEFINE d == x * a + y * b + z * c
             s == w * w - (x * x + y * y + z * z)
  <2>2. /\ T(v, q)[1] = 2 * d * x + s * a + 2 * w * (y * c - z * b)
        /\ T(v, q)[2] = 2 * d * y + s * b + 2 * w * (z * a - x * c)
        /\ T(v, q)[3] = 2 * d * z + s * c + 2 * w * (x * b - y * a)
    <3> HIDE DEF a, b, c, w, x, y, z
    <3>1. /\ q[1] = w /\ Tail(q)[1] = x /\ Tail(q)[2] = y /\ Tail(q)[3] = z
          /\ v[1] = a /\ v[2] = b /\ v[3] = c
      BY <1>1 DEF a, b, c, w
    <3> QED
      BY <3>1, TurnedVector
  <2> DEFINE e == x * a + (-z) * (-c) + y * b
             t == w * w - (x * x + (-z) * (-z) + y * y)
  <2>3. /\ T(g, p)[1] = 2 * e * x + t * a + 2 * w * ((-z) * b - y * (-c))
        /\ T(g, p)[2] = 2 * e * (-z) + t * (-c) + 2 * w * (y * a - x * b)
        /\ T(g, p)[3] = 2 * e * y + t * b + 2 * w * (x * (-c) - (-z) * a)
    <3> HIDE DEF p, x, y, z, w, a, b, c
    <3>1. /\ p[1] = w /\ Tail(p)[1] = x /\ Tail(p)[2] = -z /\ Tail(p)[3] = y
          /\ g[1] = a /\ g[2] = -c /\ g[3] = b
      BY <1>2, <2>1
    <3> QED
      BY <3>1, TurnedVector
  <2>4. e = d /\ t = s /\ d \in Int /\ s \in Int
    <3> HIDE DEF a, b, c, w, x, y, z
    <3> QED
      BY <1>1, <2>1
  <2>5. T(v, q)[1] = T(g, p)[1] /\ -T(v, q)[3] = T(g, p)[2] /\ T(v, q)[2] = T(g, p)[3]
    <3> HIDE DEF a, b, c, w, x, y, z, d, s, e, t, T, p
    <3>1. T(v, q)[1] = T(g, p)[1]
      BY <1>1, <2>1, <2>2, <2>3, <2>4
    <3>2. -T(v, q)[3] = T(g, p)[2]
      BY <1>1, <2>1, <2>2, <2>3, <2>4
    <3>3. T(v, q)[2] = T(g, p)[3]
      BY <1>1, <2>1, <2>2, <2>3, <2>4
    <3> QED
      BY <3>1, <3>2, <3>3
  <2>6. T(g, p) = [i \in 1..3 |-> T(g, p)[i]]
    <3> HIDE DEF T, p
    <3> QED
      BY <1>3
  <2> HIDE DEF T, p
  <2> QED
    BY <1>4, <2>5, <2>6
<1>6. /\ Wire!RobotAxes(q).up = T(<<0, 1, 0>>, q) /\ Wire!RobotAxes(q).front = T(<<1, 0, 0>>, q)
      /\ Wire!RobotAxes(q).right = T(<<0, 0, 1>>, q)
  BY DEF Wire!RobotAxes
<1> HIDE DEF T, p
<1>7. /\ <<T(<<0, 1, 0>>, q)[1], -T(<<0, 1, 0>>, q)[3], T(<<0, 1, 0>>, q)[2]>> = T(<<0, 0, 1>>, p)
      /\ <<T(<<1, 0, 0>>, q)[1], -T(<<1, 0, 0>>, q)[3], T(<<1, 0, 0>>, q)[2]>> = T(<<1, 0, 0>>, p)
      /\ <<T(<<0, 0, 1>>, q)[1], -T(<<0, 0, 1>>, q)[3], T(<<0, 0, 1>>, q)[2]>> = T(<<0, -1, 0>>, p)
  BY <1>5
<1> QED
  BY <1>6, <1>7, Zenon DEF T, p

(* Every datagram on its way to the robot is a command written into it,    *)
(* the robot's legs are where a command put them, and so is what it        *)
(* reports.                                                                *)
Commanded == [Wire!Motors -> -320..320]
Datagram(c) ==
  [of |-> c, fields |-> [k \in Wire!Motors |->
     Wire!WriteInto2Bytes(Wire!Sign(k) * c[Wire!SentMotor(k)], Wire!HalfRange(Wire!Joint(k)))]]
Placed(c) == [k \in Wire!Motors |-> Wire!Sign(k) * c[Wire!SentMotor(k)]]
Report(c, q) == [of |-> c, fields |-> Placed(c), orientation |-> q]

WireInv ==
  /\ sent \in Seq({Datagram(c) : c \in Commanded})
  /\ legs \in {[of |-> c, fields |-> Placed(c)] : c \in Commanded}
  /\ reports \in Seq({Report(c, q) : c \in Commanded, q \in WireTurns})
  /\ Wire!MotorRoundTrip /\ Wire!SameAttitude

(* What is left of a queue is some of what was in it. *)
LEMMA RemoveKeeps ==
  ASSUME NEW S, NEW s \in Seq(S), NEW i \in DOMAIN s
  PROVE  Wire!RemoveAt(s, i) \in Seq(S)
<1>1. Len(s) \in Nat /\ i \in 1..Len(s) /\ \A j \in 1..Len(s) : s[j] \in S
  OBVIOUS
<1>2. SubSeq(s, 1, i - 1) \in Seq(S)
  <2>1. \A j \in 1..(i - 1) : s[j] \in S
    BY <1>1
  <2> QED
    BY <1>1, <2>1, SubSeqProperties
<1>3. SubSeq(s, i + 1, Len(s)) \in Seq(S)
  <2>1. \A j \in (i + 1)..Len(s) : s[j] \in S
    BY <1>1
  <2> QED
    BY <1>1, <2>1, SubSeqProperties
<1> QED
  BY <1>2, <1>3, ConcatProperties DEF Wire!RemoveAt

(* The robot understands a datagram as the command it was made from.       *)
LEMMA DatagramUnderstood ==
  ASSUME NEW c \in Commanded
  PROVE  [k \in Wire!Motors |->
            Wire!Understood(Datagram(c).fields[k], Wire!HalfRange(Wire!Joint(k)))] = Placed(c)
<1>1. ASSUME NEW k \in Wire!Motors
      PROVE  Wire!Understood(Datagram(c).fields[k], Wire!HalfRange(Wire!Joint(k)))
               = Wire!Sign(k) * c[Wire!SentMotor(k)]
  <2> DEFINE v == Wire!Sign(k) * c[Wire!SentMotor(k)]
             h == Wire!HalfRange(Wire!Joint(k))
  <2>1. v \in Int /\ -320 <= v /\ v <= 320
    <3>1. c[Wire!SentMotor(k)] \in -320..320
      BY MotorOfField DEF Commanded
    <3> QED
      BY <3>1 DEF Wire!Sign
  <2>2. Datagram(c).fields[k] = Wire!WriteInto2Bytes(v, h)
    BY DEF Datagram
  <2>3. h = 320 \/ h = 2000
    BY DEF Wire!HalfRange
  <2> HIDE DEF v, h
  <2>4. Wire!Understood(Wire!WriteInto2Bytes(v, h), h) = v
    BY <2>1, <2>3, JointUnderstood, WheelUnderstood
  <2> QED
    BY <2>2, <2>4 DEF v, h
<1> QED
  BY <1>1 DEF Placed

(* Joints put on the wire and analysed are the joints. *)
LEMMA PlacedAnalyzed ==
  ASSUME NEW c \in Commanded
  PROVE  Wire!Analyzed(Placed(c)) = c
<1>1. ASSUME NEW m \in Wire!Motors
      PROVE  Wire!Sign(m) * Placed(c)[Wire!FieldOf(m)] = c[m]
  <2> DEFINE k == Wire!FieldOf(m)
  <2>1. k \in Wire!Motors /\ Wire!SentMotor(k) = m /\ Wire!Sign(m) * Wire!Sign(k) = 1
    BY FieldOfMotor
  <2> HIDE DEF k
  <2>2. Placed(c)[k] = Wire!Sign(k) * c[m]
    BY <2>1 DEF Placed
  <2>3. c[m] \in Int /\ Wire!Sign(m) \in {1, -1} /\ Wire!Sign(k) \in {1, -1}
    BY DEF Commanded, Wire!Sign
  <2>4. Wire!Sign(m) * (Wire!Sign(k) * c[m]) = c[m]
    BY <2>1, <2>3
  <2> QED
    BY <2>2, <2>4 DEF k
<1> QED
  BY <1>1 DEF Wire!Analyzed, Commanded

(* Nothing is on the way at first. *)
LEMMA WireInvInit == AllInit => WireInv
<1> SUFFICES ASSUME AllInit PROVE WireInv
  OBVIOUS
<1>1. /\ lowState = [q |-> Wire!Zero, of |-> Wire!Zero, quaternion |-> Wire!Upright,
                     robot |-> Wire!RobotAxes(Wire!Upright)]
      /\ sent = <<>> /\ reports = <<>> /\ legs = [fields |-> Wire!Zero, of |-> Wire!Zero]
  BY DEF AllInit, Wire!WireInit
<1>2. legs = [of |-> Wire!Zero, fields |-> Placed(Wire!Zero)]
  <2>1. Placed(Wire!Zero) = Wire!Zero
    <3>1. ASSUME NEW k \in Wire!Motors PROVE Wire!Sign(k) * Wire!Zero[Wire!SentMotor(k)] = 0
      <4>1. Wire!Zero[Wire!SentMotor(k)] = 0
        BY MotorOfField DEF Wire!Zero
      <4> QED
        BY <4>1 DEF Wire!Sign
    <3> QED
      BY <3>1 DEF Placed, Wire!Zero
  <2> QED
    BY <1>1, <2>1
<1>3. Wire!Zero \in Commanded
  BY DEF Wire!Zero, Commanded
<1>4. Wire!SameAttitude
  <2> DEFINE q == <<1, 0, 0, 0>>
  <2>1. q \in Seq(Int) /\ Len(q) = 4
    OBVIOUS
  <2>2. Wire!Upright = q /\ Wire!ImuQuaternion(q) = q
    <3>1. q[1] = 1 /\ q[2] = 0 /\ q[3] = 0 /\ q[4] = 0
      OBVIOUS
    <3>2. q[4] \in Int /\ q[4] = 0
      BY <3>1
    <3> HIDE DEF q
    <3>3. Wire!ImuQuaternion(q) = <<1, 0, 0, 0>>
      <4>1. Wire!ImuQuaternion(q) = <<q[1], q[2], -q[4], q[3]>>
        BY DEF Wire!ImuQuaternion
      <4>2. -q[4] = 0
        BY <3>2, NegatedZero, Zenon
      <4> QED
        BY <4>1, <4>2, <3>1, Zenon
    <3> QED
      BY <3>3 DEF Wire!Upright, q
  <2>3. lowState.quaternion = Wire!ImuQuaternion(q) /\ lowState.robot = Wire!RobotAxes(q)
    BY <1>1, <2>2
  <2> HIDE DEF q
  <2> QED
    BY <2>1, <2>3, AttitudeKept DEF Wire!SameAttitude
<1> QED
  BY <1>1, <1>2, <1>3, <1>4 DEF WireInv, Wire!MotorRoundTrip

(* Each datagram on the way is of a command, each report of the motors. *)
LEMMA WireStep ==
  ASSUME WireInv, Wire!WireNext
  PROVE  WireInv'
<1> DEFINE Sent == {Datagram(c) : c \in Commanded}
           Reports == {Report(c, q) : c \in Commanded, q \in WireTurns}
<1>1. CASE Wire!SendUDP
  <2>1. PICK m \in Wire!Motors, a \in WireAngles : lowCmd' = [Wire!Zero EXCEPT ![m] = a]
    BY <1>1 DEF Wire!SendUDP
  <2>2. lowCmd' \in Commanded
    <3>1. a \in -320..320 /\ 0 \in -320..320
      BY <2>1, PartsAssumption DEF Wire!WireAssumption
    <3>2. Wire!Zero \in [Wire!Motors -> -320..320]
      BY <3>1 DEF Wire!Zero
    <3> QED
      BY <2>1, <3>1, <3>2 DEF Commanded
  <2>3. sent' = Append(sent, Datagram(lowCmd')) /\ UNCHANGED <<legs, reports, lowState>>
    BY <1>1 DEF Wire!SendUDP, Datagram
  <2>4. sent' \in Seq(Sent)
    <3>1. Datagram(lowCmd') \in Sent /\ sent \in Seq(Sent)
      BY <2>2 DEF WireInv
    <3> HIDE DEF Sent
    <3> QED
      BY <2>3, <3>1, AppendProperties
  <2> QED
    BY <2>3, <2>4 DEF WireInv, Wire!MotorRoundTrip, Wire!SameAttitude
<1>2. CASE Wire!Obey
  <2>1. /\ sent # <<>> /\ sent' = Tail(sent) /\ UNCHANGED lowState
        /\ legs' = [of |-> Head(sent).of, fields |-> [k \in Wire!Motors |->
             Wire!Understood(Head(sent).fields[k], Wire!HalfRange(Wire!Joint(k)))]]
    BY <1>2 DEF Wire!Obey
  <2>2. PICK q \in WireTurns : reports' = Append(reports,
          [of |-> legs'.of, fields |-> legs'.fields, orientation |-> q])
    BY <1>2 DEF Wire!Obey
  <2>3. Head(sent) \in Sent /\ Tail(sent) \in Seq(Sent)
    <3>1. sent \in Seq(Sent)
      BY DEF WireInv
    <3> HIDE DEF Sent
    <3> QED
      BY <2>1, <3>1
  <2>4. PICK c \in Commanded : Head(sent) = Datagram(c)
    BY <2>3
  <2>5. legs' = [of |-> c, fields |-> Placed(c)]
    <3>1. Datagram(c).of = c
      BY DEF Datagram
    <3> QED
      BY <2>1, <2>4, <3>1, DatagramUnderstood
  <2>6. reports' = Append(reports, Report(c, q))
    BY <2>2, <2>5 DEF Report
  <2>7. reports' \in Seq(Reports)
    <3>1. Report(c, q) \in Reports /\ reports \in Seq(Reports)
      BY DEF WireInv
    <3> HIDE DEF Reports
    <3> QED
      BY <2>6, <3>1, AppendProperties
  <2> QED
    BY <2>1, <2>3, <2>5, <2>7 DEF WireInv, Wire!MotorRoundTrip, Wire!SameAttitude
<1>3. CASE Wire!Lose
  <2>1. sent \in Seq(Sent) /\ reports \in Seq(Reports)
    BY DEF WireInv
  <2>2. /\ UNCHANGED <<legs, lowState>>
        /\ \/ \E i \in DOMAIN sent : sent' = Wire!RemoveAt(sent, i) /\ UNCHANGED reports
           \/ \E i \in DOMAIN reports : reports' = Wire!RemoveAt(reports, i) /\ UNCHANGED sent
    BY <1>3 DEF Wire!Lose
  <2>3. sent' \in Seq(Sent) /\ reports' \in Seq(Reports)
    <3> HIDE DEF Sent, Reports
    <3> QED
      BY <2>1, <2>2, RemoveKeeps
  <2> QED
    BY <2>2, <2>3 DEF WireInv, Wire!MotorRoundTrip, Wire!SameAttitude
<1>4. CASE Wire!AnalyzeUDP
  <2>1. /\ reports # <<>> /\ reports' = Tail(reports) /\ UNCHANGED <<sent, legs>>
        /\ lowState' = [q |-> Wire!Analyzed(Head(reports).fields), of |-> Head(reports).of,
                        quaternion |-> Wire!ImuQuaternion(Head(reports).orientation),
                        robot |-> Wire!RobotAxes(Head(reports).orientation)]
    BY <1>4 DEF Wire!AnalyzeUDP
  <2>2. Head(reports) \in Reports /\ Tail(reports) \in Seq(Reports)
    <3>1. reports \in Seq(Reports)
      BY DEF WireInv
    <3> HIDE DEF Reports
    <3> QED
      BY <2>1, <3>1
  <2>3. PICK c \in Commanded, q \in WireTurns : Head(reports) = Report(c, q)
    BY <2>2
  <2>4. /\ Head(reports).fields = Placed(c) /\ Head(reports).of = c
        /\ Head(reports).orientation = q
    BY <2>3 DEF Report
  <2>5. Wire!MotorRoundTrip'
    BY <2>1, <2>4, PlacedAnalyzed DEF Wire!MotorRoundTrip
  <2>6. Wire!SameAttitude'
    <3>1. q \in Seq(Int) /\ Len(q) = 4
      BY PartsAssumption DEF Wire!WireAssumption
    <3>2. lowState'.quaternion = Wire!ImuQuaternion(q) /\ lowState'.robot = Wire!RobotAxes(q)
      BY <2>1, <2>4
    <3> QED
      BY <3>1, <3>2, AttitudeKept DEF Wire!SameAttitude
  <2> QED
    BY <2>1, <2>2, <2>5, <2>6 DEF WireInv
<1> QED
  BY <1>1, <1>2, <1>3, <1>4 DEF Wire!WireNext

-----------------------------------------------------------------------------
(***************************************************************************)
(* Reference motions.                                                      *)
(***************************************************************************)

(* Values between two that are apart by no more than v.                    *)
LEMMA ConvexStep ==
  ASSUME NEW u \in Int, NEW v \in Int, NEW x \in Nat, NEW y \in Nat, u * u <= v * v
  PROVE  (u * x + v * y) * (u * x + v * y) <= (v * (x + y)) * (v * (x + y))
<1> DEFINE a == v * v - u * u
           b == v * v - u * v
<1>1. a \in Int /\ b \in Int /\ a >= 0
  OBVIOUS
<1>2. 2 * b = (v - u) * (v - u) + a
  OBVIOUS
<1>3. (v - u) * (v - u) >= 0
  OBVIOUS
<1>4. b >= 0
  <2>1. (v - u) * (v - u) \in Int
    OBVIOUS
  <2> HIDE DEF a, b
  <2> QED
    BY <1>1, <1>2, <1>3, <2>1
<1>5. (v * (x + y)) * (v * (x + y)) = (u * x + v * y) * (u * x + v * y) + a * (x * x) + 2 * b * (x * y)
  OBVIOUS
<1>6. x * x \in Nat /\ x * y \in Nat
  OBVIOUS
<1>7. a * (x * x) >= 0 /\ 2 * b * (x * y) >= 0
  <2> DEFINE p == x * x
             q == x * y
  <2> HIDE DEF a, b
  <2>1. p \in Nat /\ q \in Nat
    BY <1>6
  <2> HIDE DEF p, q
  <2>2. a * p >= 0 /\ 2 * b * q >= 0
    BY <1>1, <1>4, <2>1
  <2> QED
    BY <2>2 DEF p, q
<1> DEFINE l == (u * x + v * y) * (u * x + v * y)
           r == (v * (x + y)) * (v * (x + y))
           c == a * (x * x)
           d == 2 * b * (x * y)
<1>8. l \in Int /\ r \in Int /\ c \in Int /\ d \in Int
  OBVIOUS
<1>9. r = l + c + d /\ c >= 0 /\ d >= 0
  BY <1>5, <1>7
<1>10. l <= r
  <2> HIDE DEF l, r, c, d
  <2> QED
    BY <1>8, <1>9
<1> QED
  BY <1>10

(* A time in ticks, as frames and parts of the step to the next one.       *)
LEMMA DivMod ==
  ASSUME NEW n \in Nat \ {0}, NEW a \in Int
  PROVE  /\ a \div n \in Int /\ a % n \in 0..(n - 1)
         /\ a = n * (a \div n) + (a % n)
OBVIOUS

(* Quotient and rest are unique. *)
LEMMA DivModIs ==
  ASSUME NEW n \in Nat \ {0}, NEW a \in Int, NEW q \in Int, NEW r \in 0..(n - 1),
         a = n * q + r
  PROVE  a \div n = q /\ a % n = r
<1>1. /\ a \div n \in Int /\ a % n \in 0..(n - 1)
      /\ a = n * (a \div n) + (a % n)
  BY DivMod
<1> DEFINE x == a \div n
           y == a % n
<1>2. x \in Int /\ y \in 0..(n - 1) /\ n * x + y = n * q + r
  BY <1>1
<1> HIDE DEF x, y
<1>3. n * (x - q) = r - y
  BY <1>2
<1>4. -n < r - y /\ r - y < n
  BY <1>2
<1>5. x - q < 1
  <2> SUFFICES ASSUME x - q >= 1 PROVE FALSE
    BY <1>2
  <2>1. n * (x - q) >= n
    BY <1>2
  <2> QED
    BY <1>2, <1>3, <1>4, <2>1
<1>6. x - q > -1
  <2> SUFFICES ASSUME x - q <= -1 PROVE FALSE
    BY <1>2
  <2>1. n * (x - q) <= -n
    BY <1>2
  <2> QED
    BY <1>2, <1>3, <1>4, <2>1
<1>7. x = q
  BY <1>2, <1>5, <1>6
<1>8. y = r
  BY <1>2, <1>7
<1> QED
  BY <1>7, <1>8 DEF x, y

(* The frames are there and are of one robot, and what is interpolated is  *)
(* the motion at the time of the last Update; before the first one it is   *)
(* that of time 0, written with one frame.                                 *)
MotionInv ==
  /\ frames # <<>>
  /\ frames \in Seq([root : BOOLEAN, joints : Motion!Joints(Len(frames[1].joints))])
  /\ now \in Int /\ index0 = Motion!Index0(now) /\ blend = Motion!Blend(now)
  /\ index1 = Motion!Index1(now) \/ (index1 = index0 /\ blend = 0)

(* A clip begins at its first frame. *)
LEMMA MotionInvInit == AllInit => MotionInv
<1> SUFFICES ASSUME AllInit PROVE MotionInv
  OBVIOUS
<1>1. PICK rows \in MotionFiles : frames = Motion!FramesOf(rows)
  BY DEF AllInit, Motion!MotionInit
<1>2. /\ frames # <<>> /\ MotionTicks \in Nat \ {0}
      /\ frames \in Seq([root : BOOLEAN, joints : Motion!Joints(Len(frames[1].joints))])
  BY <1>1, PartsAssumption, Zenon DEF Motion!MotionAssumption
<1>3. now = 0 /\ index0 = 0 /\ index1 = 0 /\ blend = 0
  BY DEF AllInit, Motion!MotionInit
<1>4. Motion!Last \in Int /\ Motion!Duration \in Nat \ {0}
  <2>1. Len(frames) \in Nat \ {0}
    BY <1>2, EmptySeq
  <2> QED
    BY <1>2, <2>1 DEF Motion!Last, Motion!Duration
<1>5. Motion!FrameTicks(0) = 0
  BY <1>4 DEF Motion!FrameTicks
<1>6. Motion!Index0(0) = 0 /\ Motion!Blend(0) = 0
  BY <1>4, <1>5, DivModIs DEF Motion!Index0, Motion!Blend
<1> QED
  BY <1>2, <1>3, <1>6 DEF MotionInv

(* At each Update the frames are those of its time. *)
LEMMA MotionStep ==
  ASSUME MotionInv, Motion!MotionNext
  PROVE  MotionInv'
<1>1. PICK time \in Motion!Times : Motion!Update(time)
  BY DEF Motion!MotionNext
<1>2. /\ now' = time /\ UNCHANGED frames
      /\ index0' = Motion!Index0(time) /\ index1' = Motion!Index1(time)
      /\ blend' = Motion!Blend(time)
  BY <1>1 DEF Motion!Update
<1>3. time \in Int
  BY DEF Motion!Times
<1>4. index0' = Motion!Index0(now)' /\ index1' = Motion!Index1(now)' /\ blend' = Motion!Blend(now)'
  BY <1>2 DEF Motion!Index0, Motion!Index1, Motion!Blend, Motion!FrameTicks, Motion!Duration,
              Motion!Last
<1>5. /\ frames' # <<>>
      /\ frames' \in Seq([root : BOOLEAN, joints : Motion!Joints(Len(frames'[1].joints))])
  BY <1>2 DEF MotionInv
<1> QED
  BY <1>2, <1>3, <1>4, <1>5 DEF MotionInv

(* As long as the loader is left alone. *)
LEMMA MotionKept == ASSUME MotionInv, UNCHANGED motionVars PROVE MotionInv'
BY DEF MotionInv, motionVars, Motion!Index0, Motion!Index1, Motion!Blend, Motion!FrameTicks,
       Motion!Duration, Motion!Last

(* The frames of a clip. *)
LEMMA FrameFacts ==
  ASSUME MotionInv
  PROVE  /\ Motion!Last \in Nat /\ Motion!Duration \in Nat \ {0} /\ Motion!Last < Motion!Duration
         /\ \A f \in 0..Motion!Last :
              /\ DOMAIN Motion!Positions(f) = DOMAIN Motion!Positions(0)
              /\ \A j \in DOMAIN Motion!Positions(0) : Motion!Positions(f)[j] \in Int
<1> DEFINE n == Len(frames[1].joints)
           N == Len(frames)
<1>1. frames \in Seq([root : BOOLEAN, joints : Motion!Joints(n)]) /\ frames # <<>>
  BY DEF MotionInv
<1>2. N \in Nat \ {0}
  BY <1>1, EmptySeq
<1>3. MotionTicks \in Nat \ {0}
  BY PartsAssumption DEF Motion!MotionAssumption
<1>4. Motion!Last = N - 1 /\ Motion!Duration = N * MotionTicks
  BY DEF Motion!Last, Motion!Duration
<1>5. ASSUME NEW f \in 0..Motion!Last
      PROVE  Motion!Positions(f) \in Seq(Int) /\ Len(Motion!Positions(f)) = n
  <2>1. f + 1 \in 1..N
    BY <1>2, <1>4
  <2>2. frames[f + 1] \in [root : BOOLEAN, joints : Motion!Joints(n)]
    <3> HIDE DEF n
    <3> QED
      BY <1>1, <2>1, ElementOfSeq
  <2>3. frames[f + 1].joints \in Motion!Joints(n)
    <3> HIDE DEF n
    <3> QED
      BY <2>2
  <2> QED
    BY <2>3 DEF Motion!Positions, Motion!Joints
<1>6. N * MotionTicks \in Nat \ {0} /\ N - 1 \in Nat /\ N - 1 < N * MotionTicks
  <2> HIDE DEF N
  <2>1. N * MotionTicks >= N
    BY <1>2, <1>3
  <2> QED
    BY <1>2, <1>3, <2>1
<1>7. 0 \in 0..Motion!Last
  BY <1>4, <1>6
<1>8. ASSUME NEW f \in 0..Motion!Last
      PROVE  /\ DOMAIN Motion!Positions(f) = DOMAIN Motion!Positions(0)
             /\ \A j \in DOMAIN Motion!Positions(0) : Motion!Positions(f)[j] \in Int
  <2>1. /\ Motion!Positions(f) \in Seq(Int) /\ Len(Motion!Positions(f)) = n
        /\ Motion!Positions(0) \in Seq(Int) /\ Len(Motion!Positions(0)) = n
    BY <1>5, <1>7
  <2> DEFINE a == Motion!Positions(f)
             b == Motion!Positions(0)
  <2> HIDE DEF n, a, b
  <2>2. DOMAIN a = 1..n /\ DOMAIN b = 1..n
    BY <2>1 DEF a, b
  <2>3. \A j \in 1..n : a[j] \in Int
    BY <2>1, ElementOfSeq DEF a
  <2> QED
    BY <2>2, <2>3 DEF a, b
<1> QED
  BY <1>4, <1>6, <1>8

(* The time passed, from the first frame's to the last one's.              *)
LEMMA FrameTicksFacts ==
  ASSUME MotionInv, NEW t \in Int
  PROVE  LET d == Motion!Duration  l == Motion!Last  ft(x) == Motion!FrameTicks(x)
         IN /\ ft(t) \in Int /\ 0 <= ft(t) /\ ft(t) <= d * l
            /\ t <= 0 => ft(t) = 0
            /\ t >= d => ft(t) = d * l
            /\ ft(t + 1) = ft(t) \/ ft(t + 1) = ft(t) + l
<1> DEFINE d == Motion!Duration
           l == Motion!Last
           held(x) == IF x < 0 THEN 0 ELSE IF x > d THEN d ELSE x
<1>1. d \in Nat \ {0} /\ l \in Nat
  BY FrameFacts
<1>2. \A x : Motion!FrameTicks(x) = held(x) * l
  BY DEF Motion!FrameTicks
<1> HIDE DEF d, l
<1>3. /\ held(t) \in 0..d /\ (t <= 0 => held(t) = 0) /\ (t >= d => held(t) = d)
      /\ held(t + 1) = held(t) \/ held(t + 1) = held(t) + 1
  BY <1>1
<1> DEFINE h == held(t)
           g == held(t + 1)
<1>4. h \in 0..d /\ (t <= 0 => h = 0) /\ (t >= d => h = d) /\ (g = h \/ g = h + 1)
  BY <1>3
<1>5. Motion!FrameTicks(t) = h * l /\ Motion!FrameTicks(t + 1) = g * l
  BY <1>2
<1> HIDE DEF held, h, g
<1>6. h * l \in Int /\ 0 <= h * l /\ h * l <= d * l
  <2>1. \A x \in Nat, y \in Nat : x * y \in Nat
    OBVIOUS
  <2>2. d - h \in Nat /\ h \in Nat
    BY <1>1, <1>4
  <2>3. (d - h) * l \in Nat /\ h * l \in Nat
    BY <1>1, <2>1, <2>2
  <2>4. (d - h) * l = d * l - h * l
    BY <1>1, <2>2
  <2>5. d * l \in Int
    BY <1>1
  <2> QED
    BY <2>3, <2>4, <2>5
<1>7. (t <= 0 => h * l = 0) /\ (t >= d => h * l = d * l)
  BY <1>1, <1>4
<1>8. g * l = h * l \/ g * l = h * l + l
  BY <1>1, <1>4
<1> QED
  BY <1>5, <1>6, <1>7, <1>8 DEF d, l

(* The two frames and what is between them.                                *)
LEMMA IndexFacts ==
  ASSUME MotionInv, NEW t \in Int
  PROVE  LET d == Motion!Duration  l == Motion!Last
             i == Motion!Index0(t)  b == Motion!Blend(t)
         IN /\ i \in 0..l /\ b \in 0..(d - 1)
            /\ Motion!FrameTicks(t) = d * i + b
            /\ i < l => Motion!Index1(t) = i + 1
            /\ i = l => Motion!Index1(t) = l /\ b = 0
<1> DEFINE d == Motion!Duration
           l == Motion!Last
           i == Motion!Index0(t)
           b == Motion!Blend(t)
           ft == Motion!FrameTicks(t)
<1>1. d \in Nat \ {0} /\ l \in Nat /\ ft \in Int /\ 0 <= ft /\ ft <= d * l
  BY FrameFacts, FrameTicksFacts
<1>2. i \in Int /\ b \in 0..(d - 1) /\ ft = d * i + b
  BY <1>1, DivMod DEF Motion!Index0, Motion!Blend
<1>3. Motion!Index1(t) = IF i + 1 < l THEN i + 1 ELSE l
  BY DEF Motion!Index1
<1> DEFINE j == Motion!Index1(t)
<1> HIDE DEF d, l, i, b, ft, j
<1>4. i >= 0
  <2> SUFFICES ASSUME i <= -1 PROVE FALSE
    BY <1>2
  <2>1. d * i <= -d
    BY <1>1, <1>2
  <2> QED
    BY <1>1, <1>2, <2>1
<1>5. i <= l
  <2> SUFFICES ASSUME i - l >= 1 PROVE FALSE
    BY <1>1, <1>2
  <2>1. d * (i - l) >= d
    BY <1>1, <1>2
  <2>2. d * (i - l) = d * i - d * l /\ d * i \in Int /\ d * l \in Int
    BY <1>1, <1>2
  <2> QED
    BY <1>1, <1>2, <2>1, <2>2
<1>6. i = l => b = 0
  BY <1>1, <1>2
<1>7. /\ i < l => j = i + 1
      /\ i = l => j = l
  BY <1>1, <1>2, <1>3 DEF j
<1> QED
  BY <1>1, <1>2, <1>4, <1>5, <1>6, <1>7 DEF d, l, i, b, ft, j

(* What is interpolated is the motion at the time of the Update.           *)
LEMMA MotionShown ==
  ASSUME MotionInv
  PROVE  Motion!FramesKnown /\ Motion!GetJointPos(index0, index1, blend) = Motion!PosAt(now)
<1> DEFINE d == Motion!Duration
           l == Motion!Last
<1>1. /\ now \in Int /\ index0 = Motion!Index0(now) /\ blend = Motion!Blend(now)
      /\ index1 = Motion!Index1(now) \/ (index1 = index0 /\ blend = 0)
  BY DEF MotionInv
<1>2. /\ d \in Nat \ {0} /\ l \in Nat
      /\ \A f \in 0..l : /\ DOMAIN Motion!Positions(f) = DOMAIN Motion!Positions(0)
                         /\ \A j \in DOMAIN Motion!Positions(0) : Motion!Positions(f)[j] \in Int
  BY FrameFacts
<1>3. /\ index0 \in 0..l /\ blend \in 0..(d - 1)
      /\ index0 < l => Motion!Index1(now) = index0 + 1
      /\ index0 = l => Motion!Index1(now) = l /\ blend = 0
  BY <1>1, IndexFacts
<1>4. Motion!FramesKnown
  <2> SUFFICES /\ 0 <= index0 /\ index0 <= index1 /\ index1 <= l
               /\ index1 - index0 <= 1 /\ (index0 = index1 => blend = 0)
    BY DEF Motion!FramesKnown
  <2> HIDE DEF d, l
  <2> QED
    BY <1>1, <1>2, <1>3
<1>5. Motion!GetJointPos(index0, index1, blend) = Motion!PosAt(now)
  <2>1. CASE index1 = Motion!Index1(now)
    BY <1>1, <2>1 DEF Motion!PosAt
  <2>2. CASE index1 = index0 /\ blend = 0
    <3> DEFINE k == Motion!Index1(now)
               p(f) == Motion!Positions(f)
    <3>1. k \in 0..l
      <4> HIDE DEF d, l, k
      <4> QED
        BY <1>2, <1>3 DEF k
    <3>2. Motion!PosAt(now) = [j \in DOMAIN p(index0) |-> p(index0)[j] * (d - 0) + p(k)[j] * 0]
      BY <1>1, <2>2 DEF Motion!PosAt, Motion!GetJointPos, Motion!Mix
    <3>3. Motion!GetJointPos(index0, index1, blend)
            = [j \in DOMAIN p(index0) |-> p(index0)[j] * (d - 0) + p(index0)[j] * 0]
      BY <2>2 DEF Motion!GetJointPos, Motion!Mix
    <3>4. ASSUME NEW j \in DOMAIN p(index0)
          PROVE  p(k)[j] * 0 = p(index0)[j] * 0
      <4>1. p(k)[j] \in Int /\ p(index0)[j] \in Int
        BY <1>2, <1>3, <3>1
      <4> HIDE DEF p, k
      <4> QED
        BY <4>1
    <3> HIDE DEF p, k, d
    <3> QED
      BY <3>2, <3>3, <3>4
  <2> QED
    BY <1>1, <2>1, <2>2
<1> QED
  BY <1>4, <1>5

(* The position of a joint at a time, Duration times. *)
JointAt(t, j) ==
  LET i == Motion!Index0(t)  b == Motion!Blend(t)  p(f) == Motion!Positions(f)[j]
  IN IF i < Motion!Last THEN p(i) * (Motion!Duration - b) + p(i + 1) * b
                        ELSE p(Motion!Last) * Motion!Duration

(* A joint between two frames. *)
LEMMA PosAtIs ==
  ASSUME MotionInv, NEW t \in Int
  PROVE  Motion!PosAt(t) = [j \in DOMAIN Motion!Positions(0) |-> JointAt(t, j)]
<1> DEFINE d == Motion!Duration
           l == Motion!Last
           i == Motion!Index0(t)
           k == Motion!Index1(t)
           b == Motion!Blend(t)
           p(f) == Motion!Positions(f)
<1>1. /\ d \in Nat \ {0} /\ l \in Nat
      /\ \A f \in 0..l : /\ DOMAIN p(f) = DOMAIN p(0)
                         /\ \A j \in DOMAIN p(0) : p(f)[j] \in Int
  BY FrameFacts
<1>2. /\ i \in 0..l /\ b \in 0..(d - 1)
      /\ i < l => k = i + 1
      /\ i = l => k = l /\ b = 0
  BY IndexFacts
<1>3. Motion!PosAt(t) = [j \in DOMAIN p(i) |-> p(i)[j] * (d - b) + p(k)[j] * b]
  BY DEF Motion!PosAt, Motion!GetJointPos, Motion!Mix
<1>4. DOMAIN p(i) = DOMAIN p(0)
  BY <1>1, <1>2
<1>5. ASSUME NEW j \in DOMAIN p(0)
      PROVE  p(i)[j] * (d - b) + p(k)[j] * b = JointAt(t, j)
  <2>1. JointAt(t, j) = IF i < l THEN p(i)[j] * (d - b) + p(i + 1)[j] * b ELSE p(l)[j] * d
    BY DEF JointAt
  <2>2. l \in 0..l /\ p(l)[j] \in Int
    BY <1>1
  <2> HIDE DEF d, l, i, k, b, p
  <2>3. CASE i < l
    BY <1>2, <2>1, <2>3
  <2>4. CASE i = l
    <3> DEFINE v == p(l)[j]
    <3>1. v \in Int
      BY <2>2
    <3>2. p(i)[j] * (d - b) + p(k)[j] * b = v * (d - 0) + v * 0
      BY <1>2, <2>4
    <3>3. JointAt(t, j) = v * d
      BY <1>1, <2>1, <2>4
    <3> HIDE DEF v
    <3> QED
      BY <1>1, <3>1, <3>2, <3>3
  <2> QED
    BY <1>1, <1>2, <2>3, <2>4
<1> HIDE DEF d, l, i, k, b, p
<1>6. Motion!PosAt(t) = [j \in DOMAIN p(0) |-> JointAt(t, j)]
  BY <1>3, <1>4, <1>5
<1> QED
  BY <1>6 DEF p

(* From one tick to the next a joint moves as one frame's velocity says,   *)
(* or as two neighbours' do in turn.                                       *)
LEMMA JointMoves ==
  ASSUME MotionInv, NEW t \in Int, NEW j \in DOMAIN Motion!Positions(0)
  PROVE  LET v(f) == Motion!Positions(f + 1)[j] - Motion!Positions(f)[j]
             moved == JointAt(t + 1, j) - JointAt(t, j)
         IN \/ JointAt(t + 1, j) = JointAt(t, j)
            \/ \E f \in 0..(Motion!Last - 1) :
                 moved * moved <= (v(f) * Motion!Last) * (v(f) * Motion!Last)
<1> DEFINE d == Motion!Duration
           l == Motion!Last
           ft(x) == Motion!FrameTicks(x)
           i(x) == Motion!Index0(x)
           b(x) == Motion!Blend(x)
           p(f) == Motion!Positions(f)[j]
           v(f) == p(f + 1) - p(f)
           at(x) == JointAt(x, j)
<1>1. /\ d \in Nat \ {0} /\ l \in Nat /\ l < d
      /\ \A f \in 0..l : p(f) \in Int
  BY FrameFacts
<1>2. /\ i(t) \in 0..l /\ b(t) \in 0..(d - 1) /\ ft(t) = d * i(t) + b(t)
      /\ i(t + 1) \in 0..l /\ b(t + 1) \in 0..(d - 1) /\ ft(t + 1) = d * i(t + 1) + b(t + 1)
      /\ i(t + 1) = l => b(t + 1) = 0
      /\ i(t) = l => b(t) = 0
  <2>1. t + 1 \in Int
    OBVIOUS
  <2> QED
    BY <2>1, IndexFacts
<1>3. \A x : at(x) = IF i(x) < l THEN p(i(x)) * (d - b(x)) + p(i(x) + 1) * b(x) ELSE p(l) * d
  BY DEF JointAt
<1>4. ft(t + 1) = ft(t) \/ ft(t + 1) = ft(t) + l
  BY FrameTicksFacts
<1> DEFINE I == i(t)
           B == b(t)
           J == i(t + 1)
           C == b(t + 1)
<1>5. /\ I \in 0..l /\ B \in 0..(d - 1) /\ J \in 0..l /\ C \in 0..(d - 1)
      /\ J = l => C = 0
      /\ I = l => B = 0
      /\ d * J + C = d * I + B \/ d * J + C = d * I + B + l
  BY <1>2, <1>4
<1>6. /\ at(t) = IF I < l THEN p(I) * (d - B) + p(I + 1) * B ELSE p(l) * d
      /\ at(t + 1) = IF J < l THEN p(J) * (d - C) + p(J + 1) * C ELSE p(l) * d
  BY <1>3
<1> HIDE DEF I, B, J, C, at, p, d, l
<1>7. CASE d * J + C = d * I + B
  <2> DEFINE x == d * I + B
  <2>1. x \in Int /\ x = d * I + B /\ x = d * J + C
    BY <1>1, <1>5, <1>7
  <2> HIDE DEF x
  <2>2. x \div d = I /\ x % d = B /\ x \div d = J /\ x % d = C
    BY <1>1, <1>5, <2>1, DivModIs
  <2> QED
    BY <1>6, <2>2 DEF at
<1>8. CASE d * J + C = d * I + B + l /\ ~(d * J + C = d * I + B)
  <2>1. l >= 1
    BY <1>1, <1>5, <1>8
  <2>2. d * (J - I) = B + l - C
    BY <1>1, <1>5, <1>8
  <2>3. (J = I /\ C = B + l) \/ (J = I + 1 /\ C = B + l - d)
    <3>1. J - I < 2
      <4> SUFFICES ASSUME J - I >= 2 PROVE FALSE
        BY <1>5
      <4>1. d * (J - I) >= d * 2
        BY <1>1, <1>5
      <4> QED
        BY <1>1, <1>5, <2>2, <4>1
    <3>2. J - I > -1
      <4> SUFFICES ASSUME J - I <= -1 PROVE FALSE
        BY <1>5
      <4>1. d * (J - I) <= -d
        BY <1>1, <1>5
      <4> QED
        BY <1>1, <1>5, <2>2, <4>1
    <3>3. J = I \/ J = I + 1
      BY <1>5, <3>1, <3>2
    <3> QED
      BY <1>1, <1>5, <2>2, <3>3
  <2>4. I < l
    BY <1>1, <1>5, <2>1, <2>3
  <2>5. p(I) \in Int /\ p(I + 1) \in Int /\ v(I) \in Int
    BY <1>1, <1>5, <2>4
  <2> DEFINE P == p(I)
             Q == p(I + 1)
  <2>6. P \in Int /\ Q \in Int /\ v(I) = Q - P /\ I \in 0..(l - 1)
    BY <1>1, <1>5, <2>4, <2>5
  <2>7. at(t) = P * (d - B) + Q * B
    BY <1>6, <2>4
  <2>8. CASE J = I /\ C = B + l
    <3>1. at(t + 1) = P * (d - C) + Q * C
      BY <1>6, <2>4, <2>8
    <3> DEFINE m == at(t + 1) - at(t)
               w == v(I)
    <3> HIDE DEF P, Q
    <3>2. m = w * l
      <4> HIDE DEF v
      <4> QED
        BY <1>1, <1>5, <2>6, <2>7, <2>8, <3>1
    <3>3. m * m <= (w * l) * (w * l)
      <4>1. (w * l) * (w * l) \in Int
        BY <1>1, <2>5
      <4> QED
        BY <3>2, <4>1
    <3> QED
      BY <2>6, <3>3 DEF at, p, d, l
  <2>9. CASE J = I + 1 /\ C = B + l - d
    <3> DEFINE R == IF J < l THEN p(J + 1) ELSE Q
    <3>1. R \in Int
      BY <1>1, <1>5, <2>6, <2>9
    <3>2. at(t + 1) = Q * (d - C) + R * C
      <4>1. CASE J < l
        BY <1>6, <2>9, <4>1
      <4>2. CASE J = l
        <5>1. C = 0 /\ p(l) = Q /\ at(t + 1) = p(l) * d
          BY <1>1, <1>5, <1>6, <2>9, <4>2
        <5> HIDE DEF R, Q
        <5> QED
          BY <1>1, <2>6, <3>1, <5>1
      <4> QED
        BY <1>1, <1>5, <4>1, <4>2
    <3>3. J < l => v(J) = R - Q /\ J \in 0..(l - 1)
      BY <1>1, <1>5, <2>9
    <3>4. J = l => R = Q
      BY <1>1
    <3> DEFINE a == Q - P
               e == R - Q
               x == d - B
               m == at(t + 1) - at(t)
    <3> HIDE DEF P, Q, R
    <3>5. a \in Int /\ e \in Int /\ x \in Nat /\ C \in Nat /\ x + C = l
      BY <1>1, <1>5, <2>6, <2>9, <3>1
    <3>6. m = a * x + e * C
      BY <1>1, <1>5, <2>6, <2>7, <2>9, <3>1, <3>2
    <3>7. v(I) = a /\ (J < l => v(J) = e) /\ (J = l => e = 0)
      BY <2>6, <3>1, <3>3, <3>4
    <3> HIDE DEF a, e, x, m
    <3>8. CASE e * e <= a * a
      <4>1. (e * C + a * x) * (e * C + a * x) <= (a * (C + x)) * (a * (C + x))
        BY <3>5, <3>8, ConvexStep
      <4>2. e * C + a * x = m /\ C + x = l
        BY <3>5, <3>6
      <4>3. m * m <= (a * l) * (a * l)
        BY <4>1, <4>2
      <4> QED
        BY <2>6, <3>7, <4>3 DEF at, m, p, l
    <3>9. CASE a * a <= e * e /\ J < l
      <4>1. (a * x + e * C) * (a * x + e * C) <= (e * (x + C)) * (e * (x + C))
        BY <3>5, <3>9, ConvexStep
      <4>2. m * m <= (e * l) * (e * l)
        BY <3>5, <3>6, <4>1
      <4> QED
        BY <3>3, <3>7, <3>9, <4>2 DEF at, m, p, l
    <3>10. CASE J = l
      <4>1. e * e <= a * a
        BY <3>5, <3>7, <3>10
      <4> QED
        BY <3>8, <4>1
    <3>11. e * e <= a * a \/ a * a <= e * e
      BY <3>5
    <3> QED
      BY <1>1, <1>5, <3>8, <3>9, <3>10, <3>11
  <2> QED
    BY <2>3, <2>8, <2>9
<1> QED
  BY <1>5, <1>7, <1>8

(* From one time to the next no joint moves faster than the frames do. *)
LEMMA MotionSmooth ==
  ASSUME MotionInv
  PROVE  Motion!MotionContinuous
<1> DEFINE d == Motion!Duration
           l == Motion!Last
           pos == Motion!GetJointPos(index0, index1, blend)
           p(f) == Motion!Positions(f)
<1>1. /\ d \in Nat \ {0} /\ l \in Nat
      /\ \A f \in 0..l : /\ DOMAIN p(f) = DOMAIN p(0)
                         /\ \A j \in DOMAIN p(0) : p(f)[j] \in Int
  BY FrameFacts
<1>2. now \in Int /\ now + 1 \in Int
  BY DEF MotionInv
<1>3. /\ pos = [j \in DOMAIN p(0) |-> JointAt(now, j)]
      /\ Motion!PosAt(now + 1) = [j \in DOMAIN p(0) |-> JointAt(now + 1, j)]
  BY <1>2, MotionShown, PosAtIs
<1> DEFINE i == Motion!Index0(now)
           b == Motion!Blend(now)
           ft == Motion!FrameTicks(now)
<1>4. /\ i \in 0..l /\ b \in 0..(d - 1) /\ ft = d * i + b
      /\ now <= 0 => ft = 0
      /\ now >= d => ft = d * l
  BY <1>2, IndexFacts, FrameTicksFacts
<1>5. \A j : JointAt(now, j) = IF i < l THEN p(i)[j] * (d - b) + p(i + 1)[j] * b ELSE p(l)[j] * d
  BY DEF JointAt
<1>6. \A f : Motion!Mix(p(f), p(f), 0)
               = [j \in DOMAIN p(f) |-> p(f)[j] * (d - 0) + p(f)[j] * 0]
  BY DEF Motion!Mix
<1>7. ASSUME now <= 0
      PROVE  pos = Motion!Mix(p(0), p(0), 0)
  <2>1. i = 0 /\ b = 0
    <3>1. ft = d * 0 + 0 /\ i = ft \div d /\ b = ft % d
      BY <1>1, <1>4, <1>7 DEF Motion!Index0, Motion!Blend
    <3> HIDE DEF ft, i, b
    <3> QED
      BY <1>1, <1>4, <1>7, <3>1, DivModIs
  <2>2. ASSUME NEW j \in DOMAIN p(0)
        PROVE  JointAt(now, j) = p(0)[j] * (d - 0) + p(0)[j] * 0
    <3> DEFINE x == p(0)[j]
               y == p(1)[j]
    <3>1. x \in Int /\ (0 < l => y \in Int)
      BY <1>1
    <3>2. JointAt(now, j) = IF 0 < l THEN x * (d - 0) + y * 0 ELSE p(l)[j] * d
      BY <1>5, <2>1
    <3>3. l = 0 => p(l)[j] = x
      OBVIOUS
    <3> HIDE DEF x, y, p, d, l
    <3>4. JointAt(now, j) = x * (d - 0) + x * 0
      BY <1>1, <3>1, <3>2, <3>3
    <3> QED
      BY <3>4 DEF x
  <2> HIDE DEF p, d
  <2> QED
    BY <1>3, <1>6, <2>2
<1>8. ASSUME now >= d
      PROVE  pos = Motion!Mix(p(l), p(l), 0)
  <2>1. i = l
    <3>1. ft = d * l + 0 /\ i = ft \div d
      <4>1. d * l \in Int
        BY <1>1
      <4> QED
        BY <1>4, <1>8, <4>1 DEF Motion!Index0
    <3> HIDE DEF ft, i
    <3>2. 0 \in 0..(d - 1) /\ l \in Int /\ ft \in Int
      BY <1>1, <3>1
    <3>3. ft \div d = l
      BY <1>1, <3>1, <3>2, DivModIs
    <3> QED
      BY <3>1, <3>3
  <2>2. DOMAIN p(l) = DOMAIN p(0) /\ \A j \in DOMAIN p(0) : p(l)[j] \in Int
    BY <1>1
  <2>3. ASSUME NEW j \in DOMAIN p(0)
        PROVE  JointAt(now, j) = p(l)[j] * (d - 0) + p(l)[j] * 0
    <3> DEFINE x == p(l)[j]
    <3>1. x \in Int
      BY <2>2
    <3>2. JointAt(now, j) = x * d
      BY <1>1, <1>5, <2>1
    <3> HIDE DEF x
    <3>3. JointAt(now, j) = x * (d - 0) + x * 0
      BY <1>1, <3>1, <3>2
    <3> QED
      BY <3>3 DEF x
  <2> HIDE DEF p, d, l
  <2> QED
    BY <1>3, <1>6, <2>2, <2>3
<1>9. ASSUME NEW j \in DOMAIN pos
      PROVE  \/ Motion!PosAt(now + 1)[j] = pos[j]
             \/ \E f \in 0..(l - 1) :
                  Motion!Square(Motion!PosAt(now + 1)[j] - pos[j])
                    <= Motion!Square(Motion!Velocities(f)[j] * l)
  <2>1. j \in DOMAIN p(0)
    BY <1>3
  <2>2. Motion!PosAt(now + 1)[j] = JointAt(now + 1, j) /\ pos[j] = JointAt(now, j)
    BY <1>3, <2>1
  <2> DEFINE v(f) == p(f + 1)[j] - p(f)[j]
             m == JointAt(now + 1, j) - JointAt(now, j)
  <2>3. \/ JointAt(now + 1, j) = JointAt(now, j)
        \/ \E f \in 0..(l - 1) : m * m <= (v(f) * l) * (v(f) * l)
    BY <1>2, <2>1, JointMoves
  <2>4. ASSUME NEW f \in 0..(l - 1) PROVE Motion!Velocities(f)[j] = v(f)
    <3>1. f # l /\ f \in 0..l
      BY <1>1
    <3>2. DOMAIN p(f) = DOMAIN p(0)
      BY <1>1, <3>1
    <3>3. Motion!Velocities(f) = [x \in DOMAIN p(f) |-> p(f + 1)[x] - p(f)[x]]
      BY <3>1 DEF Motion!Velocities
    <3> HIDE DEF p
    <3> QED
      BY <2>1, <3>2, <3>3
  <2>5. \A x : Motion!Square(x) = x * x
    BY DEF Motion!Square
  <2>6. ASSUME NEW f \in 0..(l - 1), m * m <= (v(f) * l) * (v(f) * l)
        PROVE  Motion!Square(Motion!PosAt(now + 1)[j] - pos[j])
                 <= Motion!Square(Motion!Velocities(f)[j] * l)
    <3> DEFINE V == Motion!Velocities(f)[j]
    <3>1. Motion!PosAt(now + 1)[j] - pos[j] = m
      BY <2>2
    <3>2. V = v(f)
      BY <2>4
    <3> HIDE DEF m, v, V, l
    <3>3. Motion!Square(m) = m * m /\ Motion!Square(V * l) = (V * l) * (V * l)
      BY <2>5
    <3> HIDE DEF pos
    <3> QED
      BY <2>6, <3>1, <3>2, <3>3 DEF V
  <2> HIDE DEF m, v, l, pos
  <2> QED
    BY <2>2, <2>3, <2>6
<1>10. Motion!MotionContinuous
       <=> /\ now <= 0 => pos = Motion!Mix(p(0), p(0), 0)
           /\ now >= d => pos = Motion!Mix(p(l), p(l), 0)
           /\ \A j \in DOMAIN pos :
                \/ Motion!PosAt(now + 1)[j] = pos[j]
                \/ \E f \in 0..(l - 1) :
                     Motion!Square(Motion!PosAt(now + 1)[j] - pos[j])
                       <= Motion!Square(Motion!Velocities(f)[j] * l)
  BY DEF Motion!MotionContinuous
<1> HIDE DEF pos, p, d, l
<1> QED
  BY <1>7, <1>8, <1>9, <1>10

-----------------------------------------------------------------------------

(***************************************************************************)
(* The calls a buffer has seen: which of them a step of the history is of, *)
(* and which has last written a component.                                 *)
(***************************************************************************)

InsertsOf(l) == {n \in DOMAIN l : l[n].op = "insert"}
After(l, n) == {m \in InsertsOf(l) : m > n}
NthLast(l, t, n) == n \in InsertsOf(l) /\ Cardinality(After(l, n)) = t
OriginOf(l, t) ==
  IF \E n \in InsertsOf(l) : Cardinality(After(l, n)) = t
  THEN CHOOSE n \in InsertsOf(l) : Cardinality(After(l, n)) = t
  ELSE 0

(* They are finitely many. *)
LEMMA InsertsFinite ==
  ASSUME NEW S, NEW l \in Seq(S), NEW n
  PROVE  /\ InsertsOf(l) \subseteq 1..Len(l) /\ IsFiniteSet(InsertsOf(l))
         /\ After(l, n) \subseteq InsertsOf(l) /\ IsFiniteSet(After(l, n))
         /\ Cardinality(After(l, n)) \in Nat
<1>1. InsertsOf(l) \subseteq 1..Len(l)
  BY DEF InsertsOf
<1>2. IsFiniteSet(1..Len(l))
  BY FS_Interval
<1>3. IsFiniteSet(InsertsOf(l))
  BY <1>1, <1>2, FS_Subset
<1>4. After(l, n) \subseteq InsertsOf(l)
  BY DEF After
<1>5. IsFiniteSet(After(l, n))
  BY <1>3, <1>4, FS_Subset
<1> QED
  BY <1>1, <1>3, <1>4, <1>5, FS_CardinalityType

(* No two inserts are followed by as many. *)
LEMMA OneNthLast ==
  ASSUME NEW S, NEW l \in Seq(S), NEW t, NEW m, NEW n, NthLast(l, t, m), NthLast(l, t, n)
  PROVE  m = n
<1>1. ASSUME NEW a \in InsertsOf(l), NEW b \in InsertsOf(l), a < b,
             Cardinality(After(l, a)) = Cardinality(After(l, b))
      PROVE  FALSE
  <2>1. a \in Int /\ b \in Int /\ InsertsOf(l) \subseteq Int
    BY InsertsFinite
  <2>2. After(l, b) \subseteq After(l, a)
    BY <1>1, <2>1 DEF After
  <2>3. b \in After(l, a) /\ b \notin After(l, b)
    BY <1>1, <2>1 DEF After
  <2>4. IsFiniteSet(After(l, a))
    BY InsertsFinite
  <2>5. After(l, a) = After(l, b)
    BY <1>1, <2>2, <2>4, FS_Subset
  <2> QED
    BY <2>3, <2>5
<1>2. m \in InsertsOf(l) /\ n \in InsertsOf(l) /\ Cardinality(After(l, m)) = Cardinality(After(l, n))
  BY DEF NthLast
<1>3. m \in Int /\ n \in Int
  BY <1>2, InsertsFinite
<1>4. ~(m < n) /\ ~(n < m)
  BY <1>1, <1>2
<1> QED
  BY <1>3, <1>4

(* The origin of a step is the insert that so many follow, if there is one. *)
LEMMA OriginIs ==
  ASSUME NEW S, NEW l \in Seq(S), NEW t
  PROVE  /\ \A n : NthLast(l, t, n) => OriginOf(l, t) = n
         /\ (\A n : ~NthLast(l, t, n)) => OriginOf(l, t) = 0
         /\ OriginOf(l, t) \in 0..Len(l)
<1>1. ASSUME NEW n, NthLast(l, t, n) PROVE OriginOf(l, t) = n
  <2>1. \E x \in InsertsOf(l) : Cardinality(After(l, x)) = t
    BY <1>1 DEF NthLast
  <2>2. OriginOf(l, t) = CHOOSE x \in InsertsOf(l) : Cardinality(After(l, x)) = t
    BY <2>1 DEF OriginOf
  <2>3. NthLast(l, t, OriginOf(l, t))
    BY <2>1, <2>2, Zenon DEF NthLast
  <2> QED
    BY <1>1, <2>3, OneNthLast
<1>2. ASSUME \A n : ~NthLast(l, t, n) PROVE OriginOf(l, t) = 0
  BY <1>2 DEF NthLast, OriginOf
<1>3. OriginOf(l, t) \in 0..Len(l)
  <2>1. Len(l) \in Nat
    OBVIOUS
  <2>2. CASE \E n : NthLast(l, t, n)
    <3>1. PICK n : NthLast(l, t, n)
      BY <2>2
    <3>2. n \in 1..Len(l)
      BY <3>1, InsertsFinite DEF NthLast
    <3> QED
      BY <1>1, <2>1, <3>1, <3>2
  <2>3. CASE \A n : ~NthLast(l, t, n)
    BY <1>2, <2>1, <2>3
  <2> QED
    BY <2>2, <2>3
<1> QED
  BY <1>1, <1>2, <1>3

(* An insert is the last one, and each of the others is followed by one    *)
(* more of them.                                                           *)
LEMMA InsertOrigins ==
  ASSUME NEW S, NEW l \in Seq(S), NEW c \in S, c.op = "insert"
  PROVE  /\ OriginOf(Append(l, c), 0) = Len(l) + 1
         /\ \A t \in Nat : OriginOf(Append(l, c), t + 1) = OriginOf(l, t)
<1> DEFINE a == Append(l, c)
           N == Len(l) + 1
<1>1. a \in Seq(S) /\ Len(a) = N /\ N \in Nat /\ a[N] = c /\ \A n \in 1..Len(l) : a[n] = l[n]
  BY AppendProperties
<1>2. DOMAIN a = 1..N /\ DOMAIN l = 1..Len(l) /\ Len(l) \in Nat
  BY <1>1
<1>3. InsertsOf(a) = InsertsOf(l) \cup {N}
  <2> HIDE DEF a
  <2> QED
    BY <1>1, <1>2 DEF InsertsOf
<1>4. InsertsOf(l) \subseteq 1..Len(l)
  BY InsertsFinite
<1> HIDE DEF a
<1>5. After(a, N) = {}
  BY <1>1, <1>3, <1>4 DEF After
<1>6. ASSUME NEW n \in InsertsOf(l)
      PROVE  /\ After(a, n) = After(l, n) \cup {N} /\ N \notin After(l, n)
             /\ Cardinality(After(a, n)) = Cardinality(After(l, n)) + 1
  <2>1. After(a, n) = After(l, n) \cup {N} /\ N \notin After(l, n)
    BY <1>1, <1>3, <1>4 DEF After
  <2>2. IsFiniteSet(After(l, n))
    BY InsertsFinite
  <2> HIDE DEF N
  <2> QED
    BY <2>1, <2>2, FS_AddElement
<1>7. NthLast(a, 0, N)
  BY <1>3, <1>5, FS_EmptySet DEF NthLast
<1>8. OriginOf(a, 0) = N
  BY <1>1, <1>7, OriginIs
<1>9. ASSUME NEW t \in Nat PROVE OriginOf(a, t + 1) = OriginOf(l, t)
  <2>1. ASSUME NEW n PROVE NthLast(a, t + 1, n) <=> NthLast(l, t, n)
    <3>1. CASE n \in InsertsOf(l)
      <4>1. Cardinality(After(l, n)) \in Nat
        BY InsertsFinite
      <4> QED
        BY <1>3, <1>6, <3>1, <4>1 DEF NthLast
    <3>2. CASE n = N
      <4>1. ~NthLast(l, t, n)
        BY <1>1, <1>4, <3>2 DEF NthLast
      <4>2. Cardinality(After(a, n)) = 0
        BY <1>5, <3>2, FS_EmptySet
      <4>3. ~NthLast(a, t + 1, n)
        BY <4>2 DEF NthLast
      <4> QED
        BY <4>1, <4>3
    <3>3. CASE n \notin InsertsOf(a)
      BY <1>3, <3>3 DEF NthLast
    <3> QED
      BY <1>3, <3>1, <3>2, <3>3
  <2>2. CASE \E n : NthLast(l, t, n)
    <3>1. PICK n : NthLast(l, t, n)
      BY <2>2
    <3>2. NthLast(a, t + 1, n)
      BY <2>1, <3>1
    <3> QED
      BY <1>1, <3>1, <3>2, OriginIs
  <2>3. CASE \A n : ~NthLast(l, t, n)
    <3>1. \A n : ~NthLast(a, t + 1, n)
      BY <2>1, <2>3
    <3> QED
      BY <1>1, <2>3, <3>1, OriginIs
  <2> QED
    BY <2>2, <2>3
<1> QED
  BY <1>8, <1>9 DEF a

(* A reset is no insert: each step stays of the one it was of. *)
LEMMA ResetOrigins ==
  ASSUME NEW S, NEW l \in Seq(S), NEW c \in S, c.op # "insert", NEW t
  PROVE  OriginOf(Append(l, c), t) = OriginOf(l, t)
<1> DEFINE a == Append(l, c)
           N == Len(l) + 1
<1>1. a \in Seq(S) /\ Len(a) = N /\ N \in Nat /\ a[N] = c /\ \A n \in 1..Len(l) : a[n] = l[n]
  BY AppendProperties
<1>2. DOMAIN a = 1..N /\ DOMAIN l = 1..Len(l) /\ Len(l) \in Nat
  BY <1>1
<1> HIDE DEF a
<1>3. InsertsOf(a) = InsertsOf(l)
  BY <1>1, <1>2 DEF InsertsOf
<1>4. \A n : After(a, n) = After(l, n)
  BY <1>3 DEF After
<1>5. \A n : NthLast(a, t, n) <=> NthLast(l, t, n)
  BY <1>3, <1>4 DEF NthLast
<1>6. CASE \E n : NthLast(l, t, n)
  BY <1>1, <1>5, <1>6, OriginIs DEF a
<1>7. CASE \A n : ~NthLast(l, t, n)
  BY <1>1, <1>5, <1>7, OriginIs DEF a
<1> QED
  BY <1>6, <1>7
(* The resets since a step's origin that have replaced a component, and    *)
(* the call the component is of.                                           *)
ResetsOf(l, e, t, i) ==
  {n \in (OriginOf(l, t) + 1)..Len(l) :
     l[n].op = "reset" /\ e \in l[n].idxs /\ i < l[n].size}
Stamp(l, e, t, i) == Max(ResetsOf(l, e, t, i) \cup {OriginOf(l, t)})

(* The history is in its order when each component is of that call. *)
LEMMA HistoryStamps ==
  Buffer!HistoryInOrder <=>
    \A e \in Buffer!Envs, t \in Buffer!Steps, i \in Buffer!Components :
      buf[e][t][i] = <<Stamp(log, e, t, i), i>>
<1>1. ASSUME NEW t PROVE Buffer!Origin(t) = OriginOf(log, t)
  BY Zenon DEF Buffer!Origin, Buffer!Inserts, OriginOf, InsertsOf, After,
    Buffer!Cardinality, Cardinality
<1>2. \A T : Buffer!Max(T) = Max(T)
  BY DEF Buffer!Max, Max
<1> QED
  BY <1>1, <1>2 DEF Buffer!HistoryInOrder, Stamp, ResetsOf

(* After an insert step 0 is of that call, *)
LEMMA InsertStamps ==
  ASSUME NEW S, NEW l \in Seq(S), NEW c \in S, c.op = "insert", NEW e, NEW i
  PROVE  Stamp(Append(l, c), e, 0, i) = Len(l) + 1
<1> DEFINE a == Append(l, c)
           N == Len(l) + 1
           T == {N}
<1>1. Len(a) = N /\ N \in Nat
  BY AppendProperties
<1>2. OriginOf(a, 0) = N
  BY InsertOrigins
<1> HIDE DEF a
<1>3. ResetsOf(a, e, 0, i) \cup {OriginOf(a, 0)} = T
  BY <1>1, <1>2 DEF ResetsOf
<1>4. T \subseteq Int /\ N \in T /\ \A n \in T : n <= N
  BY <1>1
<1> HIDE DEF T
<1>5. Max(T) = N
  BY <1>4, MaxIs
<1> QED
  BY <1>3, <1>5 DEF Stamp, a

(* and each other step of the call the one before it was of. *)
LEMMA LaterStamps ==
  ASSUME NEW S, NEW l \in Seq(S), NEW c \in S, c.op = "insert", NEW e, NEW i, NEW t \in Nat
  PROVE  Stamp(Append(l, c), e, t + 1, i) = Stamp(l, e, t, i)
<1> DEFINE a == Append(l, c)
           N == Len(l) + 1
<1>1. a \in Seq(S) /\ Len(a) = N /\ Len(l) \in Nat /\ N \in Nat /\ a[N] = c
      /\ \A n \in 1..Len(l) : a[n] = l[n]
  BY AppendProperties
<1>2. OriginOf(a, t + 1) = OriginOf(l, t)
  BY InsertOrigins
<1>3. OriginOf(l, t) \in Nat /\ OriginOf(l, t) <= Len(l)
  BY <1>1, OriginIs
<1> HIDE DEF a
<1>4. ASSUME NEW n
      PROVE  n \in ResetsOf(a, e, t + 1, i) <=> n \in ResetsOf(l, e, t, i)
  <2>1. a[N].op # "reset"
    BY <1>1
  <2>2. n \in (OriginOf(l, t) + 1)..N <=> (n \in (OriginOf(l, t) + 1)..Len(l) \/ n = N)
    <3>1. \A p \in Nat, q \in Nat : p <= q =>
            (n \in (p + 1)..(q + 1) <=> (n \in (p + 1)..q \/ n = q + 1))
      OBVIOUS
    <3> QED
      BY <1>1, <1>3, <3>1
  <2>3. n \in (OriginOf(l, t) + 1)..Len(l) => a[n] = l[n] /\ n # N
    BY <1>1, <1>3
  <2> HIDE DEF N
  <2> QED
    BY <1>1, <1>2, <2>1, <2>2, <2>3 DEF ResetsOf
<1>5. ResetsOf(a, e, t + 1, i) = ResetsOf(l, e, t, i)
  BY <1>4
<1> QED
  BY <1>2, <1>5 DEF Stamp, a

(* After a reset the components it covers are of it, the others as before. *)
LEMMA ResetStamps ==
  ASSUME NEW S, NEW l \in Seq(S), NEW c \in S, c.op = "reset", NEW e, NEW i, NEW t
  PROVE  /\ (e \in c.idxs /\ i < c.size) => Stamp(Append(l, c), e, t, i) = Len(l) + 1
         /\ ~(e \in c.idxs /\ i < c.size) => Stamp(Append(l, c), e, t, i) = Stamp(l, e, t, i)
<1> DEFINE a == Append(l, c)
           N == Len(l) + 1
<1>1. a \in Seq(S) /\ Len(a) = N /\ Len(l) \in Nat /\ N \in Nat /\ a[N] = c
      /\ \A n \in 1..Len(l) : a[n] = l[n]
  BY AppendProperties
<1>2. OriginOf(a, t) = OriginOf(l, t)
  BY ResetOrigins
<1>3. OriginOf(l, t) \in 0..Len(l)
  BY OriginIs
<1> HIDE DEF a
<1>4. ASSUME e \in c.idxs, i < c.size PROVE Stamp(a, e, t, i) = N
  <2> DEFINE T == ResetsOf(a, e, t, i) \cup {OriginOf(a, t)}
  <2>1. T \subseteq Int /\ N \in T /\ \A n \in T : n <= N
    BY <1>1, <1>2, <1>3, <1>4 DEF ResetsOf
  <2> HIDE DEF T
  <2>2. Max(T) = N
    BY <2>1, MaxIs
  <2> QED
    BY <2>2 DEF Stamp, T
<1>5. ASSUME ~(e \in c.idxs /\ i < c.size) PROVE ResetsOf(a, e, t, i) = ResetsOf(l, e, t, i)
  BY <1>1, <1>2, <1>3, <1>5 DEF ResetsOf
<1> QED
  BY <1>2, <1>4, <1>5 DEF Stamp, a

(* In place, from the last step to the first, each step gets the one       *)
(* before it: those moved already are not read again.                      *)
Shifts(g, s, o, D) ==
  g = [t \in SUBSET D |-> IF t = {} THEN s
         ELSE [g[t \ {Max(t)}] EXCEPT ![o[Max(t)]] = g[t \ {Max(t)}][o[Max(t)] - 1]]]

(* The moves are folded over the order they are made in. *)
LEMMA ShiftedShifts ==
  ASSUME NEW s, NEW o
  PROVE  Buffer!Shift(s, o) = (CHOOSE g : Shifts(g, s, o, DOMAIN o))[DOMAIN o]
BY DEF Buffer!Shift, Buffer!FoldLeft, Buffer!MapThenFoldSet, Shifts, Buffer!Max, Max

(* All of them together move every step but the last back by one. *)
LEMMA ShiftedIs ==
  ASSUME BufferLength \in Nat \ {0}, NEW X, NEW s \in [Buffer!Steps -> X]
  PROVE  /\ Buffer!Shifted(s) \in [Buffer!Steps -> X]
         /\ \A t \in 1..(BufferLength - 1) : Buffer!Shifted(s)[t] = s[t - 1]
<1> DEFINE H == BufferLength
           n == H - 1
           o == [k \in 1..n |-> H - k]
           g == CHOOSE f : Shifts(f, s, o, 1..n)
<1>1. H \in Nat /\ n \in Nat /\ Buffer!Steps = 0..n /\ DOMAIN o = 1..n
      /\ \A k \in 1..n : o[k] = H - k
  BY DEF Buffer!Steps
<1>2. Buffer!Shifted(s) = Buffer!Shift(s, o)
  BY DEF Buffer!Shifted
<1> HIDE DEF o
<1>3. \A f : Shifts(f, s, o, 1..n) <=> Folds(f, "shift", s, o, 1..n)
  BY DEF Shifts, Folds, Combine
<1>4. \E f : Shifts(f, s, o, 1..n)
  BY <1>1, <1>3, FoldExists
<1>5. Shifts(g, s, o, 1..n)
  BY <1>4, Zenon
<1> HIDE DEF g
<1>6. /\ g[1..0] = s
      /\ \A k \in Nat : k + 1 <= n =>
           g[1..(k + 1)] = [g[1..k] EXCEPT ![H - (k + 1)] = g[1..k][(H - (k + 1)) - 1]]
  <2>1. Folds(g, "shift", s, o, 1..n)
    BY <1>3, <1>5
  <2>2. \A v, x : Combine("shift", v, x) = [v EXCEPT ![x] = v[x - 1]]
    BY DEF Combine
  <2>3. \A k \in Nat : k + 1 <= n => o[k + 1] = H - (k + 1)
    BY <1>1
  <2> HIDE DEF H, n
  <2>4. /\ g[1..0] = s
        /\ \A k \in Nat : k + 1 <= n => g[1..(k + 1)] = Combine("shift", g[1..k], o[k + 1])
    BY <1>1, <2>1, FoldSteps
  <2>5. ASSUME NEW k \in Nat, k + 1 <= n
        PROVE  g[1..(k + 1)] = [g[1..k] EXCEPT ![H - (k + 1)] = g[1..k][(H - (k + 1)) - 1]]
    <3>1. g[1..(k + 1)] = Combine("shift", g[1..k], o[k + 1]) /\ o[k + 1] = H - (k + 1)
      BY <2>3, <2>4, <2>5
    <3> QED
      BY <2>2, <3>1
  <2> QED
    BY <2>4, <2>5
<1> DEFINE P(k) == k <= n =>
             /\ g[1..k] \in [Buffer!Steps -> X]
             /\ \A t \in 0..n : g[1..k][t] = IF t >= H - k THEN s[t - 1] ELSE s[t]
           S == {k \in Nat : P(k)}
<1>7. P(0)
  BY <1>1, <1>6
<1>8. ASSUME NEW k \in Nat, P(k) PROVE P(k + 1)
  <2> SUFFICES ASSUME k + 1 <= n PROVE P(k + 1)
    OBVIOUS
  <2> DEFINE m == H - (k + 1)
             v == g[1..k]
  <2>1. m \in 1..n /\ m - 1 \in 0..n /\ ~(m - 1 >= H - k) /\ k <= n
    BY <1>1, <1>8
  <2>2. v \in [Buffer!Steps -> X] /\ \A t \in 0..n : v[t] = IF t >= H - k THEN s[t - 1] ELSE s[t]
    BY <1>8, <2>1
  <2>3. g[1..(k + 1)] = [v EXCEPT ![m] = v[m - 1]]
    BY <1>6, <1>8
  <2> HIDE DEF v
  <2>4. v[m - 1] = s[m - 1] /\ v[m - 1] \in X
    BY <1>1, <2>1, <2>2
  <2>5. g[1..(k + 1)] \in [Buffer!Steps -> X]
    BY <1>1, <2>1, <2>2, <2>3, <2>4
  <2>6. ASSUME NEW t \in 0..n
        PROVE  g[1..(k + 1)][t] = IF t >= H - (k + 1) THEN s[t - 1] ELSE s[t]
    <3>1. CASE t = m
      BY <1>1, <2>1, <2>2, <2>3, <2>4, <3>1
    <3>2. CASE t # m
      <4>1. g[1..(k + 1)][t] = v[t]
        BY <1>1, <2>1, <2>2, <2>3, <3>2
      <4>2. t >= H - (k + 1) <=> t >= H - k
        BY <1>1, <3>2
      <4> QED
        BY <2>2, <4>1, <4>2
    <3> QED
      BY <3>1, <3>2
  <2> QED
    BY <2>5, <2>6
<1>9. P(n)
  <2> HIDE DEF P
  <2>1. S \subseteq Nat /\ 0 \in S /\ \A k \in S : k + 1 \in S
    BY <1>7, <1>8
  <2> HIDE DEF S
  <2>2. S = Nat
    BY <2>1, Induction
  <2> QED
    BY <1>1, <2>2 DEF S
<1>10. Buffer!Shift(s, o) = g[1..n]
  BY <1>1, ShiftedShifts DEF g
<1>11. \A t \in 1..n : t \in 0..n /\ t >= H - n
  BY <1>1
<1> QED
  <2>1. Buffer!Shifted(s) = g[1..n]
    BY <1>2, <1>10
  <2>2. n <= n
    BY <1>1
  <2>3. /\ g[1..n] \in [Buffer!Steps -> X]
        /\ \A t \in 0..n : g[1..n][t] = IF t >= H - n THEN s[t - 1] ELSE s[t]
    BY <1>9, <2>2
  <2>4. \A t \in 1..n : g[1..n][t] = s[t - 1]
    BY <1>11, <2>3
  <2> QED
    BY <2>1, <2>3, <2>4

Marks == Nat \X Int \* the components of observations

BufInv ==
  /\ log \in Seq(Buffer!Calls)
  /\ buf \in [Buffer!Envs -> [Buffer!Steps -> [Buffer!Components -> Marks]]]
  /\ \A e \in Buffer!Envs, t \in Buffer!Steps, i \in Buffer!Components :
       buf[e][t][i] = <<Stamp(log, e, t, i), i>>

(* Environments, steps and components are numbered, and at least one each. *)
LEMMA BufferFacts ==
  /\ BufferEnvs \in Nat \ {0} /\ BufferLength \in Nat \ {0}
  /\ BufferDims \in Seq(Nat \ {0}) /\ BufferDims # <<>>
  /\ Buffer!Envs = 0..(BufferEnvs - 1) /\ Buffer!Steps = 0..(BufferLength - 1)
  /\ Buffer!Components \subseteq Int
  /\ \A n \in Nat : /\ Buffer!Observation(n) \in [Buffer!Components -> Marks]
                    /\ \A i \in Buffer!Components : Buffer!Observation(n)[i] = <<n, i>>
<1>1. Buffer!Components \subseteq Int
  BY DEF Buffer!Components
<1> QED
  BY <1>1, PartsAssumption DEF Buffer!BufferAssumption, Buffer!Envs, Buffer!Steps,
    Buffer!Observation, Marks

(* At first all of them are the zeros of the constructor. *)
LEMMA BufInvInit == AllInit => BufInv
<1> SUFFICES ASSUME AllInit PROVE BufInv
  OBVIOUS
<1>1. log = <<>> /\ buf = [e \in Buffer!Envs |-> [t \in Buffer!Steps |-> Buffer!Observation(0)]]
  BY DEF AllInit, Buffer!Init
<1>2. ASSUME NEW e, NEW t, NEW i PROVE Stamp(log, e, t, i) = 0
  <2>1. log \in Seq(Nat) /\ Len(log) = 0
    BY <1>1
  <2>2. OriginOf(log, t) = 0
    <3>1. OriginOf(log, t) \in 0..Len(log)
      BY <2>1, OriginIs
    <3> QED
      BY <2>1, <3>1
  <2>3. ResetsOf(log, e, t, i) \cup {OriginOf(log, t)} = {0}
    BY <2>1, <2>2 DEF ResetsOf
  <2> DEFINE T == {0}
  <2>4. T \subseteq Int /\ 0 \in T /\ \A n \in T : n <= 0
    OBVIOUS
  <2> HIDE DEF T
  <2>5. Max(T) = 0
    BY <2>4, MaxIs
  <2> QED
    BY <2>3, <2>5 DEF Stamp, T
<1>3. \A e \in Buffer!Envs, t \in Buffer!Steps, i \in Buffer!Components : buf[e][t][i] = <<0, i>>
  BY <1>1, BufferFacts
<1>4. buf \in [Buffer!Envs -> [Buffer!Steps -> [Buffer!Components -> Marks]]]
  BY <1>1, BufferFacts
<1> QED
  BY <1>1, <1>2, <1>3, <1>4 DEF BufInv

(* An insert keeps the history in its order, *)
LEMMA InsertInOrder == ASSUME BufInv, Buffer!Insert PROVE BufInv'
<1> DEFINE c == [op |-> "insert", idxs |-> Buffer!Envs, size |-> Buffer!Total]
           N == Len(log) + 1
           X == [Buffer!Components -> Marks]
<1>1. /\ buf' = [e \in Buffer!Envs |-> [Buffer!Shifted(buf[e]) EXCEPT ![0] = Buffer!Observation(N)]]
      /\ log' = Append(log, c)
  BY DEF Buffer!Insert
<1>2. log \in Seq(Buffer!Calls) /\ c \in Buffer!Calls /\ c.op = "insert" /\ N \in Nat
  BY DEF BufInv, Buffer!Calls
<1>3. log' \in Seq(Buffer!Calls)
  BY <1>1, <1>2
<1> HIDE DEF c, N
<1>4. ASSUME NEW e \in Buffer!Envs
      PROVE  /\ buf[e] \in [Buffer!Steps -> X]
             /\ Buffer!Shifted(buf[e]) \in [Buffer!Steps -> X]
             /\ \A t \in 1..(BufferLength - 1) : Buffer!Shifted(buf[e])[t] = buf[e][t - 1]
  <2>1. buf[e] \in [Buffer!Steps -> X]
    BY DEF BufInv
  <2> HIDE DEF X
  <2> QED
    BY <2>1, BufferFacts, ShiftedIs
<1>5. ASSUME NEW e \in Buffer!Envs
      PROVE  /\ buf'[e] \in [Buffer!Steps -> X]
             /\ buf'[e][0] = Buffer!Observation(N)
             /\ \A t \in 1..(BufferLength - 1) : buf'[e][t] = buf[e][t - 1]
  <2>1. 0 \in Buffer!Steps /\ \A t \in 1..(BufferLength - 1) : t \in Buffer!Steps /\ t # 0
    BY BufferFacts
  <2>2. Buffer!Observation(N) \in X
    BY <1>2, BufferFacts
  <2> HIDE DEF X
  <2> QED
    BY <1>1, <1>4, <2>1, <2>2
<1>6. ASSUME NEW e \in Buffer!Envs, NEW t \in Buffer!Steps, NEW i \in Buffer!Components
      PROVE  buf'[e][t][i] = <<Stamp(log', e, t, i), i>>
  <2>1. CASE t = 0
    <3>1. Stamp(log', e, 0, i) = N
      BY <1>1, <1>2, InsertStamps DEF N
    <3>2. buf'[e][0][i] = <<N, i>>
      BY <1>2, <1>5, BufferFacts
    <3> QED
      BY <2>1, <3>1, <3>2
  <2>2. CASE t # 0
    <3>1. t \in 1..(BufferLength - 1) /\ t - 1 \in Buffer!Steps /\ t - 1 \in Nat /\ t = (t - 1) + 1
      BY <2>2, BufferFacts
    <3>2. Stamp(Append(log, c), e, (t - 1) + 1, i) = Stamp(log, e, t - 1, i)
      BY <1>2, <3>1, LaterStamps
    <3>3. Stamp(log', e, t, i) = Stamp(log, e, t - 1, i)
      BY <1>1, <3>1, <3>2
    <3>4. buf[e][t - 1][i] = <<Stamp(log, e, t - 1, i), i>>
      BY <3>1 DEF BufInv
    <3> QED
      BY <1>5, <3>1, <3>3, <3>4
  <2> QED
    BY <2>1, <2>2
<1>7. buf' \in [Buffer!Envs -> [Buffer!Steps -> X]]
  <2> HIDE DEF X
  <2>1. \A e \in Buffer!Envs : buf'[e] \in [Buffer!Steps -> X]
    BY <1>5
  <2> QED
    BY <1>1, <2>1
<1> QED
  BY <1>3, <1>6, <1>7 DEF BufInv

(* and so does a reset. *)
LEMMA ResetInOrder ==
  ASSUME BufInv, NEW idxs \in SUBSET (Buffer!Envs \cup {BufferEnvs}), NEW size \in {1, Buffer!Total},
         Buffer!Reset(idxs, size)
  PROVE  BufInv'
<1> DEFINE c == [op |-> "reset", idxs |-> idxs, size |-> size]
           N == Len(log) + 1
           X == [Buffer!Components -> Marks]
<1>1. /\ buf' = [e \in Buffer!Envs |-> IF e \in idxs
                   THEN [t \in Buffer!Steps |-> Buffer!Overwrite(buf[e][t], Buffer!Observation(N), size)]
                   ELSE buf[e]]
      /\ log' = Append(log, c)
  BY DEF Buffer!Reset
<1>2. /\ log \in Seq(Buffer!Calls) /\ c \in Buffer!Calls /\ c.op = "reset" /\ N \in Nat
      /\ c.idxs = idxs /\ c.size = size
  BY DEF BufInv, Buffer!Calls
<1>3. log' \in Seq(Buffer!Calls)
  BY <1>1, <1>2
<1> HIDE DEF c, N
<1>4. ASSUME NEW e \in Buffer!Envs, NEW t \in Buffer!Steps
      PROVE  /\ buf[e][t] \in X
             /\ Buffer!Overwrite(buf[e][t], Buffer!Observation(N), size) \in X
  <2>1. buf[e][t] \in X /\ Buffer!Observation(N) \in X
    BY <1>2, BufferFacts DEF BufInv
  <2> QED
    BY <2>1 DEF Buffer!Overwrite
<1>5. ASSUME NEW e \in Buffer!Envs PROVE buf'[e] \in [Buffer!Steps -> X]
  <2>1. buf[e] \in [Buffer!Steps -> X]
    BY DEF BufInv
  <2> HIDE DEF X
  <2> QED
    BY <1>1, <1>4, <2>1
<1>6. ASSUME NEW e \in Buffer!Envs, NEW t \in Buffer!Steps, NEW i \in Buffer!Components
      PROVE  buf'[e][t][i] = <<Stamp(log', e, t, i), i>>
  <2>1. /\ (e \in idxs /\ i < size) => Stamp(log', e, t, i) = N
        /\ ~(e \in idxs /\ i < size) => Stamp(log', e, t, i) = Stamp(log, e, t, i)
    BY <1>1, <1>2, ResetStamps DEF N
  <2>2. buf[e][t][i] = <<Stamp(log, e, t, i), i>>
    BY DEF BufInv
  <2>3. Buffer!Observation(N)[i] = <<N, i>>
    BY <1>2, BufferFacts
  <2>4. buf'[e][t][i] = IF e \in idxs /\ i < size THEN Buffer!Observation(N)[i] ELSE buf[e][t][i]
    BY <1>1 DEF Buffer!Overwrite
  <2> QED
    BY <2>1, <2>2, <2>3, <2>4
<1>7. buf' \in [Buffer!Envs -> [Buffer!Steps -> X]]
  <2> HIDE DEF X
  <2>1. \A e \in Buffer!Envs : buf'[e] \in [Buffer!Steps -> X]
    BY <1>5
  <2> QED
    BY <1>1, <2>1
<1> QED
  BY <1>3, <1>6, <1>7 DEF BufInv

(* No call of the buffer breaks it. *)
LEMMA BufferStep == ASSUME BufInv, Buffer!Next PROVE BufInv'
<1>1. CASE Buffer!Insert
  BY <1>1, InsertInOrder
<1>2. ASSUME NEW idxs \in SUBSET (Buffer!Envs \cup {BufferEnvs}), NEW size \in {1, Buffer!Total},
             Buffer!Reset(idxs, size)
      PROVE  BufInv'
  BY <1>2, ResetInOrder
<1> QED
  BY <1>1, <1>2 DEF Buffer!Next

(* Nothing else touches the buffer. *)
LEMMA BufferKept == ASSUME BufInv, UNCHANGED bufferVars PROVE BufInv'
<1>1. buf' = buf /\ log' = log
  BY DEF bufferVars
<1> QED
  BY <1>1 DEF BufInv

-----------------------------------------------------------------------------
(***************************************************************************)
(* What get_obs_vec gives: where the parts of an output are.               *)
(***************************************************************************)

(* Numbers that never decrease from one index to the next. *)
LEMMA Climbs ==
  ASSUME NEW n \in Nat, NEW off \in [0..n -> Nat],
         \A k \in Nat : k + 1 <= n => off[k] <= off[k + 1]
  PROVE  \A k \in Nat, m \in Nat : k <= m /\ m <= n => off[k] <= off[m]
<1> SUFFICES ASSUME NEW k \in Nat PROVE \A m \in Nat : k <= m /\ m <= n => off[k] <= off[m]
  OBVIOUS
<1> DEFINE P(m) == k <= m /\ m <= n => off[k] <= off[m]
           S == {m \in Nat : P(m)}
<1>1. \A m \in Nat : m <= n => off[m] \in Nat
  OBVIOUS
<1>2. P(0)
  <2> SUFFICES ASSUME k <= 0 PROVE off[k] <= off[0]
    OBVIOUS
  <2>1. k = 0 /\ off[0] \in Nat
    OBVIOUS
  <2> QED
    BY <2>1
<1>3. ASSUME NEW m \in Nat, P(m) PROVE P(m + 1)
  <2> SUFFICES ASSUME k <= m + 1, m + 1 <= n PROVE off[k] <= off[m + 1]
    OBVIOUS
  <2>1. off[m] \in Nat /\ off[m + 1] \in Nat /\ off[k] \in Nat
    BY <1>1
  <2>2. CASE k <= m
    BY <1>3, <2>1, <2>2
  <2>3. CASE k = m + 1
    BY <2>1, <2>3
  <2> QED
    BY <2>2, <2>3
<1>4. S = Nat
  <2> HIDE DEF P
  <2>1. S \subseteq Nat /\ 0 \in S /\ \A m \in S : m + 1 \in S
    BY <1>2, <1>3
  <2> HIDE DEF S
  <2> QED
    BY <2>1, Induction
<1> QED
  BY <1>4

(* Where the elements of a sequence are behind those of another. *)
LEMMA JoinedAt ==
  ASSUME NEW X, NEW a \in Seq(X), NEW b \in Seq(X)
  PROVE  /\ a \o b \in Seq(X) /\ Len(a \o b) = Len(a) + Len(b)
         /\ \A i \in 1..Len(a) : (a \o b)[i] = a[i]
         /\ \A j \in 1..Len(b) : (a \o b)[Len(a) + j] = b[j]
<1>1. a \o b \in Seq(X) /\ Len(a \o b) = Len(a) + Len(b)
  BY ConcatProperties
<1>2. \A i \in 1..(Len(a) + Len(b)) : (a \o b)[i] = IF i <= Len(a) THEN a[i] ELSE b[i - Len(a)]
  BY ConcatProperties
<1>3. Len(a) \in Nat /\ Len(b) \in Nat
  OBVIOUS
<1>4. \A i \in 1..Len(a) : (a \o b)[i] = a[i]
  BY <1>2, <1>3
<1>5. ASSUME NEW j \in 1..Len(b) PROVE (a \o b)[Len(a) + j] = b[j]
  <2>1. Len(a) + j \in 1..(Len(a) + Len(b)) /\ ~(Len(a) + j <= Len(a)) /\ (Len(a) + j) - Len(a) = j
    BY <1>3
  <2> QED
    BY <1>2, <2>1
<1> QED
  BY <1>1, <1>4, <1>5

(* Where the elements of sequences joined together are.                    *)
LEMMA FlattenAt ==
  ASSUME NEW X, NEW seqs \in Seq(Seq(X)), NEW off \in [0..Len(seqs) -> Nat], off[0] = 0,
         \A k \in Nat : k + 1 <= Len(seqs) => off[k + 1] = off[k] + Len(seqs[k + 1])
  PROVE  /\ FlattenSeq(seqs) \in Seq(X) /\ Len(FlattenSeq(seqs)) = off[Len(seqs)]
         /\ \A k \in Nat : k + 1 <= Len(seqs) =>
              \A j \in 1..Len(seqs[k + 1]) : FlattenSeq(seqs)[off[k] + j] = seqs[k + 1][j]
<1> DEFINE n == Len(seqs)
<1>1. n \in Nat /\ \A k \in 1..n : seqs[k] \in Seq(X)
  OBVIOUS
<1>2. off \in [0..n -> Nat] /\ \A k \in Nat : k + 1 <= n => off[k + 1] = off[k] + Len(seqs[k + 1])
  OBVIOUS
<1>3. CASE n = 0
  <2>1. FlattenSeq(seqs) = seqs /\ seqs = <<>>
    BY <1>3 DEF FlattenSeq
  <2>2. seqs \in Seq(X) /\ Len(seqs) = off[n] /\ \A k \in Nat : ~(k + 1 <= n)
    BY <1>3, <2>1
  <2> QED
    BY <2>1, <2>2
<1>4. CASE n # 0
  <2>1. PICK f : Joins(seqs, f, n) /\ FlattenSeq(seqs) = f[n]
    BY <1>1, <1>4, FlattenJoins
  <2> HIDE DEF n
  <2>2. ASSUME NEW k \in Nat, k + 1 <= n
        PROVE  /\ k + 1 \in 1..n /\ seqs[k + 1] \in Seq(X) /\ Len(seqs[k + 1]) \in Nat
               /\ off[k] \in Nat /\ off[k + 1] \in Nat /\ off[k + 1] = off[k] + Len(seqs[k + 1])
    <3>1. k + 1 \in 1..n /\ k \in 0..n /\ k + 1 \in 0..n
      BY <1>1, <2>2
    <3>2. seqs[k + 1] \in Seq(X)
      BY <1>1, <3>1
    <3>3. Len(seqs[k + 1]) \in Nat
      BY <3>2
    <3>4. off[k] \in Nat /\ off[k + 1] \in Nat
      BY <1>2, <3>1
    <3> QED
      BY <1>2, <2>2, <3>1, <3>2, <3>3, <3>4
  <2>3. \A k \in Nat, m \in Nat : k <= m /\ m <= n => off[k] <= off[m]
    <3>1. \A k \in Nat : k + 1 <= n => off[k] <= off[k + 1]
      BY <2>2
    <3> QED
      BY <1>1, <1>2, <3>1, Climbs
  <2> DEFINE At(m) == \A k \in Nat : k + 1 <= m =>
                        \A j \in 1..Len(seqs[k + 1]) : f[m][off[k] + j] = seqs[k + 1][j]
             P(m) == (m # 0 /\ m <= n) => (f[m] \in Seq(X) /\ Len(f[m]) = off[m] /\ At(m))
             S == {m \in Nat : P(m)}
  <2>4. P(0)
    OBVIOUS
  <2>5. ASSUME NEW m \in Nat, P(m) PROVE P(m + 1)
    <3> SUFFICES ASSUME m + 1 <= n PROVE f[m + 1] \in Seq(X) /\ Len(f[m + 1]) = off[m + 1] /\ At(m + 1)
      OBVIOUS
    <3> HIDE DEF At
    <3>4. m # 0 => f[m] \in Seq(X) /\ Len(f[m]) = off[m] /\ At(m)
      <4>1. m <= n
        BY <1>1
      <4> QED
        BY <2>5, <4>1
    <3> HIDE DEF P, S
    <3>5. /\ m = 0 => f[m + 1] = seqs[m + 1]
          /\ m # 0 => f[m + 1] = f[m] \o seqs[m + 1]
      <4>1. Joins(seqs, f, n) /\ n \in Nat /\ m \in Nat /\ m + 1 \in 1..n
        BY <1>1, <2>1
      <4> QED
        BY <4>1, JoinsAt
    <3>1. m + 1 \in 1..n /\ seqs[m + 1] \in Seq(X) /\ Len(seqs[m + 1]) \in Nat
          /\ off[m] \in Nat /\ off[m + 1] \in Nat /\ off[m + 1] = off[m] + Len(seqs[m + 1])
      BY <2>2
    <3>2. CASE m = 0
      <4>1. f[m + 1] = seqs[m + 1]
        BY <3>2, <3>5
      <4>2. Len(f[m + 1]) = off[m + 1]
        BY <3>1, <3>2, <4>1
      <4>3. At(m + 1)
        <5> SUFFICES ASSUME NEW k \in Nat, k + 1 <= m + 1, NEW j \in 1..Len(seqs[k + 1])
                     PROVE  f[m + 1][off[k] + j] = seqs[k + 1][j]
          BY DEF At
        <5>1. k = 0 /\ j \in Int /\ k + 1 = m + 1
          BY <3>1, <3>2
        <5>2. off[k] + j = j
          BY <5>1
        <5> QED
          BY <4>1, <5>1, <5>2
      <4> QED
        BY <3>1, <4>1, <4>2, <4>3
    <3>3. CASE m # 0
      <4>1. f[m] \in Seq(X) /\ Len(f[m]) = off[m] /\ At(m)
        BY <3>3, <3>4
      <4>2. f[m + 1] = f[m] \o seqs[m + 1]
        BY <3>3, <3>5
      <4>3. /\ f[m + 1] \in Seq(X) /\ Len(f[m + 1]) = Len(f[m]) + Len(seqs[m + 1])
            /\ \A i \in 1..Len(f[m]) : f[m + 1][i] = f[m][i]
            /\ \A j \in 1..Len(seqs[m + 1]) : f[m + 1][Len(f[m]) + j] = seqs[m + 1][j]
        <5> DEFINE a == f[m]
                   b == seqs[m + 1]
        <5>1. a \in Seq(X) /\ b \in Seq(X) /\ f[m + 1] = a \o b
          BY <3>1, <4>1, <4>2
        <5> HIDE DEF a, b
        <5>2. /\ a \o b \in Seq(X) /\ Len(a \o b) = Len(a) + Len(b)
              /\ \A i \in 1..Len(a) : (a \o b)[i] = a[i]
              /\ \A j \in 1..Len(b) : (a \o b)[Len(a) + j] = b[j]
          BY <5>1, JoinedAt
        <5>3. /\ f[m + 1] \in Seq(X) /\ Len(f[m + 1]) = Len(a) + Len(b)
              /\ \A i \in 1..Len(a) : f[m + 1][i] = a[i]
              /\ \A j \in 1..Len(b) : f[m + 1][Len(a) + j] = b[j]
          BY <5>1, <5>2
        <5> QED
          BY <5>3 DEF a, b
      <4>4. At(m + 1)
        <5> SUFFICES ASSUME NEW k \in Nat, k + 1 <= m + 1, NEW j \in 1..Len(seqs[k + 1])
                     PROVE  f[m + 1][off[k] + j] = seqs[k + 1][j]
          BY DEF At
        <5>1. CASE k = m
          BY <4>1, <4>3, <5>1
        <5>2. CASE k # m
          <6>1. k + 1 <= m /\ k + 1 <= n /\ k + 1 \in Nat /\ m <= n
            BY <1>1, <5>2
          <6>2. f[m][off[k] + j] = seqs[k + 1][j]
            BY <4>1, <6>1 DEF At
          <6>3. off[k + 1] <= off[m]
            BY <2>3, <6>1
          <6>4. off[k] \in Nat /\ Len(seqs[k + 1]) \in Nat /\ off[k + 1] = off[k] + Len(seqs[k + 1])
            BY <2>2, <6>1
          <6>5. off[k] + j \in 1..Len(f[m])
            <7>1. \A o \in Nat, l \in Nat, u \in Nat : \A i \in 1..l : o + l <= u => o + i \in 1..u
              OBVIOUS
            <7>2. Len(f[m]) = off[m] /\ off[m] \in Nat /\ off[k] + Len(seqs[k + 1]) <= off[m]
              BY <3>1, <4>1, <6>3, <6>4
            <7> HIDE DEF At
            <7> QED
              BY <6>4, <7>1, <7>2
          <6> QED
            BY <4>3, <6>2, <6>5
        <5> QED
          BY <5>1, <5>2
      <4> QED
        BY <3>1, <4>1, <4>3, <4>4
    <3> QED
      BY <3>2, <3>3
  <2>6. P(n)
    <3> HIDE DEF P
    <3>1. S \subseteq Nat /\ 0 \in S /\ \A k \in S : k + 1 \in S
      BY <2>4, <2>5
    <3> HIDE DEF S
    <3>2. S = Nat
      BY <3>1, Induction
    <3> QED
      BY <1>1, <3>2 DEF S
  <2>7. f[n] \in Seq(X) /\ Len(f[n]) = off[n] /\ At(n)
    <3> HIDE DEF At
    <3> QED
      BY <1>1, <1>4, <2>6
  <2> QED
    BY <2>1, <2>7 DEF n
<1> QED
  BY <1>3, <1>4

Adds(g, s, D) ==
  g = [t \in SUBSET D |-> IF t = {} THEN 0 ELSE g[t \ {Max(t)}] + s[Max(t)]]

(* The sum of the first k. *)
Partial(s, k) == (CHOOSE g : Adds(g, s, 1..Len(s)))[1..k]

(* SumOf folds the sizes from the left, *)
LEMMA SumAdds ==
  ASSUME NEW s
  PROVE  Buffer!SumOf(s) = (CHOOSE g : Adds(g, s, DOMAIN s))[DOMAIN s]
BY DEF Buffer!SumOf, Buffer!FoldLeft, Buffer!MapThenFoldSet, Adds, Buffer!Max, Max

(* which adds them up one by one; *)
LEMMA PartialSums ==
  ASSUME NEW s \in Seq(Nat)
  PROVE  /\ Partial(s, 0) = 0 /\ Buffer!SumOf(s) = Partial(s, Len(s))
         /\ \A k \in Nat : k + 1 <= Len(s) => Partial(s, k + 1) = Partial(s, k) + s[k + 1]
         /\ \A k \in Nat : k <= Len(s) => Partial(s, k) \in Nat
<1> DEFINE n == Len(s)
           g == CHOOSE f : Adds(f, s, 1..n)
<1>1. n \in Nat /\ DOMAIN s = 1..n /\ \A i \in 1..n : s[i] \in Nat
  OBVIOUS
<1>2. \A k : Partial(s, k) = g[1..k]
  BY DEF Partial
<1>3. Buffer!SumOf(s) = g[1..n]
  BY <1>1, SumAdds
<1> HIDE DEF n
<1>4. \A f : Adds(f, s, 1..n) <=> Folds(f, "sum", 0, s, 1..n)
  BY DEF Adds, Folds, Combine
<1>5. \E f : Adds(f, s, 1..n)
  BY <1>1, <1>4, FoldExists
<1>6. Adds(g, s, 1..n)
  BY <1>5, Zenon
<1> HIDE DEF g
<1>7. /\ g[1..0] = 0
      /\ \A k \in Nat : k + 1 <= n => g[1..(k + 1)] = g[1..k] + s[k + 1]
  <2>1. Folds(g, "sum", 0, s, 1..n)
    BY <1>4, <1>6
  <2>2. \A v, x : Combine("sum", v, x) = v + x
    BY DEF Combine
  <2> QED
    BY <1>1, <2>1, <2>2, FoldSteps
<1> DEFINE S == {k \in Nat : k <= n => g[1..k] \in Nat}
<1>8. 0 \in S
  BY <1>7
<1>9. ASSUME NEW k \in S PROVE k + 1 \in S
  <2> SUFFICES ASSUME k + 1 <= n PROVE g[1..(k + 1)] \in Nat
    OBVIOUS
  <2>1. k \in Nat /\ g[1..k] \in Nat /\ s[k + 1] \in Nat
    BY <1>1
  <2> QED
    BY <1>7, <2>1
<1>10. S = Nat
  <2> HIDE DEF S
  <2>1. S \subseteq Nat
    BY DEF S
  <2> QED
    BY <1>8, <1>9, <2>1, Induction
<1>11. \A k \in Nat : k <= n => g[1..k] \in Nat
  BY <1>10
<1> QED
  BY <1>2, <1>3, <1>7, <1>11 DEF n

(* the sum of a prefix is one of these. *)
LEMMA PrefixSums ==
  ASSUME NEW s \in Seq(Nat), NEW k \in Nat, k <= Len(s)
  PROVE  Buffer!SumOf(SubSeq(s, 1, k)) = Partial(s, k)
<1> DEFINE u == SubSeq(s, 1, k)
           S == {j \in Nat : j <= k => Partial(u, j) = Partial(s, j)}
<1>1. u \in Seq(Nat) /\ Len(u) = k /\ \A i \in 1..k : u[i] = s[i]
  <2>1. k \in Int /\ 1..k \subseteq 1..Len(s)
    OBVIOUS
  <2> QED
    BY <2>1, SubSeqProperties
<1> HIDE DEF u
<1>2. /\ Partial(s, 0) = 0
      /\ \A j \in Nat : j + 1 <= Len(s) => Partial(s, j + 1) = Partial(s, j) + s[j + 1]
  BY PartialSums
<1>3. /\ Partial(u, 0) = 0 /\ Buffer!SumOf(u) = Partial(u, k)
      /\ \A j \in Nat : j + 1 <= k => Partial(u, j + 1) = Partial(u, j) + u[j + 1]
  BY <1>1, PartialSums
<1>4. 0 \in S
  BY <1>2, <1>3
<1>5. ASSUME NEW j \in S PROVE j + 1 \in S
  <2> SUFFICES ASSUME j + 1 <= k PROVE Partial(u, j + 1) = Partial(s, j + 1)
    OBVIOUS
  <2>1. j \in Nat /\ Partial(u, j) = Partial(s, j) /\ u[j + 1] = s[j + 1] /\ j + 1 <= Len(s)
    BY <1>1
  <2> QED
    BY <1>2, <1>3, <2>1
<1>6. S = Nat
  <2> HIDE DEF S
  <2>1. S \subseteq Nat
    BY DEF S
  <2> QED
    BY <1>4, <1>5, <2>1, Induction
<1>7. Partial(u, k) = Partial(s, k)
  BY <1>6
<1> QED
  BY <1>3, <1>7 DEF u

(* One more id is one more step of the history, or not.                    *)
LEMMA KnownFacts ==
  ASSUME NEW ids \in Seq(Nat), NEW k \in Nat
  PROVE  /\ Buffer!KnownOf(ids, 0) = 0 /\ Buffer!KnownOf(ids, k) \in Nat
         /\ Buffer!KnownOf(ids, k + 1) = Buffer!KnownOf(ids, k) +
              (IF ids[k + 1] \in Buffer!Steps THEN 1 ELSE 0)
<1> DEFINE K(n) == {m \in 1..n : ids[m] \in Buffer!Steps}
<1>1. \A n : Buffer!KnownOf(ids, n) = Cardinality(K(n))
  BY Zenon DEF Buffer!KnownOf, Buffer!Cardinality, Cardinality
<1>2. K(0) = {}
  OBVIOUS
<1>3. IsFiniteSet(K(k))
  <2>1. IsFiniteSet(1..k) /\ K(k) \subseteq 1..k
    BY FS_Interval
  <2> QED
    BY <2>1, FS_Subset
<1>4. K(k + 1) = K(k) \cup (IF ids[k + 1] \in Buffer!Steps THEN {k + 1} ELSE {}) /\ k + 1 \notin K(k)
  OBVIOUS
<1>5. Cardinality(K(k)) \in Nat
  BY <1>3, FS_CardinalityType
<1>6. ids[k + 1] \in Buffer!Steps => Cardinality(K(k + 1)) = Cardinality(K(k)) + 1
  <2> HIDE DEF K
  <2> QED
    BY <1>3, <1>4, FS_AddElement
<1>7. ids[k + 1] \notin Buffer!Steps => K(k + 1) = K(k)
  BY <1>4
<1> HIDE DEF K
<1>8. Cardinality(K(0)) = 0
  BY <1>2, FS_EmptySet
<1> QED
  BY <1>1, <1>5, <1>6, <1>7, <1>8

(* A product with a successor. *)
LEMMA Product == ASSUME NEW a \in Nat, NEW b \in Nat PROVE a * b \in Nat /\ (a + 1) * b = a * b + b
OBVIOUS

(* Sequences of one length joined together. *)
LEMMA BlocksAt ==
  ASSUME NEW X, NEW seqs \in Seq(Seq(X)), NEW b \in Nat, \A k \in 1..Len(seqs) : Len(seqs[k]) = b
  PROVE  /\ FlattenSeq(seqs) \in Seq(X) /\ Len(FlattenSeq(seqs)) = Len(seqs) * b
         /\ \A k \in Nat : k + 1 <= Len(seqs) =>
              \A j \in 1..b : FlattenSeq(seqs)[k * b + j] = seqs[k + 1][j]
<1> DEFINE n == Len(seqs)
           off == [k \in 0..n |-> k * b]
<1>1. n \in Nat
  OBVIOUS
<1>2. off \in [0..n -> Nat] /\ off[0] = 0 /\ off[n] = n * b
  BY <1>1, Product
<1>3. ASSUME NEW k \in Nat, k + 1 <= n
      PROVE  off[k] = k * b /\ Len(seqs[k + 1]) = b /\ off[k + 1] = off[k] + Len(seqs[k + 1])
  <2>1. k \in 0..n /\ k + 1 \in 0..n /\ k + 1 \in 1..n
    BY <1>1, <1>3
  <2>2. off[k] = k * b /\ off[k + 1] = (k + 1) * b /\ Len(seqs[k + 1]) = b
    BY <2>1
  <2> HIDE DEF off
  <2> QED
    BY <2>2, Product
<1> HIDE DEF off
<1>4. /\ FlattenSeq(seqs) \in Seq(X) /\ Len(FlattenSeq(seqs)) = off[n]
      /\ \A k \in Nat : k + 1 <= n =>
           \A j \in 1..Len(seqs[k + 1]) : FlattenSeq(seqs)[off[k] + j] = seqs[k + 1][j]
  BY <1>2, <1>3, FlattenAt
<1>5. ASSUME NEW k \in Nat, k + 1 <= n, NEW j \in 1..b
      PROVE  FlattenSeq(seqs)[k * b + j] = seqs[k + 1][j]
  BY <1>3, <1>4, <1>5
<1> QED
  BY <1>2, <1>4, <1>5

(* What the buffer holds. *)
Held == {buf[e][t][c] : e \in Buffer!Envs, t \in Buffer!Steps, c \in Int}

(* The components from..from+n-1 of the steps asked for, of an environment. *)
Gathered(e, ids, from, n) ==
  FlattenSeq([k \in DOMAIN ids |-> Buffer!Part(e, ids[k], from, n)])

(* Where the parts of a step are: behind those of the known ids before it. *)
LEMMA GatheredAt ==
  ASSUME NEW ids \in Seq(Nat), NEW e \in Buffer!Envs, NEW from \in Nat, NEW n \in Nat
  PROVE  /\ Gathered(e, ids, from, n) \in Seq(Held)
         /\ Len(Gathered(e, ids, from, n)) = Buffer!KnownOf(ids, Len(ids)) * n
         /\ \A k \in Nat : k + 1 <= Len(ids) /\ ids[k + 1] \in Buffer!Steps =>
              \A j \in 1..n :
                Gathered(e, ids, from, n)[Buffer!KnownOf(ids, k) * n + j]
                  = buf[e][ids[k + 1]][from + j - 1]
<1> DEFINE m == Len(ids)
           parts == [k \in DOMAIN ids |-> Buffer!Part(e, ids[k], from, n)]
           off == [k \in 0..m |-> Buffer!KnownOf(ids, k) * n]
<1>1. m \in Nat /\ DOMAIN ids = 1..m
  OBVIOUS
<1>2. \A id : id \in Buffer!Steps =>
        /\ Buffer!Part(e, id, from, n) = [j \in 1..n |-> buf[e][id][from + j - 1]]
        /\ Buffer!Part(e, id, from, n) \in Seq(Held) /\ Len(Buffer!Part(e, id, from, n)) = n
  <2> SUFFICES ASSUME NEW id \in Buffer!Steps
               PROVE  /\ Buffer!Part(e, id, from, n) = [j \in 1..n |-> buf[e][id][from + j - 1]]
                      /\ Buffer!Part(e, id, from, n) \in Seq(Held) /\ Len(Buffer!Part(e, id, from, n)) = n
    OBVIOUS
  <2>1. Buffer!Part(e, id, from, n) = [j \in 1..n |-> buf[e][id][from + j - 1]]
    BY DEF Buffer!Part, Buffer!InHistory, Buffer!Slice
  <2>2. \A j \in 1..n : buf[e][id][from + j - 1] \in Held
    <3>1. \A j \in 1..n : from + j - 1 \in Int
      OBVIOUS
    <3> QED
      BY <3>1 DEF Held
  <2>3. [j \in 1..n |-> buf[e][id][from + j - 1]] \in Seq(Held)
    BY <2>2
  <2>4. Len([j \in 1..n |-> buf[e][id][from + j - 1]]) = n
    OBVIOUS
  <2> QED
    BY <2>1, <2>3, <2>4
<1>3. \A id : id \notin Buffer!Steps =>
        Buffer!Part(e, id, from, n) = <<>> /\ Buffer!Part(e, id, from, n) \in Seq(Held)
          /\ Len(Buffer!Part(e, id, from, n)) = 0
  BY DEF Buffer!Part, Buffer!InHistory
<1>4. parts \in Seq(Seq(Held)) /\ Len(parts) = m
  <2>1. \A k \in 1..m : Buffer!Part(e, ids[k], from, n) \in Seq(Held)
    BY <1>2, <1>3
  <2> QED
    BY <1>1, <2>1
<1>5. \A k \in 1..m : parts[k] = Buffer!Part(e, ids[k], from, n)
  BY <1>1
<1>6. \A k \in Nat : Buffer!KnownOf(ids, k) \in Nat /\ Buffer!KnownOf(ids, k) * n \in Nat
  BY KnownFacts, Product
<1>7. off \in [0..m -> Nat] /\ off[0] = 0 /\ off[m] = Buffer!KnownOf(ids, m) * n
  <2>1. Buffer!KnownOf(ids, 0) = 0 /\ 0 * n = 0
    BY KnownFacts
  <2> QED
    BY <1>1, <1>6, <2>1
<1>8. \A k \in 0..m : off[k] = Buffer!KnownOf(ids, k) * n
  OBVIOUS
<1> HIDE DEF off, parts
<1>9. ASSUME NEW k \in Nat, k + 1 <= m
      PROVE  off[k + 1] = off[k] + Len(parts[k + 1])
  <2>1. k \in 0..m /\ k + 1 \in 0..m /\ k + 1 \in 1..m
    BY <1>1, <1>9
  <2>2. Buffer!KnownOf(ids, k + 1) = Buffer!KnownOf(ids, k) +
          (IF ids[k + 1] \in Buffer!Steps THEN 1 ELSE 0)
    BY KnownFacts
  <2>3. off[k] = Buffer!KnownOf(ids, k) * n /\ off[k + 1] = Buffer!KnownOf(ids, k + 1) * n
        /\ Buffer!KnownOf(ids, k) \in Nat
    BY <1>6, <1>8, <2>1
  <2>4. CASE ids[k + 1] \in Buffer!Steps
    <3>1. Len(parts[k + 1]) = n
      BY <1>2, <1>5, <2>1, <2>4
    <3> QED
      BY <2>2, <2>3, <2>4, <3>1, Product
  <2>5. CASE ids[k + 1] \notin Buffer!Steps
    <3>1. Len(parts[k + 1]) = 0
      BY <1>3, <1>5, <2>1, <2>5
    <3>2. off[k] \in Nat /\ Buffer!KnownOf(ids, k) + 0 = Buffer!KnownOf(ids, k)
      BY <1>6, <2>3
    <3> QED
      BY <2>2, <2>3, <2>5, <3>1, <3>2
  <2> QED
    BY <2>4, <2>5
<1> DEFINE out == FlattenSeq(parts)
<1>10. /\ out \in Seq(Held) /\ Len(out) = off[m]
       /\ \A k \in Nat : k + 1 <= m =>
            \A j \in 1..Len(parts[k + 1]) : out[off[k] + j] = parts[k + 1][j]
  <2>1. parts \in Seq(Seq(Held)) /\ off \in [0..Len(parts) -> Nat] /\ off[0] = 0
    BY <1>4, <1>7
  <2>2. \A k \in Nat : k + 1 <= Len(parts) => off[k + 1] = off[k] + Len(parts[k + 1])
    BY <1>4, <1>9
  <2>3. /\ out \in Seq(Held) /\ Len(out) = off[Len(parts)]
        /\ \A k \in Nat : k + 1 <= Len(parts) =>
             \A j \in 1..Len(parts[k + 1]) : out[off[k] + j] = parts[k + 1][j]
    <3> HIDE DEF m
    <3> QED
      BY <2>1, <2>2, FlattenAt
  <2> HIDE DEF out, m
  <2> QED
    BY <1>4, <2>3
<1>11. Gathered(e, ids, from, n) = out
  BY DEF Gathered, parts
<1> HIDE DEF out
<1>12. ASSUME NEW k \in Nat, k + 1 <= m, ids[k + 1] \in Buffer!Steps, NEW j \in 1..n
       PROVE  out[Buffer!KnownOf(ids, k) * n + j] = buf[e][ids[k + 1]][from + j - 1]
  <2>1. k \in 0..m /\ k + 1 \in 1..m
    BY <1>1, <1>12
  <2>2. parts[k + 1] = [i \in 1..n |-> buf[e][ids[k + 1]][from + i - 1]] /\ Len(parts[k + 1]) = n
    BY <1>2, <1>5, <1>12, <2>1
  <2>3. off[k] = Buffer!KnownOf(ids, k) * n
    BY <1>8, <2>1
  <2>4. out[off[k] + j] = parts[k + 1][j]
    BY <1>10, <1>12, <2>2
  <2> QED
    BY <2>2, <2>3, <2>4
<1> QED
  BY <1>7, <1>10, <1>11, <1>12

(* The j-th element of the a-th of b blocks of size t is in one of them. *)
LEMMA Within ==
  ASSUME NEW a \in Nat, NEW b \in Nat, NEW t \in Nat, NEW j \in 1..t, a + 1 <= b
  PROVE  a * t + j \in 1..(b * t)
<1> DEFINE d == b - (a + 1)
<1>1. d \in Nat /\ b = (a + 1) + d /\ t \in Int /\ a \in Int
  OBVIOUS
<1> HIDE DEF d
<1>2. b * t = a * t + t + d * t
  <2>1. ((a + 1) + d) * t = a * t + t + d * t
    BY <1>1
  <2> QED
    BY <1>1, <2>1
<1>3. a * t \in Nat /\ d * t \in Nat /\ b * t \in Nat
  BY <1>1, Product
<1> QED
  BY <1>2, <1>3

(* More ids name no fewer steps. *)
LEMMA KnownGrows ==
  ASSUME NEW ids \in Seq(Nat), NEW k \in Nat, NEW n \in Nat, k <= n
  PROVE  Buffer!KnownOf(ids, k) <= Buffer!KnownOf(ids, n)
<1> DEFINE K(i) == {m \in 1..i : ids[m] \in Buffer!Steps}
<1>1. \A i : Buffer!KnownOf(ids, i) = Cardinality(K(i))
  BY Zenon DEF Buffer!KnownOf, Buffer!Cardinality, Cardinality
<1>2. IsFiniteSet(K(n))
  <2>1. IsFiniteSet(1..n) /\ K(n) \subseteq 1..n
    BY FS_Interval
  <2> QED
    BY <2>1, FS_Subset
<1>3. K(k) \subseteq K(n)
  OBVIOUS
<1> HIDE DEF K
<1>4. Cardinality(K(k)) <= Cardinality(K(n))
  BY <1>2, <1>3, FS_Subset
<1> QED
  BY <1>1, <1>4

(* The sizes of the terms of an observation, and of all of it.             *)
LEMMA DimsFacts ==
  /\ BufferDims \in Seq(Nat) /\ Len(BufferDims) \in Nat
  /\ Buffer!Total = Partial(BufferDims, Len(BufferDims)) /\ Buffer!Total \in Nat
  /\ \A i \in Nat : i + 1 <= Len(BufferDims) =>
       /\ BufferDims[i + 1] \in Nat /\ Partial(BufferDims, i) \in Nat
       /\ Buffer!SumOf(SubSeq(BufferDims, 1, i)) = Partial(BufferDims, i)
       /\ Buffer!Offset(i + 1) = Partial(BufferDims, i)
       /\ Partial(BufferDims, i + 1) = Partial(BufferDims, i) + BufferDims[i + 1]
       /\ Partial(BufferDims, i + 1) <= Buffer!Total
<1> DEFINE s == BufferDims
           n == Len(s)
           off == [k \in 0..n |-> Partial(s, k)]
<1>1. s \in Seq(Nat) /\ n \in Nat
  BY BufferFacts
<1>2. /\ Buffer!SumOf(s) = Partial(s, n)
      /\ \A k \in Nat : k + 1 <= n => Partial(s, k + 1) = Partial(s, k) + s[k + 1]
      /\ \A k \in Nat : k <= n => Partial(s, k) \in Nat
  BY <1>1, PartialSums
<1>3. Buffer!Total = Partial(s, n) /\ Buffer!Total \in Nat
  BY <1>1, <1>2 DEF Buffer!Total
<1>4. ASSUME NEW i \in Nat, i + 1 <= n
      PROVE  /\ s[i + 1] \in Nat /\ Partial(s, i) \in Nat
             /\ Buffer!SumOf(SubSeq(s, 1, i)) = Partial(s, i)
             /\ Buffer!Offset(i + 1) = Partial(s, i)
             /\ Partial(s, i + 1) = Partial(s, i) + s[i + 1]
  <2>1. s[i + 1] \in Nat
    BY <1>1, <1>4
  <2>2. i <= n
    BY <1>1, <1>4
  <2>3. Buffer!SumOf(SubSeq(s, 1, i)) = Partial(s, i)
    BY <1>1, <2>2, PrefixSums
  <2>4. (i + 1) - 1 = i
    OBVIOUS
  <2>5. Buffer!Offset(i + 1) = Partial(s, i)
    BY <2>3, <2>4 DEF Buffer!Offset
  <2> QED
    BY <1>2, <1>4, <2>1, <2>2, <2>3, <2>5
<1>5. off \in [0..n -> Nat] /\ \A k \in 0..n : off[k] = Partial(s, k)
  BY <1>1, <1>2
<1> HIDE DEF off
<1>6. \A k \in Nat : k + 1 <= n => off[k] <= off[k + 1]
  <2> SUFFICES ASSUME NEW k \in Nat, k + 1 <= n PROVE off[k] <= off[k + 1]
    OBVIOUS
  <2>1. k \in 0..n /\ k + 1 \in 0..n
    BY <1>1
  <2>2. off[k] = Partial(s, k) /\ off[k + 1] = Partial(s, k + 1)
    BY <1>5, <2>1
  <2> QED
    BY <1>4, <2>2
<1>7. \A k \in Nat, m \in Nat : k <= m /\ m <= n => off[k] <= off[m]
  <2> HIDE DEF n
  <2> QED
    BY <1>1, <1>5, <1>6, Climbs
<1>8. ASSUME NEW i \in Nat, i + 1 <= n PROVE Partial(s, i + 1) <= Buffer!Total
  <2>1. i + 1 \in 0..n /\ n \in 0..n /\ i + 1 \in Nat /\ n <= n
    BY <1>1, <1>8
  <2> QED
    BY <1>1, <1>3, <1>5, <1>7, <1>8, <2>1
<1> HIDE DEF n
<1> QED
  BY <1>1, <1>3, <1>4, <1>8 DEF n

(* The buffer joins sequences like everything else. *)
LEMMA BufferFlatten == \A seqs : Buffer!FlattenSeq(seqs) = FlattenSeq(seqs)
BY DEF Buffer!FlattenSeq, FlattenSeq

(* An id asked for that is below the length is a step of the history. *)
LEMMA IdListsFacts ==
  ASSUME NEW ids \in Buffer!IdLists
  PROVE  /\ ids \in Seq(Nat) /\ DOMAIN ids = 1..Len(ids) /\ Len(ids) \in Nat
         /\ \A k \in DOMAIN ids : ids[k] < BufferLength => ids[k] \in Buffer!Steps
<1>1. PICK m \in 0..BufferMaxIds : ids \in [1..m -> BufferIds]
  BY DEF Buffer!IdLists, Buffer!BoundedSeq, Buffer!SeqOf
<1>2. BufferLength \in Nat /\ Buffer!Steps = 0..(BufferLength - 1)
  BY BufferFacts
<1>3. ids \in Seq(Nat) /\ Len(ids) = m
  <2>1. BufferIds \subseteq Nat /\ BufferMaxIds \in Nat
    BY PartsAssumption DEF Buffer!BufferAssumption
  <2>2. m \in Nat
    BY <1>1, <2>1
  <2>3. DOMAIN ids = 1..m /\ ids = [k \in 1..m |-> ids[k]] /\ \A k \in 1..m : ids[k] \in Nat
    BY <1>1, <2>1
  <2> QED
    BY <2>2, <2>3
<1> QED
  BY <1>1, <1>2, <1>3

(* By time: one environment after the other, one step after the other. *)
LEMMA TimeLaidOut == Buffer!TimeLayout
<1> SUFFICES ASSUME NEW ids \in Buffer!IdLists, Buffer!HasOutput(ids)
             PROVE  LET block == Buffer!KnownOf(ids, Len(ids)) * Buffer!Total
                        laid == Buffer!GetObsVec(ids, "time")
                    IN /\ Len(laid) = BufferEnvs * block
                       /\ \A e \in Buffer!Envs, k \in DOMAIN ids, c \in Buffer!Components :
                            ids[k] < BufferLength =>
                              laid[e * block + Buffer!KnownOf(ids, k - 1) * Buffer!Total + c + 1]
                                = buf[e][ids[k]][c]
  BY DEF Buffer!TimeLayout
<1> DEFINE T == Buffer!Total
           K(k) == Buffer!KnownOf(ids, k)
           n == Len(ids)
           block == K(n) * T
           laid == Buffer!GetObsVec(ids, "time")
           envs == [e \in 1..BufferEnvs |-> Gathered(e - 1, ids, 0, T)]
<1>1. ids \in Seq(Nat) /\ n \in Nat /\ DOMAIN ids = 1..n
      /\ \A k \in 1..n : ids[k] < BufferLength => ids[k] \in Buffer!Steps
  BY IdListsFacts
<1>2. T \in Nat /\ BufferEnvs \in Nat /\ Buffer!Envs = 0..(BufferEnvs - 1)
      /\ Buffer!Components = 0..(T - 1)
  BY BufferFacts, DimsFacts DEF Buffer!Components
<1>3. \A k \in Nat : K(k) \in Nat
  BY <1>1, KnownFacts
<1>4. block \in Nat
  BY <1>1, <1>2, <1>3, Product
<1>5. laid = FlattenSeq(envs)
  <2>1. laid = Buffer!OfTime(ids)
    BY DEF Buffer!GetObsVec
  <2> QED
    BY <2>1, BufferFlatten DEF Buffer!OfTime, Gathered
<1> HIDE DEF laid, T
<1>6. ASSUME NEW e \in Buffer!Envs
      PROVE  /\ Gathered(e, ids, 0, T) \in Seq(Held) /\ Len(Gathered(e, ids, 0, T)) = block
             /\ \A k \in Nat : k + 1 <= n /\ ids[k + 1] \in Buffer!Steps =>
                  \A j \in 1..T : Gathered(e, ids, 0, T)[K(k) * T + j] = buf[e][ids[k + 1]][0 + j - 1]
  <2>1. ASSUME NEW f \in Nat, NEW t \in Nat
        PROVE  /\ Gathered(e, ids, f, t) \in Seq(Held) /\ Len(Gathered(e, ids, f, t)) = K(n) * t
               /\ \A k \in Nat : k + 1 <= n /\ ids[k + 1] \in Buffer!Steps =>
                    \A j \in 1..t : Gathered(e, ids, f, t)[K(k) * t + j] = buf[e][ids[k + 1]][f + j - 1]
    BY <1>1, GatheredAt
  <2> HIDE DEF K, n
  <2> QED
    BY <1>2, <2>1 DEF block
<1>7. envs \in Seq(Seq(Held)) /\ Len(envs) = BufferEnvs
      /\ \A e \in 1..BufferEnvs : envs[e] = Gathered(e - 1, ids, 0, T) /\ Len(envs[e]) = block
  <2>1. \A e \in 1..BufferEnvs : e - 1 \in Buffer!Envs
    BY <1>2
  <2>2. \A e \in 1..BufferEnvs :
          Gathered(e - 1, ids, 0, T) \in Seq(Held) /\ Len(Gathered(e - 1, ids, 0, T)) = block
    BY <1>6, <2>1
  <2> HIDE DEF block
  <2> QED
    BY <1>2, <2>2
<1> HIDE DEF envs, K, block, n
<1>8. /\ Len(FlattenSeq(envs)) = BufferEnvs * block
      /\ \A e \in Nat : e + 1 <= BufferEnvs =>
           \A j \in 1..block : FlattenSeq(envs)[e * block + j] = envs[e + 1][j]
  <2>1. \A e \in 1..Len(envs) : Len(envs[e]) = block
    BY <1>7
  <2>2. /\ Len(FlattenSeq(envs)) = Len(envs) * block
        /\ \A e \in Nat : e + 1 <= Len(envs) =>
             \A j \in 1..block : FlattenSeq(envs)[e * block + j] = envs[e + 1][j]
    BY <1>4, <1>7, <2>1, BlocksAt
  <2> QED
    BY <1>7, <2>2
<1>9. ASSUME NEW e \in Buffer!Envs, NEW k \in 1..n, NEW c \in Buffer!Components,
             ids[k] < BufferLength
      PROVE  laid[e * block + K(k - 1) * T + c + 1] = buf[e][ids[k]][c]
  <2> DEFINE h == k - 1
             j == c + 1
  <2>1. h \in Nat /\ h + 1 = k /\ h + 1 <= n /\ ids[h + 1] \in Buffer!Steps
    BY <1>1, <1>9
  <2>2. j \in 1..T /\ 0 + j - 1 = c /\ j \in Nat
    BY <1>2
  <2>3. e \in Nat /\ e + 1 <= BufferEnvs /\ (e + 1) - 1 = e /\ e + 1 \in 1..BufferEnvs
    BY <1>2
  <2>4. K(h) \in Nat /\ K(n) \in Nat /\ K(h) + 1 <= K(n)
    <3>1. K(h + 1) = K(h) + 1
      BY <1>1, <2>1, KnownFacts DEF K
    <3>2. K(h + 1) <= K(n)
      BY <1>1, <2>1, KnownGrows DEF K
    <3> QED
      BY <1>1, <1>3, <2>1, <3>1, <3>2
  <2>5. K(h) * T + j \in 1..block
    BY <1>2, <2>2, <2>4, Within DEF block
  <2>6. FlattenSeq(envs)[e * block + (K(h) * T + j)] = envs[e + 1][K(h) * T + j]
    BY <1>8, <2>3, <2>5
  <2>7. envs[e + 1] = Gathered(e, ids, 0, T)
    BY <1>7, <2>3
  <2>8. Gathered(e, ids, 0, T)[K(h) * T + j] = buf[e][ids[h + 1]][0 + j - 1]
    BY <1>6, <2>1, <2>2
  <2>9. laid[e * block + (K(h) * T + j)] = buf[e][ids[k]][c]
    BY <1>5, <2>1, <2>2, <2>6, <2>7, <2>8
  <2>10. e * block + K(h) * T + c + 1 = e * block + (K(h) * T + j)
    <3>1. e * block \in Nat /\ K(h) * T \in Nat /\ c \in Int
      BY <1>2, <1>4, <2>3, <2>4, Product
    <3> QED
      BY <3>1
  <2> HIDE DEF j
  <2> QED
    BY <2>9, <2>10
<1> QED
  BY <1>1, <1>5, <1>8, <1>9 DEF T, K, n, block, laid

(* The terms of an environment, one after the other. *)
Terms(e, ids) ==
  FlattenSeq([i \in DOMAIN BufferDims |->
    Gathered(e, ids, Buffer!Offset(i), BufferDims[i])])

(* Where a term is: behind the terms before it, of all the steps. *)
LEMMA TermsAt ==
  ASSUME NEW ids \in Seq(Nat), NEW e \in Buffer!Envs
  PROVE  LET steps == Buffer!KnownOf(ids, Len(ids))
         IN /\ Terms(e, ids) \in Seq(Held) /\ Len(Terms(e, ids)) = steps * Buffer!Total
            /\ \A i \in Nat : i + 1 <= Len(BufferDims) =>
                 \A j \in 1..(steps * BufferDims[i + 1]) :
                   Terms(e, ids)[steps * Partial(BufferDims, i) + j]
                     = Gathered(e, ids, Partial(BufferDims, i), BufferDims[i + 1])[j]
<1> DEFINE D == BufferDims
           n == Len(D)
           steps == Buffer!KnownOf(ids, Len(ids))
           seqs == [i \in DOMAIN D |-> Gathered(e, ids, Buffer!Offset(i), D[i])]
           off == [i \in 0..n |-> steps * Partial(D, i)]
<1>0. steps \in Nat
  BY KnownFacts
<1>12. \A f \in Nat, t \in Nat :
         Gathered(e, ids, f, t) \in Seq(Held) /\ Len(Gathered(e, ids, f, t)) = steps * t
  BY GatheredAt
<1> HIDE DEF steps
<1>1. D \in Seq(Nat) /\ n \in Nat /\ DOMAIN D = 1..n
  BY DimsFacts
<1>2. ASSUME NEW i \in Nat, i + 1 <= n
      PROVE  /\ i + 1 \in 1..n /\ i \in 0..n /\ i + 1 \in 0..n
             /\ D[i + 1] \in Nat /\ Partial(D, i) \in Nat /\ Buffer!Offset(i + 1) = Partial(D, i)
             /\ Partial(D, i + 1) = Partial(D, i) + D[i + 1]
  <2>1. i + 1 \in 1..n /\ i \in 0..n /\ i + 1 \in 0..n
    BY <1>1, <1>2
  <2> QED
    BY <1>2, <2>1, DimsFacts
<1>3. ASSUME NEW i \in Nat, i + 1 <= n
      PROVE  /\ seqs[i + 1] = Gathered(e, ids, Partial(D, i), D[i + 1])
             /\ seqs[i + 1] \in Seq(Held) /\ Len(seqs[i + 1]) = steps * D[i + 1]
  <2>1. seqs[i + 1] = Gathered(e, ids, Partial(D, i), D[i + 1])
    BY <1>1, <1>2, <1>3
  <2>3. Partial(D, i) \in Nat /\ D[i + 1] \in Nat
    BY <1>2, <1>3
  <2> HIDE DEF seqs, D, n
  <2> QED
    BY <1>12, <2>1, <2>3
<1>4. seqs \in Seq(Seq(Held)) /\ Len(seqs) = n
  <2>1. \A i \in 1..n : seqs[i] \in Seq(Held)
    <3> SUFFICES ASSUME NEW i \in 1..n PROVE seqs[i] \in Seq(Held)
      OBVIOUS
    <3>1. i - 1 \in Nat /\ (i - 1) + 1 = i /\ (i - 1) + 1 <= n
      BY <1>1
    <3>2. seqs[(i - 1) + 1] \in Seq(Held)
      BY <1>3, <3>1
    <3> QED
      BY <3>1, <3>2
  <2> QED
    BY <1>1, <2>1
<1>5. \A i \in 0..n : Partial(D, i) \in Nat
  <2> SUFFICES ASSUME NEW i \in 0..n PROVE Partial(D, i) \in Nat
    OBVIOUS
  <2> HIDE DEF D
  <2> QED
    BY <1>1, PartialSums
<1>6. Partial(D, 0) = 0 /\ Buffer!Total = Partial(D, n)
  BY <1>1, PartialSums, DimsFacts
<1>7. off \in [0..n -> Nat] /\ off[0] = 0 /\ off[n] = steps * Buffer!Total
      /\ \A i \in 0..n : off[i] = steps * Partial(D, i)
  <2>1. \A i \in 0..n : steps * Partial(D, i) \in Nat
    BY <1>0, <1>5, Product
  <2>2. steps * 0 = 0
    BY <1>0
  <2> QED
    BY <1>1, <1>6, <2>1, <2>2
<1> HIDE DEF off, seqs
<1>8. ASSUME NEW i \in Nat, i + 1 <= n PROVE off[i + 1] = off[i] + Len(seqs[i + 1])
  <2>1. \A a \in Nat, b \in Nat, c \in Nat : a * (b + c) = a * b + a * c
    OBVIOUS
  <2>2. off[i] = steps * Partial(D, i) /\ off[i + 1] = steps * (Partial(D, i) + D[i + 1])
        /\ Len(seqs[i + 1]) = steps * D[i + 1]
    BY <1>2, <1>3, <1>7, <1>8
  <2>3. D[i + 1] \in Nat /\ Partial(D, i) \in Nat
    BY <1>2, <1>8
  <2> QED
    BY <1>0, <2>1, <2>2, <2>3
<1> DEFINE out == FlattenSeq(seqs)
<1>9. /\ out \in Seq(Held) /\ Len(out) = off[n]
      /\ \A i \in Nat : i + 1 <= n =>
           \A j \in 1..Len(seqs[i + 1]) : out[off[i] + j] = seqs[i + 1][j]
  <2>1. seqs \in Seq(Seq(Held)) /\ off \in [0..Len(seqs) -> Nat] /\ off[0] = 0
    BY <1>4, <1>7
  <2>2. \A k \in Nat : k + 1 <= Len(seqs) => off[k + 1] = off[k] + Len(seqs[k + 1])
    BY <1>4, <1>8
  <2>3. /\ out \in Seq(Held) /\ Len(out) = off[Len(seqs)]
        /\ \A k \in Nat : k + 1 <= Len(seqs) =>
             \A j \in 1..Len(seqs[k + 1]) : out[off[k] + j] = seqs[k + 1][j]
    <3> HIDE DEF n, D, out
    <3>1. /\ FlattenSeq(seqs) \in Seq(Held) /\ Len(FlattenSeq(seqs)) = off[Len(seqs)]
          /\ \A k \in Nat : k + 1 <= Len(seqs) =>
               \A j \in 1..Len(seqs[k + 1]) : FlattenSeq(seqs)[off[k] + j] = seqs[k + 1][j]
      BY <2>1, <2>2, FlattenAt
    <3> QED
      BY <3>1 DEF out
  <2> HIDE DEF out, n
  <2> QED
    BY <1>4, <2>3
<1>10. Terms(e, ids) = out
  BY DEF Terms, seqs
<1> HIDE DEF out, D
<1>11. ASSUME NEW i \in Nat, i + 1 <= n, NEW j \in 1..(steps * D[i + 1])
       PROVE  out[steps * Partial(D, i) + j] = Gathered(e, ids, Partial(D, i), D[i + 1])[j]
  <2>1. off[i] = steps * Partial(D, i) /\ Len(seqs[i + 1]) = steps * D[i + 1]
        /\ seqs[i + 1] = Gathered(e, ids, Partial(D, i), D[i + 1])
    BY <1>2, <1>3, <1>7, <1>11
  <2>2. out[off[i] + j] = seqs[i + 1][j]
    BY <1>9, <1>11, <2>1
  <2> QED
    BY <2>1, <2>2
<1> QED
  BY <1>7, <1>9, <1>10, <1>11 DEF D, steps

(* By term: the steps of a term lie together. *)
LEMMA TermsLaidOut == Buffer!TermLayout
<1> SUFFICES ASSUME NEW ids \in Buffer!IdLists, Buffer!HasOutput(ids)
             PROVE  LET steps == Buffer!KnownOf(ids, Len(ids))
                        laid == Buffer!GetObsVec(ids, "term")
                    IN /\ Len(laid) = BufferEnvs * (steps * Buffer!Total)
                       /\ \A e \in Buffer!Envs, i \in DOMAIN BufferDims, k \in DOMAIN ids :
                            \A j \in 0..(BufferDims[i] - 1) :
                              ids[k] < BufferLength =>
                                LET before == Buffer!SumOf(SubSeq(BufferDims, 1, i - 1))
                                    start == e * (steps * Buffer!Total) + steps * before
                                               + Buffer!KnownOf(ids, k - 1) * BufferDims[i]
                                IN laid[start + j + 1] = buf[e][ids[k]][before + j]
  BY DEF Buffer!TermLayout
<1> DEFINE T == Buffer!Total
           D == BufferDims
           K(k) == Buffer!KnownOf(ids, k)
           n == Len(ids)
           steps == K(n)
           block == steps * T
           laid == Buffer!GetObsVec(ids, "term")
           envs == [e \in 1..BufferEnvs |-> Terms(e - 1, ids)]
<1>1. ids \in Seq(Nat) /\ n \in Nat /\ DOMAIN ids = 1..n
      /\ \A k \in 1..n : ids[k] < BufferLength => ids[k] \in Buffer!Steps
  BY IdListsFacts
<1>2. T \in Nat /\ BufferEnvs \in Nat /\ Buffer!Envs = 0..(BufferEnvs - 1)
      /\ Len(D) \in Nat /\ DOMAIN D = 1..Len(D)
  BY BufferFacts, DimsFacts
<1>3. \A k \in Nat : K(k) \in Nat
  BY <1>1, KnownFacts
<1>4. steps \in Nat /\ block \in Nat
  BY <1>1, <1>2, <1>3, Product
<1>5. laid = FlattenSeq(envs)
  <2>1. laid = Buffer!OfTerm(ids)
    BY DEF Buffer!GetObsVec
  <2> QED
    BY <2>1, BufferFlatten DEF Buffer!OfTerm, Gathered, Terms
<1>6. ASSUME NEW e \in Buffer!Envs
      PROVE  /\ Terms(e, ids) \in Seq(Held) /\ Len(Terms(e, ids)) = block
             /\ \A i \in Nat : i + 1 <= Len(D) =>
                  \A j \in 1..(steps * D[i + 1]) :
                    Terms(e, ids)[steps * Partial(D, i) + j]
                      = Gathered(e, ids, Partial(D, i), D[i + 1])[j]
  BY <1>1, <1>4, TermsAt
<1>7. ASSUME NEW e \in Buffer!Envs, NEW f \in Nat, NEW t \in Nat
      PROVE  /\ Gathered(e, ids, f, t) \in Seq(Held) /\ Len(Gathered(e, ids, f, t)) = K(n) * t
             /\ \A k \in Nat : k + 1 <= n /\ ids[k + 1] \in Buffer!Steps =>
                  \A j \in 1..t : Gathered(e, ids, f, t)[K(k) * t + j] = buf[e][ids[k + 1]][f + j - 1]
  BY <1>1, GatheredAt
<1> HIDE DEF laid, T, D
<1>8. envs \in Seq(Seq(Held)) /\ Len(envs) = BufferEnvs
      /\ \A e \in 1..BufferEnvs : envs[e] = Terms(e - 1, ids) /\ Len(envs[e]) = block
  <2>1. \A e \in 1..BufferEnvs : e - 1 \in Buffer!Envs
    BY <1>2
  <2>2. \A e \in 1..BufferEnvs : Terms(e - 1, ids) \in Seq(Held) /\ Len(Terms(e - 1, ids)) = block
    BY <1>6, <2>1
  <2> HIDE DEF block
  <2> QED
    BY <1>2, <2>2
<1> HIDE DEF envs, K, block, n, steps
<1>9. /\ Len(FlattenSeq(envs)) = BufferEnvs * block
      /\ \A e \in Nat : e + 1 <= BufferEnvs =>
           \A j \in 1..block : FlattenSeq(envs)[e * block + j] = envs[e + 1][j]
  <2>1. \A e \in 1..Len(envs) : Len(envs[e]) = block
    BY <1>8
  <2>2. /\ Len(FlattenSeq(envs)) = Len(envs) * block
        /\ \A e \in Nat : e + 1 <= Len(envs) =>
             \A j \in 1..block : FlattenSeq(envs)[e * block + j] = envs[e + 1][j]
    BY <1>4, <1>8, <2>1, BlocksAt
  <2> QED
    BY <1>8, <2>2
<1>10. ASSUME NEW e \in Buffer!Envs, NEW i \in 1..Len(D), NEW k \in 1..n, NEW j \in 0..(D[i] - 1),
              ids[k] < BufferLength
       PROVE  laid[e * block + steps * Buffer!SumOf(SubSeq(D, 1, i - 1)) + K(k - 1) * D[i] + j + 1]
                = buf[e][ids[k]][Buffer!SumOf(SubSeq(D, 1, i - 1)) + j]
  <2> DEFINE h == k - 1
             g == i - 1
             t == D[i]
             before == Partial(D, g)
             p == K(h) * t + (j + 1)
             q == steps * before + p
  <2>1. h \in Nat /\ h + 1 = k /\ h + 1 <= n /\ ids[h + 1] \in Buffer!Steps
    BY <1>1, <1>10
  <2>2. g \in Nat /\ g + 1 = i /\ g + 1 <= Len(D)
    BY <1>2
  <2>3. e \in Nat /\ e + 1 <= BufferEnvs /\ (e + 1) - 1 = e /\ e + 1 \in 1..BufferEnvs
    BY <1>2
  <2>4. t \in Nat /\ before \in Nat /\ Buffer!SumOf(SubSeq(D, 1, g)) = before
        /\ Partial(D, g + 1) = before + t /\ before + t <= T
    BY <2>2, DimsFacts DEF D, T
  <2> HIDE DEF before, g, t
  <2>5. K(h) \in Nat /\ K(h) + 1 <= steps
    <3>1. K(h + 1) = K(h) + 1
      BY <1>1, <2>1, KnownFacts DEF K
    <3>2. K(h + 1) <= K(n)
      BY <1>1, <2>1, KnownGrows DEF K
    <3> QED
      BY <1>1, <1>3, <2>1, <3>1, <3>2 DEF steps
  <2>6. j + 1 \in 1..t /\ j \in Nat
    BY <2>4 DEF t
  <2>7. p \in 1..(steps * t)
    BY <1>4, <2>4, <2>5, <2>6, Within
  <2> HIDE DEF p
  <2>8. q \in 1..block
    <3>1. \A a \in Nat, b \in Nat, c \in Nat : a * (b + c) = a * b + a * c /\ a * b \in Nat
      OBVIOUS
    <3>2. \E d \in Nat : T = (before + t) + d
      <4>1. T - (before + t) \in Nat /\ T = (before + t) + (T - (before + t))
        BY <1>2, <2>4
      <4> QED
        BY <4>1
    <3>3. PICK d \in Nat : T = (before + t) + d
      BY <3>2
    <3>4. block = (steps * before + steps * t) + steps * d
      <4>1. before + t \in Nat
        BY <2>4
      <4>2. steps * ((before + t) + d) = steps * (before + t) + steps * d
        BY <1>4, <3>1, <4>1
      <4>3. steps * (before + t) = steps * before + steps * t
        BY <1>4, <2>4, <3>1
      <4> QED
        BY <3>3, <4>2, <4>3 DEF block
    <3>5. steps * before \in Nat /\ steps * t \in Nat /\ steps * d \in Nat
      BY <1>4, <2>4, <3>1
    <3> QED
      BY <2>7, <3>4, <3>5
  <2> HIDE DEF q
  <2>9. FlattenSeq(envs)[e * block + q] = envs[e + 1][q]
    BY <1>9, <2>3, <2>8
  <2>10. envs[e + 1] = Terms(e, ids)
    BY <1>8, <2>3
  <2>11. Terms(e, ids)[q] = Gathered(e, ids, before, t)[p]
    <3>1. D[g + 1] = t
      BY <2>2 DEF t
    <3> QED
      BY <1>6, <2>2, <2>7, <3>1 DEF q, before
  <2>12. Gathered(e, ids, before, t)[K(h) * t + (j + 1)] = buf[e][ids[h + 1]][before + (j + 1) - 1]
    <3>1. \A m \in 1..t : Gathered(e, ids, before, t)[K(h) * t + m] = buf[e][ids[h + 1]][before + m - 1]
      BY <1>7, <2>1, <2>4
    <3> QED
      BY <2>6, <3>1
  <2>13. before + (j + 1) - 1 = before + j
    BY <2>4, <2>6
  <2>14. laid[e * block + q] = buf[e][ids[k]][before + j]
    BY <1>5, <2>1, <2>9, <2>10, <2>11, <2>12, <2>13 DEF p
  <2>15. e * block + steps * before + K(h) * t + j + 1 = e * block + q
    <3>1. e * block \in Nat /\ K(h) * t \in Nat /\ steps * before \in Nat
      BY <1>4, <2>3, <2>4, <2>5, Product
    <3> QED
      BY <2>6, <3>1 DEF q, p
  <2>16. laid[e * block + steps * Buffer!SumOf(SubSeq(D, 1, g)) + K(h) * t + j + 1]
           = buf[e][ids[k]][Buffer!SumOf(SubSeq(D, 1, g)) + j]
    BY <2>4, <2>14, <2>15
  <2> QED
    BY <2>16 DEF g, t
<1> QED
  BY <1>1, <1>2, <1>5, <1>9, <1>10 DEF T, D, K, n, steps, block, laid
-----------------------------------------------------------------------------
(***************************************************************************)
(* What holds of the parts beside each other.                              *)
(***************************************************************************)

(* What the other parts do changes nothing on the wire, *)
LEMMA WireKept == ASSUME WireInv, UNCHANGED wireVars PROVE WireInv'
BY DEF WireInv, wireVars, Wire!MotorRoundTrip, Wire!SameAttitude

(* behind the gear, *)
LEMMA GearKept == ASSUME GearInv, UNCHANGED gearVars PROVE GearInv'
BY DEF GearInv, gearVars, MotorAt, Told, Drive!Gear

(* or in a network. *)
LEMMA NetKept == ASSUME NetInv, UNCHANGED modelVars PROVE NetInv'
BY DEF NetInv, modelVars, Networks!ReadyModel, Networks!WholeObservation

(* Whatever is lost on the way, the joints and the attitude that come back *)
(* over the wire are those sent; so are the calves' behind their gear.     *)
THEOREM RoundTripsHolds == AllSpec => []RoundTrips
<1>1. AllInit => WireInv /\ GearInv
  BY WireInvInit, GearInvInit
<1>2. ASSUME WireInv, GearInv, [AllNext]_allVars PROVE WireInv' /\ GearInv'
  <2>1. Wire!WireNext \/ UNCHANGED wireVars
    BY <1>2 DEF AllNext, allVars
  <2>2. Drive!GearNext \/ UNCHANGED gearVars
    BY <1>2 DEF AllNext, allVars
  <2> QED
    BY <1>2, <2>1, <2>2, WireStep, WireKept, GearStep, GearKept
<1>3. WireInv /\ GearInv => RoundTrips
  BY GearInvExact DEF RoundTrips, WireInv
<1> QED
  BY <1>1, <1>2, <1>3, PTL DEF AllSpec

(* A state that is ready runs the network of its file, and no inference    *)
(* reads past an observation's end or leaves a part of it out.             *)
THEOREM NetworkCheckedHolds == AllSpec => []NetworkChecked
<1>1. AllInit => NetInv
  BY NetInvInit
<1>2. ASSUME NetInv, [AllNext]_allVars PROVE NetInv'
  <2>1. Networks!InferenceNext \/ UNCHANGED modelVars
    BY <1>2 DEF AllNext, allVars
  <2> QED
    BY <1>2, <2>1, NetStep, NetKept
<1>3. NetInv => NetworkChecked
  BY DEF NetworkChecked, NetInv
<1> QED
  BY <1>1, <1>2, <1>3, PTL DEF AllSpec

(* Played at any time, a clip's motion begins and ends where the clip does *)
(* and never moves faster than its frames do.                              *)
THEOREM MotionContinuousHolds == AllSpec => []MotionContinuous
<1>1. AllInit => MotionInv
  BY MotionInvInit
<1>2. ASSUME MotionInv, [AllNext]_allVars PROVE MotionInv'
  <2>1. Motion!MotionNext \/ UNCHANGED motionVars
    BY <1>2 DEF AllNext, allVars
  <2> QED
    BY <1>2, <2>1, MotionStep, MotionKept
<1>3. MotionInv => MotionContinuous
  BY MotionShown, MotionSmooth DEF MotionContinuous
<1> QED
  BY <1>1, <1>2, <1>3, PTL DEF AllSpec

(* The history holds what was inserted, newest first, and what was reset,  *)
(* and get_obs_vec gives of it the steps asked for, by time or by term.     *)
THEOREM HistoryAsAskedHolds == AllSpec => []HistoryAsAsked
<1>1. AllInit => BufInv
  BY BufInvInit
<1>2. ASSUME BufInv, [AllNext]_allVars PROVE BufInv'
  <2>1. Buffer!Next \/ UNCHANGED bufferVars
    BY <1>2 DEF AllNext, allVars
  <2> QED
    BY <1>2, <2>1, BufferStep, BufferKept
<1>3. BufInv => HistoryAsAsked
  BY HistoryStamps, TimeLaidOut, TermsLaidOut DEF HistoryAsAsked, BufInv
<1> QED
  BY <1>1, <1>2, <1>3, PTL DEF AllSpec
=============================================================================
