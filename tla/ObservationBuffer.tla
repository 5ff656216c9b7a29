------------------------- MODULE ObservationBuffer -------------------------
(***************************************************************************)
(* The history of observations a policy is fed: ObservationBuffer with     *)
(* insert, reset and the two layouts of get_obs_vec.                       *)
(*                                                                         *)
(* A component of an observation is abstracted to the number of the        *)
(* observation it came from (0: the initial zeros) and its index in it.    *)
(* Indices of environments, steps and components start at 0 as in the code.*)
(***************************************************************************)
EXTENDS Integers, Sequences, SequencesExt, FiniteSetsExt, FiniteSets

CONSTANTS
  NumEnvs,       \* num_envs
  Dims,          \* obs_dims: the sizes of the observation's terms
  HistoryLength, \* history_length
  Ids, MaxIds,   \* what may be asked for, and the longest list of it
  MaxCalls       \* bound: calls of insert and reset

BufferAssumption ==
  /\ NumEnvs \in Nat \ {0}
  /\ HistoryLength \in Nat \ {0}
  /\ Dims \in Seq(Nat \ {0}) /\ Dims # <<>>
  /\ Ids \subseteq Nat /\ MaxIds \in Nat /\ MaxCalls \in Nat

Envs == 0..(NumEnvs - 1)
Steps == 0..(HistoryLength - 1)
SumOf(dims) == FoldLeft(LAMBDA sum, d : sum + d, 0, dims)
Total == SumOf(Dims) \* num_obs_total
Components == 0..(Total - 1)

Observation(n) == [i \in Components |-> <<n, i>>]

VARIABLES
  buf, \* obs_buf[env][step], step 0 the newest
  log  \* auxiliary: the calls that changed the buffer, in their order; the
       \* n-th passed observation n

vars == <<buf, log>>

Calls == [op : {"insert", "reset"}, idxs : SUBSET (Envs \cup {NumEnvs}),
          size : {1, Total}]

TypeOK ==
  /\ buf \in [Envs -> [Steps -> [Components -> (0..MaxCalls) \X Components]]]
  /\ log \in Seq(Calls) /\ Len(log) <= MaxCalls

Init ==
  /\ buf = [e \in Envs |-> [t \in Steps |-> Observation(0)]]
  /\ log = <<>>

-----------------------------------------------------------------------------
(* The steps move back by one, in place, in the given order...             *)
Shift(steps, order) ==
  FoldLeft(LAMBDA s, t : [s EXCEPT ![t] = s[t - 1]], steps, order)

(* A faulty variant: from the first to the last.                           *)
ShiftedUpwards(steps) == Shift(steps, [k \in 1..(HistoryLength - 1) |-> k])

(* ...which is from the last to the first. *)
Shifted(steps) == Shift(steps, [k \in 1..(HistoryLength - 1) |-> HistoryLength - k])

(* insert; an observation of another size is ignored. *)
Insert ==
  /\ Len(log) < MaxCalls
  /\ buf' = [e \in Envs |-> [Shifted(buf[e]) EXCEPT ![0] = Observation(Len(log) + 1)]]
  /\ log' = Append(log, [op |-> "insert", idxs |-> Envs, size |-> Total])

(* reset: the first components of every step of the given environments;    *)
(* an index that names none is passed over.                                *)
Overwrite(obs, new, size) == [i \in Components |-> IF i < size THEN new[i] ELSE obs[i]]

Reset(idxs, size) ==
  /\ Len(log) < MaxCalls
  /\ buf' = [e \in Envs |-> IF e \in idxs
                THEN [t \in Steps |-> Overwrite(buf[e][t], Observation(Len(log) + 1), size)]
                ELSE buf[e]]
  /\ log' = Append(log, [op |-> "reset", idxs |-> idxs, size |-> size])

Next ==
  \/ Insert
  \/ \E idxs \in SUBSET (Envs \cup {NumEnvs}), size \in {1, Total} : Reset(idxs, size)

Spec == Init /\ [][Next]_vars

-----------------------------------------------------------------------------
(***************************************************************************)
(* get_obs_vec.                                                            *)
(***************************************************************************)

InHistory(id) == id \in Steps

(* output_size # 0: the ids are looked up among the terms, although they   *)
(* are steps.                                                              *)
HasOutput(ids) == \E k \in DOMAIN ids : ids[k] \in 0..(Len(Dims) - 1)

(* obs_offset of a term: the components before it.                         *)
Offset(term) == SumOf(SubSeq(Dims, 1, term - 1))

(* The components from..from+n-1 of an observation.                        *)
Slice(obs, from, n) == [j \in 1..n |-> obs[from + j - 1]]

(* What an id asked for adds: nothing, if it is not a step of the history. *)
Part(e, id, from, n) == IF InHistory(id) THEN Slice(buf[e][id], from, n) ELSE <<>>

OfTime(ids) ==
  FlattenSeq([e \in 1..NumEnvs |->
    FlattenSeq([k \in DOMAIN ids |-> Part(e - 1, ids[k], 0, Total)])])

OfTerm(ids) ==
  FlattenSeq([e \in 1..NumEnvs |->
    FlattenSeq([i \in DOMAIN Dims |->
      FlattenSeq([k \in DOMAIN ids |-> Part(e - 1, ids[k], Offset(i), Dims[i])])])])

GetObsVec(ids, priority) ==
  IF ~HasOutput(ids) THEN <<>>
  ELSE IF priority = "time" THEN OfTime(ids) ELSE OfTerm(ids)

-----------------------------------------------------------------------------
(***************************************************************************)
(* Properties.                                                             *)
(***************************************************************************)

(* The call that put the observation in step t there: the insert that t    *)
(* others followed, or 0 for the constructor.                              *)
Inserts == {n \in DOMAIN log : log[n].op = "insert"}
Origin(t) ==
  IF \E n \in Inserts : Cardinality({m \in Inserts : m > n}) = t
  THEN CHOOSE n \in Inserts : Cardinality({m \in Inserts : m > n}) = t
  ELSE 0

(* Step t of the history is the t-th last observation inserted, except for *)
(* the components a later reset of the environment has replaced.           *)
HistoryInOrder ==
  \A e \in Envs, t \in Steps, i \in Components :
    LET resets == {n \in (Origin(t) + 1)..Len(log) :
                     log[n].op = "reset" /\ e \in log[n].idxs /\ i < log[n].size}
    IN buf[e][t][i] = <<Max(resets \cup {Origin(t)}), i>>

(* Lists of steps to ask for, in the history or not. *)
IdLists == BoundedSeq(Ids, MaxIds)

(* How many of the first k ids are steps of the history. *)
KnownOf(ids, k) == Cardinality({m \in 1..k : ids[m] \in Steps})

(* The layout "time": one environment after the other, in it one step of   *)
(* the list after the other, and of a step all the components.             *)
TimeLayout ==
  \A ids \in IdLists : HasOutput(ids) =>
    LET block == KnownOf(ids, Len(ids)) * Total
        output == GetObsVec(ids, "time")
    IN /\ Len(output) = NumEnvs * block
       /\ \A e \in Envs, k \in DOMAIN ids, c \in Components :
            ids[k] < HistoryLength =>
              output[e * block + KnownOf(ids, k - 1) * Total + c + 1] = buf[e][ids[k]][c]

(* The layout "term": the components of a term lie together, those of one  *)
(* step after those of the step before it in the list.                     *)
TermLayout ==
  \A ids \in IdLists : HasOutput(ids) =>
    LET steps == KnownOf(ids, Len(ids))
        output == GetObsVec(ids, "term")
    IN /\ Len(output) = NumEnvs * (steps * Total)
       /\ \A e \in Envs, i \in DOMAIN Dims, k \in DOMAIN ids : \A j \in 0..(Dims[i] - 1) :
            ids[k] < HistoryLength =>
              LET before == SumOf(SubSeq(Dims, 1, i - 1))
                  start == e * (steps * Total) + steps * before + KnownOf(ids, k - 1) * Dims[i]
              IN output[start + j + 1] = buf[e][ids[k]][before + j]

(* The comment above get_obs_vec (observation_buffer.cpp:100-107): the ids *)
(* index the history, and their observations are concatenated.             *)
ConcatenatesHistory ==
  \A ids \in BoundedSeq(Steps, MaxIds) :
    Len(GetObsVec(ids, "time")) = NumEnvs * Len(ids) * Total

(* The output written down in test_observation_buffer.cpp:20-21: of three  *)
(* observations, id 0 is the first and id 2 the last one inserted.         *)
TestedOrder ==
  log = [n \in 1..3 |-> [op |-> "insert", idxs |-> Envs, size |-> Total]] =>
    GetObsVec(<<0, 0, 1, 2>>, "time")
      = FlattenSeq([n \in 1..4 |-> Slice(Observation(<<1, 1, 2, 3>>[n]), 0, Total)])
=============================================================================
