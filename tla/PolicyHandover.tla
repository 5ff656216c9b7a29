--------------------------- MODULE PolicyHandover ---------------------------
(***************************************************************************)
(* What the hand-over to a learned policy promises, without threads, locks *)
(* or queues. An episode is one attempt to give the motors to a policy.    *)
(* Only the policy of the present episode writes targets, and only once it *)
(* is engaged; what it writes is a pair of a position and a velocity       *)
(* target, each stamped with the inference that computed it. Positions are *)
(* written in order and never twice. The velocity may be one inference     *)
(* behind the position; within an episode it may fall behind once, and     *)
(* then stays exactly one behind.                                          *)
(***************************************************************************)
EXTENDS Integers

VARIABLES
  phase,   \* "none": no policy, "pending": being loaded, "engaged"
  episode, \* number of episodes begun
  pair     \* the last pair of targets written

vars == <<phase, episode, pair>>

Lag(p) == p.pos.tick - p.vel.tick

Init ==
  /\ phase = "none"
  /\ episode = 0
  /\ pair = [pos |-> [entry |-> 0, tick |-> 0],
             vel |-> [entry |-> 0, tick |-> 0]]

(* A new episode, directly from another one or from none. *)
Begin ==
  /\ phase' = "pending"
  /\ episode' = episode + 1
  /\ UNCHANGED pair

Engage ==
  /\ phase = "pending"
  /\ phase' = "engaged"
  /\ UNCHANGED <<episode, pair>>

(* The episode ends, or could not begin. *)
End ==
  /\ phase' = "none"
  /\ UNCHANGED <<episode, pair>>

Write ==
  /\ phase = "engaged"
  /\ pair'.pos.entry = episode
  /\ pair'.vel.entry = episode
  /\ pair'.pos.tick > pair.pos.tick
  /\ Lag(pair') \in {0, 1}
  /\ pair.pos.entry = episode => Lag(pair') >= Lag(pair)
  /\ UNCHANGED <<phase, episode>>

Next == Begin \/ Engage \/ End \/ Write

Spec == Init /\ [][Next]_vars
=============================================================================
