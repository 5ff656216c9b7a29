------------------------------ MODULE SimClock ------------------------------
(***************************************************************************)
(* Who moves the simulated time of the MuJoCo node, and what depends on    *)
(* it: the catch-ball throws, the viewer's history of states and the two   *)
(* notions of a running simulation.                                        *)
(*                                                                         *)
(* Everything here happens under sim->mtx (MujocoSim has the mutex), so    *)
(* one section is one action: a section of PhysicsLoop, a RobotControl     *)
(* cycle, and a frame of the viewer, which handles events one by one and   *)
(* then calls Sync. The simulated state is its time, in ticks, and where   *)
(* the ball is. History is a ring; cursor is its newest entry and          *)
(* scrub_index, at most 0, counts back from there.                         *)
(***************************************************************************)
EXTENDS Integers, Sequences

CONSTANTS
  ThrowDelay,  \* the 0.8 s between two throws, in ticks
  MaxFlight,   \* the 3.0 s after which a ball is taken away
  NHistory,    \* nhistory_, the length of the ring
  MaxTime,     \* bound: simulated time
  MaxRecords   \* bound: states recorded

ASSUME ClockAssumption ==
  /\ ThrowDelay \in Nat /\ MaxFlight \in Nat /\ MaxTime \in Nat /\ MaxRecords \in Nat
  /\ NHistory \in Nat \ {0}

VARIABLES
  state,         \* d: [time, ball]
  run,           \* Simulate::run
  history,       \* Simulate::history_
  cursor,        \* Simulate::history_cursor_
  scrub_index,   \* Simulate::scrub_index
  pending,       \* the flags of Simulate::pending_ that move the state
  inFrame,       \* the viewer is between PollEvents and the end of Sync
  simulation_running,                        \* of the node
  in_flight, next_throw_time, throw_start_time,
  recorded,      \* auxiliary: every state recorded, oldest first
  peak,          \* auxiliary: the greatest time the simulation has reached
  moved          \* auxiliary: the viewer or MuJoCo put back the state since
                 \* the node last moved the ball

historyVars == <<history, cursor, recorded>>
throwVars == <<in_flight, next_throw_time, throw_start_time>>
clockVars == <<state, run, historyVars, scrub_index, pending, inFrame, simulation_running,
          throwVars, peak, moved>>

(* up: z >= 0.05 and falling; low: z < 0.05; hidden: at z = -10. *)
States == [time : Nat, ball : {"up", "low", "hidden"}]
Requests == {"reset", "load_from_history", "load_key"}
Slots == 0..(NHistory - 1)

ClockTypeOK ==
  /\ state \in States
  /\ run \in BOOLEAN
  /\ history \in [Slots -> States]
  /\ cursor \in Slots
  /\ scrub_index \in (1 - NHistory)..0
  /\ pending \subseteq Requests
  /\ inFrame \in BOOLEAN
  /\ simulation_running \in BOOLEAN
  /\ in_flight \in BOOLEAN
  /\ next_throw_time \in Nat /\ throw_start_time \in Nat
  /\ recorded \in Seq(States)
  /\ peak \in Nat
  /\ moved \in BOOLEAN

(* The model is loaded and shown, InitCatchballMujoco has hidden the ball. *)
ClockInit ==
  LET first == [time |-> 0, ball |-> "hidden"]
  IN /\ state = first
     /\ run = TRUE /\ simulation_running = TRUE
     /\ history = [i \in Slots |-> first] /\ cursor = 0 /\ recorded = <<first>>
     /\ scrub_index = 0 /\ pending = {} /\ inFrame = FALSE
     /\ in_flight = FALSE /\ next_throw_time = ThrowDelay /\ throw_start_time = 0
     /\ peak = 0 /\ moved = FALSE

Later(a, b) == IF a < b THEN b ELSE a

SetState(s) ==
  /\ state' = s
  /\ peak' = Later(peak, s.time)

-----------------------------------------------------------------------------
(* The history. *)

RecordAt(slot, s) ==
  /\ Len(recorded) < MaxRecords
  /\ cursor' = (cursor + 1) % NHistory
  /\ history' = [history EXCEPT ![slot] = s]
  /\ recorded' = Append(recorded, s)

(* A faulty variant: writes at the old cursor. *)
AddToHistoryFirst(s) == RecordAt(cursor, s)

AddToHistory(s) == RecordAt((cursor + 1) % NHistory, s)

(* The slot LoadScrubState reads. *)
ScrubSlot(scrub) == (scrub + cursor) % NHistory

-----------------------------------------------------------------------------
(* Physics. *)

(* Where the ball can be after some steps: a ball that is low may bounce.  *)
BallAfter(ball) == IF ball = "hidden" THEN {"hidden"} ELSE {"up", "low"}

(* Some steps of mj_step, then one record. An unstable simulation resets   *)
(* itself, or, with automatic resets disabled, stops without a record.     *)
StepAndRecord ==
  /\ ~inFrame /\ run
  /\ \/ \E n \in 1..2, ball \in BallAfter(state.ball) :
          /\ state.time + n <= MaxTime
          /\ SetState([time |-> state.time + n, ball |-> ball])
          /\ UNCHANGED moved
     \/ \E ball \in {"up", "low"} : SetState([time |-> 0, ball |-> ball]) /\ moved' = TRUE
  /\ AddToHistory(state')
  /\ UNCHANGED <<run, scrub_index, pending, inFrame, simulation_running, throwVars>>

Diverge ==
  /\ ~inFrame /\ run
  /\ state.time < MaxTime
  /\ \E ball \in BallAfter(state.ball) :
       SetState([time |-> state.time + 1, ball |-> ball])
  /\ run' = FALSE
  /\ UNCHANGED <<historyVars, scrub_index, pending, inFrame, simulation_running, throwVars,
                 moved>>

-----------------------------------------------------------------------------
(* RobotControl. *)

Hide(s) == [s EXCEPT !.ball = "hidden"]

(* What UpdateCatchballThrowMujoco makes of the state and of its own       *)
(* variables: the ball is taken away when it is down or late, and thrown   *)
(* when it is due.                                                         *)
Throw(after) ==
  CASE in_flight /\ (state.ball # "up" \/ state.time - throw_start_time > MaxFlight) ->
         [state |-> Hide(state), flight |-> FALSE, next |-> after, start |-> throw_start_time]
    [] ~in_flight /\ state.time >= next_throw_time ->
         [state |-> [state EXCEPT !.ball = "up"], flight |-> TRUE,
          next |-> next_throw_time, start |-> state.time]
    [] OTHER ->
         [state |-> state, flight |-> in_flight, next |-> next_throw_time,
          start |-> throw_start_time]

(* A faulty variant: counts the delay from the longest possible flight. *)
UpdateCatchballThrowLate == Throw(throw_start_time + MaxFlight + ThrowDelay)

UpdateCatchballThrow == Throw(state.time + ThrowDelay)

(* mj_resetData, then InitCatchballMujoco. *)
InitCatchball(t) ==
  [state |-> [time |-> 0, ball |-> "hidden"], flight |-> FALSE, next |-> ThrowDelay,
   start |-> t.start]

(* One cycle; the key and the button it finds may ask for a reset and for  *)
(* the simulation to be stopped or started.                                *)
RobotControlCycle ==
  \E asks \in SUBSET {"reset", "toggle"} :
    LET thrown == UpdateCatchballThrow
        t == IF "reset" \in asks THEN InitCatchball(thrown) ELSE thrown
    IN /\ ~inFrame
       /\ SetState(t.state)
       /\ in_flight' = t.flight
       /\ next_throw_time' = t.next
       /\ throw_start_time' = t.start
       /\ moved' = (moved /\ t.state = state)
       /\ simulation_running' = (simulation_running # ("toggle" \in asks))
       /\ run' = IF "toggle" \in asks THEN simulation_running' ELSE run
       /\ UNCHANGED <<historyVars, scrub_index, pending, inFrame>>

-----------------------------------------------------------------------------
(* The viewer: PollEvents calls UiEvent, then Sync. *)

BeginFrame ==
  /\ ~inFrame
  /\ inFrame' = TRUE
  /\ UNCHANGED <<state, run, historyVars, scrub_index, pending, simulation_running,
                 throwVars, peak, moved>>

Event == inFrame /\ UNCHANGED <<inFrame, simulation_running, throwVars, moved>>

Ask(request) ==
  /\ Event
  /\ pending' = pending \cup {request}
  /\ UNCHANGED <<state, historyVars, peak>>

ResetButton == Ask("reset") /\ UNCHANGED <<run, scrub_index>>

LoadKeyButton == Ask("load_key") /\ UNCHANGED <<run, scrub_index>>

Scrubber ==
  /\ Ask("load_from_history")
  /\ run' = FALSE
  /\ scrub_index' \in (1 - NHistory)..0

SpaceKey ==
  /\ Event
  /\ run' = ~run
  /\ scrub_index' = IF run' THEN 0 ELSE scrub_index
  /\ UNCHANGED <<state, historyVars, pending, peak>>

(* Step forward: in the scrubber to the next state of the history,         *)
(* otherwise by a step of the simulation.                                  *)
RightKeyScrub ==
  /\ ~run /\ scrub_index < 0
  /\ Ask("load_from_history")
  /\ scrub_index' = scrub_index + 1
  /\ UNCHANGED run

RightKeyStep ==
  /\ Event
  /\ ~run /\ scrub_index >= 0
  /\ state.time < MaxTime
  /\ \E ball \in BallAfter(state.ball) :
       SetState([time |-> state.time + 1, ball |-> ball])
  /\ AddToHistory(state')
  /\ UNCHANGED <<run, scrub_index, pending>>

LeftKey ==
  /\ Ask("load_from_history")
  /\ run' = FALSE
  /\ scrub_index' = Later(scrub_index - 1, 1 - NHistory)

(* The pending requests, in the order of the code. *)
SyncState ==
  LET back == "reset" \in pending
      scrub == IF back THEN 0 ELSE scrub_index
  IN /\ inFrame
     /\ inFrame' = FALSE
     /\ pending' = {}
     /\ scrub_index' = scrub
     /\ IF "load_key" \in pending \/ (back /\ "load_from_history" \notin pending)
        THEN \E ball \in {"up", "low"} : SetState([time |-> 0, ball |-> ball])
        ELSE SetState(IF "load_from_history" \in pending THEN history[ScrubSlot(scrub)]
                      ELSE state)
     /\ moved' = (moved \/ pending # {})
     /\ UNCHANGED <<run, historyVars, simulation_running, throwVars>>

-----------------------------------------------------------------------------
ViewerEvent == BeginFrame \/ ResetButton \/ LoadKeyButton \/ Scrubber \/ SpaceKey
          \/ RightKeyScrub \/ RightKeyStep \/ LeftKey \/ SyncState

ClockNext == StepAndRecord \/ Diverge \/ RobotControlCycle \/ ViewerEvent

ClockSpec == ClockInit /\ [][ClockNext]_clockVars

-----------------------------------------------------------------------------
(* What the clock's users rely on. *)

(* The state recorded k records before the last one, or the first one.     *)
Ago(k) == recorded[Later(1, Len(recorded) - k)]

(* The scrubber shows the past: going back k entries loads the state that  *)
(* was recorded k records ago, also when the ring has wrapped, and the     *)
(* first state beyond the beginning.                                       *)
ScrubShowsPast == \A scrub \in (1 - NHistory)..0 : history[ScrubSlot(scrub)] = Ago(-scrub)

(* A ball is thrown at the latest one delay after the greatest time the    *)
(* simulation has reached: putting the clock back may hold up a throw by   *)
(* no more than what it was put back by.                                   *)
ThrowDue ==
  /\ next_throw_time <= peak + ThrowDelay
  /\ in_flight => throw_start_time <= peak

(* A flying ball is one that the node knows to be in flight, so that the   *)
(* policy is told where it is, unless the viewer or a reset of MuJoCo put  *)
(* the state back behind the node's back.                                  *)
FlightKnown == state.ball = "up" => in_flight \/ moved

(* Enter stops a simulation that runs and starts one that stands           *)
(* ("Enter-SimToggle"). The code breaks this: the viewer's keys and        *)
(* scrubber change run, but not simulation_running.                        *)
EnterToggles == [][simulation_running' # simulation_running => run' # run]_clockVars
=============================================================================
