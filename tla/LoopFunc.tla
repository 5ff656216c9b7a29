------------------------------ MODULE LoopFunc ------------------------------
(***************************************************************************)
(* The periodic loops of a node: LoopFunc's start, loop and shutdown, and  *)
(* the thread that constructs the node, spins, and destroys it, shutting   *)
(* its loops down one after the other.                                     *)
(*                                                                         *)
(* A loop thread alternates between its function, which uses the node, and *)
(* a timed wait on _cv. The thread is detached, so shutdown's join never   *)
(* happens. The mutex, the condition variable and its spurious wake-ups    *)
(* are those of the C++ library. A period is a choice: the timeout of a    *)
(* wait may come at any time, or not before shutdown.                      *)
(***************************************************************************)
EXTENDS Integers, Sequences

CONSTANTS
  Loops,   \* the loops of the node
  Order,   \* the order in which the destructor shuts them down
  MaxCalls \* bound: calls of a loop's function

ASSUME LoopAssumption ==
  /\ Order \in Seq(Loops)
  /\ MaxCalls \in Nat

VARIABLES
  node,      \* "up" until the destructor begins, then "dying", "destroyed"
  started,   \* the loops whose start has been called
  at,        \* the destructor's position in Order
  step,      \* and in LoopFunc::shutdown
  running,   \* _running
  mutex,     \* who holds _mutex: a loop's own thread, the owner, nobody
  pc,        \* where a loop's thread is
  waiting,   \* the threads blocked in _cv.wait_for
  calls,     \* auxiliary: calls of the function
  late       \* auxiliary: of these, calls begun after shutdown cleared _running

vars == <<node, started, at, step, running, mutex, pc, waiting, calls, late>>

TypeOK ==
  /\ node \in {"up", "dying", "destroyed"}
  /\ started \subseteq Loops
  /\ at \in 1..(Len(Order) + 1)
  /\ step \in {"lock", "clear", "join"}
  /\ running \in [Loops -> BOOLEAN]
  /\ mutex \in [Loops -> {"free", "owner", "loop"}]
  /\ pc \in [Loops -> {"none", "while", "begin", "call", "lock", "test", "block", "wait",
                   "expired", "last", "done"}]
  /\ waiting \subseteq Loops
  /\ calls \in [Loops -> 0..MaxCalls]
  /\ late \in [Loops -> 0..MaxCalls]

Init ==
  /\ node = "up"
  /\ started = {}
  /\ at = 1
  /\ step = "lock"
  /\ running = [l \in Loops |-> FALSE]
  /\ mutex = [l \in Loops |-> "free"]
  /\ pc = [l \in Loops |-> "none"]
  /\ waiting = {}
  /\ calls = [l \in Loops |-> 0]
  /\ late = [l \in Loops |-> 0]

-----------------------------------------------------------------------------
(***************************************************************************)
(* The thread that owns the node.                                          *)
(***************************************************************************)

ownerVars == <<node, started, at, step>>

(* start: _running is set before the thread exists; then it is detached. *)
Start(l) ==
  /\ node = "up" /\ l \notin started
  /\ started' = started \cup {l}
  /\ running' = [running EXCEPT ![l] = TRUE]
  /\ pc' = [pc EXCEPT ![l] = "while"]
  /\ UNCHANGED <<node, at, step, mutex, waiting, calls, late>>

(* The spin ends and the node's destructor begins. *)
Destroy ==
  /\ node = "up" /\ started = Loops
  /\ node' = "dying"
  /\ UNCHANGED <<started, at, step, running, mutex, pc, waiting, calls, late>>

(* A faulty variant: _running is cleared without taking the mutex.         *)
ShutdownNoLock ==
  /\ node = "dying" /\ at <= Len(Order) /\ step = "lock"
  /\ step' = "clear"
  /\ UNCHANGED <<node, started, at, running, mutex, pc, waiting, calls, late>>

ShutdownLock ==
  /\ node = "dying" /\ at <= Len(Order) /\ step = "lock"
  /\ mutex[Order[at]] = "free"
  /\ mutex' = [mutex EXCEPT ![Order[at]] = "owner"]
  /\ step' = "clear"
  /\ UNCHANGED <<node, started, at, running, pc, waiting, calls, late>>

(* _running is cleared and _cv notified under the mutex, then released. *)
ShutdownClear ==
  /\ node = "dying" /\ at <= Len(Order) /\ step = "clear"
  /\ running' = [running EXCEPT ![Order[at]] = FALSE]
  /\ waiting' = waiting \ {Order[at]}
  /\ mutex' = [mutex EXCEPT ![Order[at]] = "free"]
  /\ step' = "join"
  /\ UNCHANGED <<node, started, at, pc, calls, late>>

(* A detached thread is not joinable: shutdown returns at once. *)
ShutdownJoin ==
  /\ node = "dying" /\ at <= Len(Order) /\ step = "join"
  /\ at' = at + 1
  /\ step' = "lock"
  /\ UNCHANGED <<node, started, running, mutex, pc, waiting, calls, late>>

(* The destructor returns and the members are destroyed. *)
Destroyed ==
  /\ node = "dying" /\ at > Len(Order)
  /\ node' = "destroyed"
  /\ UNCHANGED <<started, at, step, running, mutex, pc, waiting, calls, late>>

Owner ==
  \/ \E l \in Loops : Start(l)
  \/ Destroy \/ ShutdownLock \/ ShutdownClear \/ ShutdownJoin \/ Destroyed

-----------------------------------------------------------------------------
(***************************************************************************)
(* The thread of loop l.                                                   *)
(***************************************************************************)

(* while (_running)... The bound MaxCalls stops a thread here, where it     *)
(* still sees _running being cleared.                                      *)
While(l) ==
  /\ pc[l] = "while"
  /\ \/ /\ running[l] /\ calls[l] < MaxCalls
        /\ pc' = [pc EXCEPT ![l] = "begin"]
     \/ /\ ~running[l]
        /\ pc' = [pc EXCEPT ![l] = "done"]
  /\ UNCHANGED <<ownerVars, running, mutex, waiting, calls, late>>

(* ...the function is called... *)
Call(l) ==
  /\ pc[l] = "begin"
  /\ pc' = [pc EXCEPT ![l] = "call"]
  /\ calls' = [calls EXCEPT ![l] = @ + 1]
  /\ late' = IF running[l] THEN late ELSE [late EXCEPT ![l] = @ + 1]
  /\ UNCHANGED <<ownerVars, running, mutex, waiting>>

(* A faulty variant: the function is called again without looking.         *)
ReturnUnchecked(l) ==
  /\ pc[l] = "call"
  /\ \E q \in {"begin", "lock"} : pc' = [pc EXCEPT ![l] = q]
  /\ UNCHANGED <<ownerVars, running, mutex, waiting, calls, late>>

(* ...and returns, with its period used up or with time left to wait.      *)
Return(l) ==
  /\ pc[l] = "call"
  /\ \E q \in {"while", "lock"} : pc' = [pc EXCEPT ![l] = q]
  /\ UNCHANGED <<ownerVars, running, mutex, waiting, calls, late>>

(* Before the wait, woken from it, or after its timeout: the mutex is      *)
(* taken, for a test of the predicate.                                     *)
Lock(l) ==
  /\ \/ pc[l] = "lock" /\ pc' = [pc EXCEPT ![l] = "test"]
     \/ pc[l] = "wait" /\ l \notin waiting /\ pc' = [pc EXCEPT ![l] = "test"]
     \/ pc[l] = "expired" /\ pc' = [pc EXCEPT ![l] = "last"]
  /\ mutex[l] = "free"
  /\ mutex' = [mutex EXCEPT ![l] = "loop"]
  /\ UNCHANGED <<ownerVars, running, waiting, calls, late>>

(* wait_for's predicate !_running: true breaks out of the loop; false      *)
(* blocks, or after the timeout goes on to the next period.                *)
Test(l) ==
  /\ \/ /\ pc[l] \in {"test", "last"} /\ ~running[l]
        /\ pc' = [pc EXCEPT ![l] = "done"]
        /\ mutex' = [mutex EXCEPT ![l] = "free"]
     \/ /\ pc[l] = "last" /\ running[l]
        /\ pc' = [pc EXCEPT ![l] = "while"]
        /\ mutex' = [mutex EXCEPT ![l] = "free"]
     \/ /\ pc[l] = "test" /\ running[l]
        /\ pc' = [pc EXCEPT ![l] = "block"]
        /\ UNCHANGED mutex
  /\ UNCHANGED <<ownerVars, running, waiting, calls, late>>

Block(l) ==
  /\ pc[l] = "block"
  /\ pc' = [pc EXCEPT ![l] = "wait"]
  /\ waiting' = waiting \cup {l}
  /\ mutex' = [mutex EXCEPT ![l] = "free"]
  /\ UNCHANGED <<ownerVars, running, calls, late>>

SpuriousWake(l) ==
  /\ l \in waiting
  /\ waiting' = waiting \ {l}
  /\ UNCHANGED <<ownerVars, running, mutex, pc, calls, late>>

Timeout(l) ==
  /\ l \in waiting
  /\ waiting' = waiting \ {l}
  /\ pc' = [pc EXCEPT ![l] = "expired"]
  /\ UNCHANGED <<ownerVars, running, mutex, calls, late>>

Thread(l) == While(l) \/ Call(l) \/ Return(l) \/ Lock(l) \/ Test(l) \/ Block(l)

Next == Owner \/ \E l \in Loops : Thread(l) \/ SpuriousWake(l) \/ Timeout(l)

Spec == Init /\ [][Next]_vars

(* Every thread runs and gets the mutex of its own loop in the end, for    *)
(* nobody else wants it for long. Nothing is assumed about timeouts.       *)
FairSpec == Spec /\ WF_vars(Owner) /\ \A l \in Loops : WF_vars(Thread(l))

-----------------------------------------------------------------------------
(***************************************************************************)
(* Properties.                                                             *)
(***************************************************************************)

(* Once shutdown has cleared _running, the loop begins its function at     *)
(* most once more (it had already passed the while).                       *)
AtMostOneLateCall == \A l \in Loops : late[l] <= 1

(* No lost wake-up: shutdown leaves no thread blocked in its wait.         *)
NoLostWakeup == \A l \in waiting : running[l]

(* So a loop that is shut down ends without waiting for the end of its     *)
(* period, whatever its function is doing when shutdown is called.         *)
LoopEnds ==
  \A l \in Loops : (l \in started /\ ~running[l] ~> pc[l] = "done")

(* shutdown (loop.hpp:56-60) joins the thread and then reports "Loop end". *)
EndedWhenShutdownReturns == \A i \in 1..(at - 1) : pc[Order[i]] = "done"

-----------------------------------------------------------------------------
(***************************************************************************)
(* The inductive invariant.                                                *)
(***************************************************************************)

(* The loop's thread holds the mutex exactly around its tests, the owner   *)
(* only between the two steps of shutdown.                                 *)
MutexInv ==
  /\ node = "up" => step = "lock"
  /\ \A l \in Loops :
       /\ mutex[l] = "loop" <=> pc[l] \in {"test", "last", "block"}
       /\ mutex[l] = "owner" <=> /\ node = "dying" /\ at <= Len(Order)
                                 /\ step = "clear" /\ l = Order[at]

(* What a blocked thread has seen of _running is still true; a late call   *)
(* is the last.                                                            *)
RunningInv ==
  \A l \in Loops :
    /\ pc[l] = "none" <=> l \notin started
    /\ pc[l] = "none" => ~running[l] /\ late[l] = 0
    /\ pc[l] = "block" => running[l]
    /\ l \in waiting => pc[l] = "wait"
    /\ late[l] > 0 => ~running[l] /\ pc[l] # "begin"
    /\ pc[l] = "begin" => calls[l] < MaxCalls
    /\ late[l] <= calls[l]

IInv ==
  /\ TypeOK /\ MutexInv /\ RunningInv /\ NoLostWakeup /\ AtMostOneLateCall
  /\ node # "up" => started = Loops
=============================================================================
