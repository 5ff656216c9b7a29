----------------------------- MODULE MujocoSim -----------------------------
(***************************************************************************)
(* The threads of the MuJoCo node and the model they share.                *)
(*                                                                         *)
(*   main     constructs the node, runs the viewer (Simulate::RenderLoop)  *)
(*            and destroys the node (rl_sim_mujoco.cpp, simulate.cc);      *)
(*   physics  PhysicsThread: loads, reloads, steps and frees the model     *)
(*            (mujoco_utils.hpp);                                          *)
(*   control  loop_control: RobotControl, the whole cycle under sim->mtx;  *)
(*   policy   loop_rl: RunModel under policy_mutex.                        *)
(*                                                                         *)
(* A model and its data are allocated, swapped and freed together: the     *)
(* pair (m, d) is the number of the load that made it, 0 is nullptr. The   *)
(* thread that loads hands the pair to the viewer through loadrequest      *)
(* (3 message shown, 2 requested, 1 next frame, 0 done).                   *)
(***************************************************************************)
EXTENDS Naturals, FiniteSets

CONSTANTS
  CatchballPolicies, \* whether the policy in use may have config_name "catchball"
  MaxRequests        \* bound: files dropped and reloads asked for

ASSUME MujocoAssumption ==
  /\ CatchballPolicies \subseteq BOOLEAN
  /\ MaxRequests \in Nat

VARIABLES
  pcMain, pcPhysics, pcControl, pcPolicy, \* where each thread is
  mtx,             \* who holds Simulate::mtx
  policyMutex,     \* who holds RL::policy_mutex
  loadrequest, droploadrequest, uiloadrequest, exitrequest, \* of Simulate
  job,             \* which of its three load sequences physics is in
  d,               \* the globals m and d, of physics
  dnew,            \* the locals mnew and dnew, of physics
  viewerNew,       \* Simulate::mnew_, dnew_
  viewer,          \* Simulate::m_, d_
  mj_data,         \* RL_Sim::mj_model, mj_data
  running,         \* LoopFunc::_running of the node's loops
  catchball,       \* the policy in use has config_name "catchball"
  loaded,          \* auxiliary: pairs allocated so far
  live,            \* auxiliary: the pairs allocated and not yet freed
  requests         \* auxiliary: files dropped and reloads asked for

loadVars == <<d, dnew, loaded, live, job>>
viewerVars == <<viewerNew, viewer>>
requestVars == <<droploadrequest, uiloadrequest, requests>>
nodeVars == <<mj_data, running, catchball>>
loopPcs == <<pcControl, pcPolicy>>
vars == <<pcMain, pcPhysics, loopPcs, mtx, policyMutex, loadrequest, exitrequest,
          loadVars, viewerVars, requestVars, nodeVars>>

Jobs == {"boot", "drop", "reload"}

TypeOK ==
  /\ pcMain \in {"waitData", "construct", "loop", "frame", "events", "spin", "sync",
                 "render", "leave", "destroy", "done"}
  /\ pcPhysics \in {"message", "model", "request", "wait", "swap", "clear", "top",
                    "ui", "step", "deleted"}
  /\ pcControl \in {"unborn", "idle", "call", "cycle", "init", "loading", "command", "ended"}
  /\ pcPolicy \in {"unborn", "idle", "call", "check", "ball", "observe", "forward", "ended"}
  /\ mtx \in {"free", "main", "control", "policy"}
  /\ policyMutex \in {"free", "control", "policy"}
  /\ loadrequest \in 0..3
  /\ droploadrequest \in BOOLEAN
  /\ uiloadrequest \in Nat
  /\ exitrequest \in 0..2
  /\ job \in Jobs
  /\ d \in Nat /\ dnew \in Nat /\ viewerNew \in Nat /\ viewer \in Nat /\ mj_data \in Nat
  /\ running \in BOOLEAN /\ catchball \in BOOLEAN
  /\ loaded \in Nat
  /\ live \subseteq Nat
  /\ requests \in Nat

(* The constructor has created the viewer and started the physics thread. *)
Init ==
  /\ pcMain = "waitData" /\ pcPhysics = "message"
  /\ pcControl = "unborn" /\ pcPolicy = "unborn"
  /\ mtx = "free" /\ policyMutex = "free"
  /\ loadrequest = 0 /\ droploadrequest = FALSE /\ uiloadrequest = 0 /\ exitrequest = 0
  /\ job = "boot"
  /\ d = 0 /\ dnew = 0 /\ viewerNew = 0 /\ viewer = 0 /\ mj_data = 0
  /\ running = TRUE /\ catchball \in CatchballPolicies
  /\ loaded = 0 /\ live = {} /\ requests = 0

-----------------------------------------------------------------------------
(* Physics: load a model, show it, step it. *)

(* Whatever the load was for, physics goes on with the part of its loop    *)
(* that comes next.                                                        *)
AfterLoad == [boot |-> "top", drop |-> "ui", reload |-> "step"]

LoadMessage ==
  /\ pcPhysics = "message" /\ mtx = "free"
  /\ loadrequest' = 3
  /\ pcPhysics' = "model"
  /\ UNCHANGED <<pcMain, loopPcs, mtx, policyMutex, exitrequest, loadVars, viewerVars,
                 requestVars, nodeVars>>

(* The first model is published in the globals at once; a later one only   *)
(* when the viewer has it. Compiling a file may fail.                      *)
LoadModel ==
  /\ pcPhysics = "model"
  /\ job = "boot" => mtx = "free"
  /\ droploadrequest' = (droploadrequest /\ job # "drop")
  /\ \/ /\ loaded' = loaded + 1
        /\ live' = live \cup {loaded'}
        /\ dnew' = loaded'
        /\ d' = IF job = "boot" THEN loaded' ELSE d
        /\ pcPhysics' = "request"
     \/ /\ pcPhysics' = "clear"
        /\ UNCHANGED <<loaded, live, dnew, d>>
  /\ UNCHANGED <<pcMain, loopPcs, mtx, policyMutex, loadrequest, exitrequest, job,
                 viewerVars, uiloadrequest, requests, nodeVars>>

Load ==
  /\ pcPhysics = "request" /\ mtx = "free"
  /\ viewerNew' = dnew
  /\ loadrequest' = 2
  /\ pcPhysics' = "wait"
  /\ UNCHANGED <<pcMain, loopPcs, mtx, policyMutex, exitrequest, loadVars, viewer,
                 requestVars, nodeVars>>

LoadDone ==
  /\ pcPhysics = "wait" /\ mtx = "free" /\ loadrequest = 0
  /\ pcPhysics' = "swap"
  /\ UNCHANGED <<pcMain, loopPcs, mtx, policyMutex, loadrequest, exitrequest, loadVars,
                 viewerVars, requestVars, nodeVars>>

UseNew(freed) ==
  /\ pcPhysics = "swap" /\ mtx = "free"
  /\ live' = live \ freed
  /\ d' = dnew
  /\ dnew' = 0
  /\ pcPhysics' = AfterLoad[job]
  /\ UNCHANGED <<pcMain, loopPcs, mtx, policyMutex, loadrequest, exitrequest, loaded, job,
                 viewerVars, requestVars, nodeVars>>

(* Faulty variants: the globals are freed after the first load too; never. *)
SwapEager == UseNew({d})
SwapLeaking == UseNew({})

(* Free the old pair and use the new one; the first load replaces nothing. *)
Swap == UseNew(IF job = "boot" THEN {} ELSE {d})

LoadMessageClear ==
  /\ pcPhysics = "clear" /\ mtx = "free"
  /\ loadrequest' = 0
  /\ pcPhysics' = AfterLoad[job]
  /\ UNCHANGED <<pcMain, loopPcs, mtx, policyMutex, exitrequest, loadVars, viewerVars,
                 requestVars, nodeVars>>

PhysicsLoop ==
  /\ pcPhysics = "top"
  /\ exitrequest = 0
  /\ pcPhysics' = IF droploadrequest THEN "message" ELSE "ui"
  /\ job' = IF droploadrequest THEN "drop" ELSE job
  /\ UNCHANGED <<pcMain, loopPcs, mtx, policyMutex, loadrequest, exitrequest, d, dnew,
                 loaded, live, viewerVars, requestVars, nodeVars>>

UiLoad ==
  /\ pcPhysics = "ui"
  /\ IF uiloadrequest > 0
     THEN uiloadrequest' = uiloadrequest - 1 /\ pcPhysics' = "message" /\ job' = "reload"
     ELSE pcPhysics' = "step" /\ UNCHANGED <<uiloadrequest, job>>
  /\ UNCHANGED <<pcMain, loopPcs, mtx, policyMutex, loadrequest, exitrequest, d, dnew,
                 loaded, live, viewerVars, droploadrequest, requests, nodeVars>>

(* One section under the mutex: steps d, or computes its forward dynamics, *)
(* and records the viewer's d_ in the history.                             *)
Step ==
  /\ pcPhysics = "step" /\ mtx = "free"
  /\ pcPhysics' = "top"
  /\ UNCHANGED <<pcMain, loopPcs, mtx, policyMutex, loadrequest, exitrequest, loadVars,
                 viewerVars, requestVars, nodeVars>>

(* The thread ends: m and d are freed without the mutex. *)
DeleteAll ==
  /\ pcPhysics = "top"
  /\ exitrequest # 0
  /\ live' = live \ {d}
  /\ pcPhysics' = "deleted"
  /\ UNCHANGED <<pcMain, loopPcs, mtx, policyMutex, loadrequest, exitrequest, d, dnew,
                 loaded, job, viewerVars, requestVars, nodeVars>>

-----------------------------------------------------------------------------
(* Main: construct the node, run the viewer, destroy the node. *)

(* The constructor waits for the first data and keeps a copy of m and d. *)
WaitData ==
  /\ pcMain = "waitData"
  /\ d # 0
  /\ mj_data' = d
  /\ pcMain' = "construct"
  /\ UNCHANGED <<pcPhysics, loopPcs, mtx, policyMutex, loadrequest, exitrequest, loadVars,
                 viewerVars, requestVars, running, catchball>>

StartLoops ==
  /\ pcMain = "construct"
  /\ pcControl' = "idle" /\ pcPolicy' = "idle"
  /\ pcMain' = "loop"
  /\ UNCHANGED <<pcPhysics, mtx, policyMutex, loadrequest, exitrequest, loadVars,
                 viewerVars, requestVars, nodeVars>>

RenderLoop ==
  /\ pcMain = "loop"
  /\ exitrequest = 0
  /\ mtx = "free"
  /\ mtx' = "main"
  /\ pcMain' = "frame"
  /\ UNCHANGED <<pcPhysics, loopPcs, policyMutex, loadrequest, exitrequest, loadVars,
                 viewerVars, requestVars, nodeVars>>

Frame(next) ==
  /\ pcMain = "frame"
  /\ IF loadrequest = 1
     THEN viewer' = viewerNew /\ viewerNew' = 0 /\ loadrequest' = 0
     ELSE /\ loadrequest' = IF loadrequest = 2 THEN next ELSE loadrequest
          /\ UNCHANGED viewerVars
  /\ pcMain' = "events"
  /\ UNCHANGED <<pcPhysics, loopPcs, mtx, policyMutex, exitrequest, loadVars,
                 requestVars, nodeVars>>

(* A faulty variant: shows the label for ever. *)
LoadOnRenderThreadLabel == Frame(2)

(* Not on the first pass, to show the "loading" label. *)
LoadOnRenderThread == Frame(1)

(* Events are handled while main holds mtx, any number in one frame. A     *)
(* second file that is dropped waits, busily, for physics to have read the *)
(* first.                                                                  *)
FilesDrop ==
  /\ pcMain = "events"
  /\ requests < MaxRequests
  /\ requests' = requests + 1
  /\ pcMain' = IF droploadrequest THEN "spin" ELSE "events"
  /\ droploadrequest' = TRUE
  /\ UNCHANGED <<pcPhysics, loopPcs, mtx, policyMutex, loadrequest, exitrequest, loadVars,
                 viewerVars, uiloadrequest, nodeVars>>

DropSpin ==
  /\ pcMain = "spin"
  /\ ~droploadrequest
  /\ droploadrequest' = TRUE
  /\ pcMain' = "events"
  /\ UNCHANGED <<pcPhysics, loopPcs, mtx, policyMutex, loadrequest, exitrequest, loadVars,
                 viewerVars, uiloadrequest, requests, nodeVars>>

Reload ==
  /\ pcMain = "events"
  /\ requests < MaxRequests
  /\ requests' = requests + 1
  /\ uiloadrequest' = uiloadrequest + 1
  /\ UNCHANGED <<pcMain, pcPhysics, loopPcs, mtx, policyMutex, loadrequest, exitrequest,
                 loadVars, viewerVars, droploadrequest, nodeVars>>

Quit ==
  /\ pcMain = "events"
  /\ exitrequest' = 1
  /\ UNCHANGED <<pcMain, pcPhysics, loopPcs, mtx, policyMutex, loadrequest, loadVars,
                 viewerVars, requestVars, nodeVars>>

(* Sync returns at once without a model or when the viewer is to exit;     *)
(* otherwise it reads and writes d_.                                       *)
EventsDone ==
  /\ pcMain = "events"
  /\ IF viewer # 0 /\ exitrequest = 0
     THEN pcMain' = "sync" /\ UNCHANGED mtx
     ELSE pcMain' = "render" /\ mtx' = "free"
  /\ UNCHANGED <<pcPhysics, loopPcs, policyMutex, loadrequest, exitrequest, loadVars,
                 viewerVars, requestVars, nodeVars>>

Sync ==
  /\ pcMain = "sync"
  /\ mtx' = "free"
  /\ pcMain' = "render"
  /\ UNCHANGED <<pcPhysics, loopPcs, policyMutex, loadrequest, exitrequest, loadVars,
                 viewerVars, requestVars, nodeVars>>

Render ==
  /\ pcMain = "render"
  /\ pcMain' = "loop"
  /\ UNCHANGED <<pcPhysics, loopPcs, mtx, policyMutex, loadrequest, exitrequest, loadVars,
                 viewerVars, requestVars, nodeVars>>

LeaveLoop ==
  /\ pcMain = "loop"
  /\ exitrequest # 0
  /\ pcMain' = "leave"
  /\ UNCHANGED <<pcPhysics, loopPcs, mtx, policyMutex, loadrequest, exitrequest, loadVars,
                 viewerVars, requestVars, nodeVars>>

CloseWindow ==
  /\ pcMain = "loop"
  /\ pcMain' = "leave"
  /\ UNCHANGED <<pcPhysics, loopPcs, mtx, policyMutex, loadrequest, exitrequest, loadVars,
                 viewerVars, requestVars, nodeVars>>

RenderLoopEnd ==
  /\ pcMain = "leave" /\ mtx = "free"
  /\ exitrequest' = 2
  /\ pcMain' = "destroy"
  /\ UNCHANGED <<pcPhysics, loopPcs, mtx, policyMutex, loadrequest, loadVars, viewerVars,
                 requestVars, nodeVars>>

(* The destructor shuts the loops down; their threads are detached, it     *)
(* does not wait for them.                                                 *)
Destroy ==
  /\ pcMain = "destroy"
  /\ running' = FALSE
  /\ pcMain' = "done"
  /\ UNCHANGED <<pcPhysics, loopPcs, mtx, policyMutex, loadrequest, exitrequest, loadVars,
                 viewerVars, requestVars, mj_data, catchball>>

(* Ctrl+C, on whatever thread, as long as the node exists. *)
Signal ==
  /\ pcMain \notin {"destroy", "done"}
  /\ exitrequest' = 1
  /\ UNCHANGED <<pcMain, pcPhysics, loopPcs, mtx, policyMutex, loadrequest, loadVars,
                 viewerVars, requestVars, nodeVars>>

-----------------------------------------------------------------------------
(* Control: RobotControl, all of it under mtx. *)

ControlVars == <<pcMain, pcPhysics, pcPolicy, loadrequest, exitrequest, loadVars,
                 viewerVars, requestVars, nodeVars>>

ControlTest ==
  /\ pcControl = "idle"
  /\ pcControl' = IF running THEN "call" ELSE "ended"
  /\ UNCHANGED <<ControlVars, mtx, policyMutex>>

RobotControl ==
  /\ pcControl = "call" /\ mtx = "free"
  /\ mtx' = "control"
  /\ pcControl' = "cycle"
  /\ UNCHANGED <<ControlVars, policyMutex>>

(* Entering an RL state calls InitRL. *)
EnterRL ==
  /\ pcControl = "cycle"
  /\ pcControl' = "init"
  /\ UNCHANGED <<ControlVars, mtx, policyMutex>>

InitRL ==
  /\ pcControl = "init" /\ policyMutex = "free"
  /\ policyMutex' = "control"
  /\ pcControl' = "loading"
  /\ UNCHANGED <<ControlVars, mtx>>

InitRLDone ==
  /\ pcControl = "loading"
  /\ policyMutex' = "free"
  /\ pcControl' = "command"
  /\ UNCHANGED <<ControlVars, mtx>>

(* A cycle that loaded no policy goes straight on to SetCommand. *)
RobotControlEnd ==
  /\ pcControl \in {"cycle", "command"}
  /\ mtx' = "free"
  /\ pcControl' = "idle"
  /\ UNCHANGED <<ControlVars, policyMutex>>

-----------------------------------------------------------------------------
(* Policy: RunModel, all of it under policy_mutex. *)

PolicyVars == <<pcMain, pcPhysics, pcControl, loadrequest, exitrequest, loadVars,
                viewerVars, requestVars, nodeVars>>

PolicyTest ==
  /\ pcPolicy = "idle"
  /\ pcPolicy' = IF running THEN "call" ELSE "ended"
  /\ UNCHANGED <<PolicyVars, mtx, policyMutex>>

RunModel ==
  /\ pcPolicy = "call" /\ policyMutex = "free"
  /\ policyMutex' = "policy"
  /\ pcPolicy' = "check"
  /\ UNCHANGED <<PolicyVars, mtx>>

(* Nothing to do unless a policy is ready and the simulation runs. *)
RunModelSkip ==
  /\ pcPolicy = "check"
  /\ policyMutex' = "free"
  /\ pcPolicy' = "idle"
  /\ UNCHANGED <<PolicyVars, mtx>>

Observe(next) ==
  /\ pcPolicy = "check"
  /\ pcPolicy' = next
  /\ UNCHANGED <<PolicyVars, mtx, policyMutex>>

(* A faulty variant: reads the ball for every policy. *)
RunModelReadyAlways == Observe("ball")

RunModelReady == Observe(IF catchball THEN "ball" ELSE "forward")

LockBall ==
  /\ pcPolicy = "ball" /\ mtx = "free"
  /\ mtx' = "policy"
  /\ pcPolicy' = "observe"
  /\ UNCHANGED <<PolicyVars, policyMutex>>

UpdateBall ==
  /\ pcPolicy = "observe"
  /\ mtx' = "free"
  /\ pcPolicy' = "forward"
  /\ UNCHANGED <<PolicyVars, policyMutex>>

RunModelEnd ==
  /\ pcPolicy = "forward"
  /\ policyMutex' = "free"
  /\ pcPolicy' = "idle"
  /\ UNCHANGED <<PolicyVars, mtx>>

-----------------------------------------------------------------------------
Physics == LoadMessage \/ LoadModel \/ Load \/ LoadDone \/ Swap \/ LoadMessageClear
           \/ PhysicsLoop \/ UiLoad \/ Step \/ DeleteAll
Viewer == WaitData \/ StartLoops \/ RenderLoop \/ LoadOnRenderThread \/ DropSpin
          \/ EventsDone \/ Sync \/ Render \/ LeaveLoop \/ RenderLoopEnd \/ Destroy
User == FilesDrop \/ Reload \/ Quit \/ CloseWindow \/ Signal
Control == ControlTest \/ RobotControl \/ EnterRL \/ InitRL \/ InitRLDone \/ RobotControlEnd
Policy == PolicyTest \/ RunModel \/ RunModelSkip \/ RunModelReady \/ LockBall
          \/ UpdateBall \/ RunModelEnd

Next == Physics \/ Viewer \/ User \/ Control \/ Policy

Spec == Init /\ [][Next]_vars

(* The scheduler runs every thread that can go on. A mutex is free again   *)
(* and again (the loops sleep between two cycles, physics and the viewer   *)
(* between two sections), so a thread that waits for one gets it in the    *)
(* end: strong fairness. The user owes nothing.                            *)
FairSpec == Spec /\ SF_vars(Physics) /\ SF_vars(Viewer) /\ SF_vars(Control) /\ SF_vars(Policy)

-----------------------------------------------------------------------------
(* What the threads rely on. *)

(* While the viewer synchronises with its model, nobody has freed it: the  *)
(* old pair is freed only after LoadOnRenderThread has let go of it. Only  *)
(* the end of the physics thread breaks this.                              *)
ViewerLive == pcMain = "sync" /\ pcPhysics # "deleted" => viewer \in live

(* The pair that physics steps is the one whose state the viewer records   *)
(* in its history and shows.                                               *)
SameModel == pcPhysics = "step" => viewer = d

(* Every pair that is allocated is one that physics still holds and will   *)
(* free: reloads that succeed or fail leave nothing behind.                *)
NothingLeaked == pcPhysics # "deleted" => live \subseteq {d, dnew}

InCycle == pcControl \in {"cycle", "init", "loading", "command"}

(* The node's copy of the pointers is good until another model is loaded   *)
(* or the physics thread has ended.                                        *)
FirstModelSafe == InCycle /\ loaded = 1 /\ pcPhysics # "deleted" => mj_data \in live

(* A control cycle never works on freed data while the node is up. The     *)
(* code breaks this: a reload frees what mj_data points to.                *)
NodeLive == InCycle /\ exitrequest = 0 => mj_data \in live

(* A control cycle that has the simulation ends: InitRL inside it is not   *)
(* kept waiting for policy_mutex by a RunModel that waits for sim->mtx. A  *)
(* catch-ball policy breaks this: both threads would wait for ever.        *)
CycleEnds == ~catchball /\ mtx = "control" ~> mtx # "control"

(* Physics is not kept waiting by the viewer for ever, except when a       *)
(* second file is dropped before the first was read, at exit, or when the  *)
(* node's own threads block each other (CycleEnds).                        *)
LoadCompletes ==
  ~catchball /\ pcPhysics = "wait"
    ~> pcPhysics # "wait" \/ pcMain = "spin" \/ exitrequest # 0

(* "Received signal ..., exiting...": after Ctrl+C the program ends. *)
SignalExits == exitrequest = 1 ~> pcMain = "done"

-----------------------------------------------------------------------------
(* The inductive invariant. *)

MutexInv ==
  /\ mtx = "main" <=> pcMain \in {"frame", "events", "spin", "sync"}
  /\ mtx = "control" <=> InCycle
  /\ mtx = "policy" <=> pcPolicy = "observe"
  /\ policyMutex = "control" <=> pcControl = "loading"
  /\ policyMutex = "policy" <=> pcPolicy \in {"check", "ball", "observe", "forward"}

(* What a load has done so far. *)
LoadInv ==
  /\ loadrequest \in CASE pcPhysics \in {"model", "request", "clear"} -> {3}
                       [] pcPhysics = "wait" -> {0, 1, 2}
                       [] OTHER -> {0}
  /\ dnew # 0 <=> pcPhysics \in {"request", "wait", "swap"}
  /\ dnew # 0 => dnew = loaded
  /\ d <= loaded
  /\ job = "boot" => loaded <= IF pcPhysics \in {"message", "model"} THEN 0 ELSE 1
  /\ job = "boot" /\ dnew # 0 => d = dnew
  /\ job # "boot" /\ dnew # 0 => d # dnew
  /\ pcPhysics # "deleted" => live = {d, dnew} \ {0}

(* Which pair the viewer has. *)
ViewerInv ==
  LET before == IF job = "boot" /\ dnew # 0 THEN 0 ELSE d
      taken == pcPhysics = "swap" \/ (pcPhysics = "wait" /\ loadrequest = 0)
  IN /\ viewer = IF taken THEN dnew ELSE before
     /\ pcPhysics = "wait" /\ loadrequest # 0 => viewerNew = dnew
     /\ pcMain = "sync" => viewer # 0

NodeInv ==
  /\ pcMain = "waitData" => requests = 0 /\ ~droploadrequest /\ uiloadrequest = 0
                            /\ job = "boot" /\ viewer = 0
  /\ pcMain \in {"waitData", "construct"} => pcControl = "unborn" /\ pcPolicy = "unborn"
  /\ pcMain # "waitData" => mj_data = 1 /\ d # 0

IInv == TypeOK /\ MutexInv /\ LoadInv /\ ViewerInv /\ NodeInv
=============================================================================
