---------------------------- MODULE MujocoProofs ----------------------------
(***************************************************************************)
(* The MuJoCo node. First its memory, for any number of reloads            *)
(* (MujocoSim); then its clock, the throws and the viewer's history, for   *)
(* any delay, any length of the ring and any number of records (SimClock); *)
(* last the presses of a joystick's buttons, for any buttons (SysJoystick).*)
(* The three share no state: what SimClock does happens under the mutex    *)
(* that MujocoSim shows to be held.                                        *)
(***************************************************************************)
EXTENDS MujocoSim, SimClock, SysJoystick, WellFoundedInduction, TLAPS

(* Every step of every thread keeps the types. *)
LEMMA TypeStep ==
  ASSUME TypeOK, [Next]_vars
  PROVE  TypeOK'
<1> USE DEF TypeOK, Jobs, loadVars, viewerVars, requestVars, nodeVars, loopPcs
<1>1. CASE LoadMessage
  BY <1>1 DEF LoadMessage
<1>2. CASE LoadModel
  <2>1. droploadrequest' \in BOOLEAN
    BY <1>2, Zenon DEF LoadModel
  <2>5. loaded' \in Nat
    BY <1>2 DEF LoadModel
  <2>6. dnew' \in {loaded', dnew}
    BY <1>2 DEF LoadModel
  <2>7. live' \subseteq live \cup {loaded'}
    BY <1>2 DEF LoadModel
  <2>2. loaded' \in Nat /\ live' \subseteq Nat /\ dnew' \in Nat
    BY <2>5, <2>6, <2>7
  <2>3. d' \in Nat /\ pcPhysics' \in {"request", "clear"}
    BY <1>2 DEF LoadModel
  <2>4. UNCHANGED <<pcMain, loopPcs, mtx, policyMutex, loadrequest, exitrequest, job,
                    viewerVars, uiloadrequest, requests, nodeVars>>
    BY <1>2 DEF LoadModel
  <2> QED
    BY <2>1, <2>2, <2>3, <2>4
<1>3. CASE Load
  BY <1>3 DEF Load
<1>4. CASE LoadDone
  BY <1>4 DEF LoadDone
<1>5. CASE Swap
  BY <1>5 DEF Swap, UseNew, AfterLoad
<1>6. CASE LoadMessageClear
  BY <1>6 DEF LoadMessageClear, AfterLoad
<1>7. CASE PhysicsLoop
  BY <1>7 DEF PhysicsLoop
<1>8. CASE UiLoad
  BY <1>8 DEF UiLoad
<1>9. CASE Step
  BY <1>9 DEF Step
<1>10. CASE DeleteAll
  BY <1>10 DEF DeleteAll
<1>11. CASE WaitData
  BY <1>11 DEF WaitData
<1>12. CASE StartLoops
  BY <1>12 DEF StartLoops
<1>13. CASE RenderLoop
  BY <1>13 DEF RenderLoop
<1>14. CASE LoadOnRenderThread
  BY <1>14 DEF LoadOnRenderThread, Frame
<1>15. CASE DropSpin
  BY <1>15 DEF DropSpin
<1>16. CASE EventsDone
  BY <1>16 DEF EventsDone
<1>17. CASE Sync
  BY <1>17 DEF Sync
<1>18. CASE Render
  BY <1>18 DEF Render
<1>19. CASE LeaveLoop
  BY <1>19 DEF LeaveLoop
<1>20. CASE RenderLoopEnd
  BY <1>20 DEF RenderLoopEnd
<1>21. CASE Destroy
  <2>1. running' \in BOOLEAN
    BY <1>21, Zenon DEF Destroy
  <2> QED
    BY <1>21, <2>1 DEF Destroy
<1>22. CASE FilesDrop
  BY <1>22 DEF FilesDrop
<1>23. CASE Reload
  BY <1>23 DEF Reload
<1>24. CASE Quit
  BY <1>24 DEF Quit
<1>25. CASE CloseWindow
  BY <1>25 DEF CloseWindow
<1>26. CASE Signal
  BY <1>26 DEF Signal
<1>27. CASE ControlTest
  BY <1>27 DEF ControlTest, ControlVars
<1>28. CASE RobotControl
  BY <1>28 DEF RobotControl, ControlVars
<1>29. CASE EnterRL
  BY <1>29 DEF EnterRL, ControlVars
<1>30. CASE InitRL
  BY <1>30 DEF InitRL, ControlVars
<1>31. CASE InitRLDone
  BY <1>31 DEF InitRLDone, ControlVars
<1>32. CASE RobotControlEnd
  BY <1>32 DEF RobotControlEnd, ControlVars
<1>33. CASE PolicyTest
  BY <1>33 DEF PolicyTest, PolicyVars
<1>34. CASE RunModel
  BY <1>34 DEF RunModel, PolicyVars
<1>35. CASE RunModelSkip
  BY <1>35 DEF RunModelSkip, PolicyVars
<1>36. CASE RunModelReady
  BY <1>36 DEF RunModelReady, Observe, PolicyVars
<1>37. CASE LockBall
  BY <1>37 DEF LockBall, PolicyVars
<1>38. CASE UpdateBall
  BY <1>38 DEF UpdateBall, PolicyVars
<1>39. CASE RunModelEnd
  BY <1>39 DEF RunModelEnd, PolicyVars
<1>40. CASE UNCHANGED vars
  BY <1>40 DEF vars
<1>41. QED
  BY <1>1, <1>2, <1>3, <1>4, <1>5, <1>6, <1>7, <1>8, <1>9, <1>10, <1>11, <1>12, <1>13, <1>14,
     <1>15, <1>16, <1>17, <1>18, <1>19, <1>20, <1>21, <1>22, <1>23, <1>24, <1>25, <1>26, <1>27,
     <1>28, <1>29, <1>30, <1>31, <1>32, <1>33, <1>34, <1>35, <1>36, <1>37, <1>38, <1>39, <1>40
     DEF Next, Physics, Viewer, User, Control, Policy

(* A mutex is held by the thread whose place says so. *)
LEMMA MutexStep ==
  ASSUME TypeOK, MutexInv, NodeInv, [Next]_vars
  PROVE  MutexInv'
<1> USE DEF MutexInv, InCycle, NodeInv, loadVars, viewerVars, requestVars, nodeVars, loopPcs
<1>1. CASE LoadMessage
  BY <1>1 DEF LoadMessage
<1>2. CASE LoadModel
  BY <1>2 DEF LoadModel
<1>3. CASE Load
  BY <1>3 DEF Load
<1>4. CASE LoadDone
  BY <1>4 DEF LoadDone
<1>5. CASE Swap
  BY <1>5 DEF Swap, UseNew, AfterLoad
<1>6. CASE LoadMessageClear
  BY <1>6 DEF LoadMessageClear, AfterLoad
<1>7. CASE PhysicsLoop
  BY <1>7 DEF PhysicsLoop
<1>8. CASE UiLoad
  BY <1>8 DEF UiLoad
<1>9. CASE Step
  BY <1>9 DEF Step
<1>10. CASE DeleteAll
  BY <1>10 DEF DeleteAll
<1>11. CASE WaitData
  BY <1>11 DEF WaitData
<1>12. CASE StartLoops
  <2>1. pcControl = "unborn" /\ pcPolicy = "unborn"
    BY <1>12 DEF StartLoops
  <2> QED
    BY <1>12, <2>1 DEF StartLoops
<1>13. CASE RenderLoop
  BY <1>13 DEF RenderLoop
<1>14. CASE LoadOnRenderThread
  BY <1>14 DEF LoadOnRenderThread, Frame
<1>15. CASE DropSpin
  BY <1>15 DEF DropSpin
<1>16. CASE EventsDone
  BY <1>16 DEF EventsDone
<1>17. CASE Sync
  BY <1>17 DEF Sync
<1>18. CASE Render
  BY <1>18 DEF Render
<1>19. CASE LeaveLoop
  BY <1>19 DEF LeaveLoop
<1>20. CASE RenderLoopEnd
  BY <1>20 DEF RenderLoopEnd
<1>21. CASE Destroy
  BY <1>21 DEF Destroy
<1>22. CASE FilesDrop
  BY <1>22 DEF FilesDrop
<1>23. CASE Reload
  BY <1>23 DEF Reload
<1>24. CASE Quit
  BY <1>24 DEF Quit
<1>25. CASE CloseWindow
  BY <1>25 DEF CloseWindow
<1>26. CASE Signal
  BY <1>26 DEF Signal
<1>27. CASE ControlTest
  BY <1>27 DEF ControlTest, ControlVars
<1>28. CASE RobotControl
  BY <1>28 DEF RobotControl, ControlVars
<1>29. CASE EnterRL
  BY <1>29 DEF EnterRL, ControlVars
<1>30. CASE InitRL
  BY <1>30 DEF InitRL, ControlVars
<1>31. CASE InitRLDone
  BY <1>31 DEF InitRLDone, ControlVars
<1>32. CASE RobotControlEnd
  BY <1>32 DEF RobotControlEnd, ControlVars
<1>33. CASE PolicyTest
  BY <1>33 DEF PolicyTest, PolicyVars
<1>34. CASE RunModel
  BY <1>34 DEF RunModel, PolicyVars
<1>35. CASE RunModelSkip
  BY <1>35 DEF RunModelSkip, PolicyVars
<1>36. CASE RunModelReady
  BY <1>36 DEF RunModelReady, Observe, PolicyVars
<1>37. CASE LockBall
  BY <1>37 DEF LockBall, PolicyVars
<1>38. CASE UpdateBall
  BY <1>38 DEF UpdateBall, PolicyVars
<1>39. CASE RunModelEnd
  BY <1>39 DEF RunModelEnd, PolicyVars
<1>40. CASE UNCHANGED vars
  BY <1>40 DEF vars
<1>41. QED
  BY <1>1, <1>2, <1>3, <1>4, <1>5, <1>6, <1>7, <1>8, <1>9, <1>10, <1>11, <1>12, <1>13, <1>14,
     <1>15, <1>16, <1>17, <1>18, <1>19, <1>20, <1>21, <1>22, <1>23, <1>24, <1>25, <1>26, <1>27,
     <1>28, <1>29, <1>30, <1>31, <1>32, <1>33, <1>34, <1>35, <1>36, <1>37, <1>38, <1>39, <1>40
     DEF Next, Physics, Viewer, User, Control, Policy

(* What a load has done. *)
LEMMA LoadStep ==
  ASSUME TypeOK, LoadInv, MutexInv, ViewerInv, NodeInv, [Next]_vars
  PROVE  LoadInv'
<1> USE DEF TypeOK, LoadInv, Jobs, loadVars, viewerVars, requestVars, nodeVars, loopPcs
<1>1. CASE LoadMessage
  BY <1>1 DEF LoadMessage
<1>2. CASE LoadModel
  BY <1>2 DEF LoadModel
<1>3. CASE Load
  BY <1>3 DEF Load
<1>4. CASE LoadDone
  BY <1>4 DEF LoadDone
<1>5. CASE Swap
  BY <1>5 DEF Swap, UseNew, AfterLoad
<1>6. CASE LoadMessageClear
  BY <1>6 DEF LoadMessageClear, AfterLoad
<1>7. CASE PhysicsLoop
  BY <1>7 DEF PhysicsLoop
<1>8. CASE UiLoad
  BY <1>8 DEF UiLoad
<1>9. CASE Step
  BY <1>9 DEF Step
<1>10. CASE DeleteAll
  BY <1>10 DEF DeleteAll
<1>11. CASE WaitData
  BY <1>11 DEF WaitData
<1>12. CASE StartLoops
  BY <1>12 DEF StartLoops
<1>13. CASE RenderLoop
  BY <1>13 DEF RenderLoop
<1>14. CASE LoadOnRenderThread
  BY <1>14 DEF LoadOnRenderThread, Frame
<1>15. CASE DropSpin
  BY <1>15 DEF DropSpin
<1>16. CASE EventsDone
  BY <1>16 DEF EventsDone
<1>17. CASE Sync
  BY <1>17 DEF Sync
<1>18. CASE Render
  BY <1>18 DEF Render
<1>19. CASE LeaveLoop
  BY <1>19 DEF LeaveLoop
<1>20. CASE RenderLoopEnd
  BY <1>20 DEF RenderLoopEnd
<1>21. CASE Destroy
  BY <1>21 DEF Destroy
<1>22. CASE FilesDrop
  BY <1>22 DEF FilesDrop
<1>23. CASE Reload
  BY <1>23 DEF Reload
<1>24. CASE Quit
  BY <1>24 DEF Quit
<1>25. CASE CloseWindow
  BY <1>25 DEF CloseWindow
<1>26. CASE Signal
  BY <1>26 DEF Signal
<1>27. CASE ControlTest
  BY <1>27 DEF ControlTest, ControlVars
<1>28. CASE RobotControl
  BY <1>28 DEF RobotControl, ControlVars
<1>29. CASE EnterRL
  BY <1>29 DEF EnterRL, ControlVars
<1>30. CASE InitRL
  BY <1>30 DEF InitRL, ControlVars
<1>31. CASE InitRLDone
  BY <1>31 DEF InitRLDone, ControlVars
<1>32. CASE RobotControlEnd
  BY <1>32 DEF RobotControlEnd, ControlVars
<1>33. CASE PolicyTest
  BY <1>33 DEF PolicyTest, PolicyVars
<1>34. CASE RunModel
  BY <1>34 DEF RunModel, PolicyVars
<1>35. CASE RunModelSkip
  BY <1>35 DEF RunModelSkip, PolicyVars
<1>36. CASE RunModelReady
  BY <1>36 DEF RunModelReady, Observe, PolicyVars
<1>37. CASE LockBall
  BY <1>37 DEF LockBall, PolicyVars
<1>38. CASE UpdateBall
  BY <1>38 DEF UpdateBall, PolicyVars
<1>39. CASE RunModelEnd
  BY <1>39 DEF RunModelEnd, PolicyVars
<1>40. CASE UNCHANGED vars
  BY <1>40 DEF vars
<1>41. QED
  BY <1>1, <1>2, <1>3, <1>4, <1>5, <1>6, <1>7, <1>8, <1>9, <1>10, <1>11, <1>12, <1>13, <1>14,
     <1>15, <1>16, <1>17, <1>18, <1>19, <1>20, <1>21, <1>22, <1>23, <1>24, <1>25, <1>26, <1>27,
     <1>28, <1>29, <1>30, <1>31, <1>32, <1>33, <1>34, <1>35, <1>36, <1>37, <1>38, <1>39, <1>40
     DEF Next, Physics, Viewer, User, Control, Policy

(* Which pair the viewer has. *)
LEMMA ViewerStep ==
  ASSUME TypeOK, LoadInv, MutexInv, ViewerInv, NodeInv, [Next]_vars
  PROVE  ViewerInv'
<1> USE DEF TypeOK, ViewerInv, LoadInv, MutexInv, Jobs, loadVars, viewerVars, requestVars, nodeVars, loopPcs
<1>1. CASE LoadMessage
  BY <1>1 DEF LoadMessage
<1>2. CASE LoadModel
  BY <1>2 DEF LoadModel
<1>3. CASE Load
  BY <1>3 DEF Load
<1>4. CASE LoadDone
  BY <1>4 DEF LoadDone
<1>5. CASE Swap
  BY <1>5 DEF Swap, UseNew, AfterLoad
<1>6. CASE LoadMessageClear
  BY <1>6 DEF LoadMessageClear, AfterLoad
<1>7. CASE PhysicsLoop
  BY <1>7 DEF PhysicsLoop
<1>8. CASE UiLoad
  BY <1>8 DEF UiLoad
<1>9. CASE Step
  BY <1>9 DEF Step
<1>10. CASE DeleteAll
  BY <1>10 DEF DeleteAll
<1>11. CASE WaitData
  BY <1>11 DEF WaitData
<1>12. CASE StartLoops
  BY <1>12 DEF StartLoops
<1>13. CASE RenderLoop
  BY <1>13 DEF RenderLoop
<1>14. CASE LoadOnRenderThread
  BY <1>14 DEF LoadOnRenderThread, Frame
<1>15. CASE DropSpin
  BY <1>15 DEF DropSpin
<1>16. CASE EventsDone
  BY <1>16 DEF EventsDone
<1>17. CASE Sync
  BY <1>17 DEF Sync
<1>18. CASE Render
  BY <1>18 DEF Render
<1>19. CASE LeaveLoop
  BY <1>19 DEF LeaveLoop
<1>20. CASE RenderLoopEnd
  BY <1>20 DEF RenderLoopEnd
<1>21. CASE Destroy
  BY <1>21 DEF Destroy
<1>22. CASE FilesDrop
  BY <1>22 DEF FilesDrop
<1>23. CASE Reload
  BY <1>23 DEF Reload
<1>24. CASE Quit
  BY <1>24 DEF Quit
<1>25. CASE CloseWindow
  BY <1>25 DEF CloseWindow
<1>26. CASE Signal
  BY <1>26 DEF Signal
<1>27. CASE ControlTest
  BY <1>27 DEF ControlTest, ControlVars
<1>28. CASE RobotControl
  BY <1>28 DEF RobotControl, ControlVars
<1>29. CASE EnterRL
  BY <1>29 DEF EnterRL, ControlVars
<1>30. CASE InitRL
  BY <1>30 DEF InitRL, ControlVars
<1>31. CASE InitRLDone
  BY <1>31 DEF InitRLDone, ControlVars
<1>32. CASE RobotControlEnd
  BY <1>32 DEF RobotControlEnd, ControlVars
<1>33. CASE PolicyTest
  BY <1>33 DEF PolicyTest, PolicyVars
<1>34. CASE RunModel
  BY <1>34 DEF RunModel, PolicyVars
<1>35. CASE RunModelSkip
  BY <1>35 DEF RunModelSkip, PolicyVars
<1>36. CASE RunModelReady
  BY <1>36 DEF RunModelReady, Observe, PolicyVars
<1>37. CASE LockBall
  BY <1>37 DEF LockBall, PolicyVars
<1>38. CASE UpdateBall
  BY <1>38 DEF UpdateBall, PolicyVars
<1>39. CASE RunModelEnd
  BY <1>39 DEF RunModelEnd, PolicyVars
<1>40. CASE UNCHANGED vars
  BY <1>40 DEF vars
<1>41. QED
  BY <1>1, <1>2, <1>3, <1>4, <1>5, <1>6, <1>7, <1>8, <1>9, <1>10, <1>11, <1>12, <1>13, <1>14,
     <1>15, <1>16, <1>17, <1>18, <1>19, <1>20, <1>21, <1>22, <1>23, <1>24, <1>25, <1>26, <1>27,
     <1>28, <1>29, <1>30, <1>31, <1>32, <1>33, <1>34, <1>35, <1>36, <1>37, <1>38, <1>39, <1>40
     DEF Next, Physics, Viewer, User, Control, Policy

(* The node has a copy of the first pair. *)
LEMMA NodeStep ==
  ASSUME TypeOK, LoadInv, MutexInv, ViewerInv, NodeInv, [Next]_vars
  PROVE  NodeInv'
<1> USE DEF TypeOK, NodeInv, LoadInv, Jobs, loadVars, viewerVars, requestVars, nodeVars, loopPcs
<1>1. CASE LoadMessage
  BY <1>1 DEF LoadMessage
<1>2. CASE LoadModel
  BY <1>2 DEF LoadModel
<1>3. CASE Load
  BY <1>3 DEF Load
<1>4. CASE LoadDone
  BY <1>4 DEF LoadDone
<1>5. CASE Swap
  BY <1>5 DEF Swap, UseNew, AfterLoad
<1>6. CASE LoadMessageClear
  BY <1>6 DEF LoadMessageClear, AfterLoad
<1>7. CASE PhysicsLoop
  BY <1>7 DEF PhysicsLoop
<1>8. CASE UiLoad
  BY <1>8 DEF UiLoad
<1>9. CASE Step
  BY <1>9 DEF Step
<1>10. CASE DeleteAll
  BY <1>10 DEF DeleteAll
<1>11. CASE WaitData
  BY <1>11 DEF WaitData
<1>12. CASE StartLoops
  BY <1>12 DEF StartLoops
<1>13. CASE RenderLoop
  BY <1>13 DEF RenderLoop
<1>14. CASE LoadOnRenderThread
  BY <1>14 DEF LoadOnRenderThread, Frame
<1>15. CASE DropSpin
  BY <1>15 DEF DropSpin
<1>16. CASE EventsDone
  BY <1>16 DEF EventsDone
<1>17. CASE Sync
  BY <1>17 DEF Sync
<1>18. CASE Render
  BY <1>18 DEF Render
<1>19. CASE LeaveLoop
  BY <1>19 DEF LeaveLoop
<1>20. CASE RenderLoopEnd
  BY <1>20 DEF RenderLoopEnd
<1>21. CASE Destroy
  BY <1>21 DEF Destroy
<1>22. CASE FilesDrop
  BY <1>22 DEF FilesDrop
<1>23. CASE Reload
  BY <1>23 DEF Reload
<1>24. CASE Quit
  BY <1>24 DEF Quit
<1>25. CASE CloseWindow
  BY <1>25 DEF CloseWindow
<1>26. CASE Signal
  BY <1>26 DEF Signal
<1>27. CASE ControlTest
  BY <1>27 DEF ControlTest, ControlVars
<1>28. CASE RobotControl
  BY <1>28 DEF RobotControl, ControlVars
<1>29. CASE EnterRL
  BY <1>29 DEF EnterRL, ControlVars
<1>30. CASE InitRL
  BY <1>30 DEF InitRL, ControlVars
<1>31. CASE InitRLDone
  BY <1>31 DEF InitRLDone, ControlVars
<1>32. CASE RobotControlEnd
  BY <1>32 DEF RobotControlEnd, ControlVars
<1>33. CASE PolicyTest
  BY <1>33 DEF PolicyTest, PolicyVars
<1>34. CASE RunModel
  BY <1>34 DEF RunModel, PolicyVars
<1>35. CASE RunModelSkip
  BY <1>35 DEF RunModelSkip, PolicyVars
<1>36. CASE RunModelReady
  BY <1>36 DEF RunModelReady, Observe, PolicyVars
<1>37. CASE LockBall
  BY <1>37 DEF LockBall, PolicyVars
<1>38. CASE UpdateBall
  BY <1>38 DEF UpdateBall, PolicyVars
<1>39. CASE RunModelEnd
  BY <1>39 DEF RunModelEnd, PolicyVars
<1>40. CASE UNCHANGED vars
  BY <1>40 DEF vars
<1>41. QED
  BY <1>1, <1>2, <1>3, <1>4, <1>5, <1>6, <1>7, <1>8, <1>9, <1>10, <1>11, <1>12, <1>13, <1>14,
     <1>15, <1>16, <1>17, <1>18, <1>19, <1>20, <1>21, <1>22, <1>23, <1>24, <1>25, <1>26, <1>27,
     <1>28, <1>29, <1>30, <1>31, <1>32, <1>33, <1>34, <1>35, <1>36, <1>37, <1>38, <1>39, <1>40
     DEF Next, Physics, Viewer, User, Control, Policy

-----------------------------------------------------------------------------
(* The initial states satisfy the invariant. *)
LEMMA InitIInv == Init => IInv
<1> SUFFICES ASSUME Init PROVE IInv
  OBVIOUS
<1> USE DEF Init
<1>1. TypeOK
  <2>1. droploadrequest \in BOOLEAN /\ running \in BOOLEAN
    BY Zenon
  <2>2. catchball \in BOOLEAN
    BY MujocoAssumption, Zenon DEF MujocoAssumption
  <2> QED
    BY <2>1, <2>2 DEF TypeOK, Jobs
<1>2. MutexInv
  BY DEF MutexInv, InCycle
<1>3. LoadInv
  BY DEF LoadInv
<1>4. ViewerInv
  BY DEF ViewerInv
<1>5. NodeInv
  BY DEF NodeInv
<1>6. QED
  BY <1>1, <1>2, <1>3, <1>4, <1>5 DEF IInv

(* At every moment each mutex, request and pair of m and d is where the    *)
(* places of the threads say.                                              *)
THEOREM Invariance == Spec => []IInv
<1>1. IInv /\ [Next]_vars => IInv'
  <2> SUFFICES ASSUME IInv, [Next]_vars PROVE IInv'
    OBVIOUS
  <2>1. TypeOK /\ MutexInv /\ LoadInv /\ ViewerInv /\ NodeInv
    BY DEF IInv
  <2>2. TypeOK'
    BY <2>1, TypeStep
  <2>3. MutexInv'
    BY <2>1, MutexStep
  <2>4. LoadInv'
    BY <2>1, LoadStep
  <2>5. ViewerInv'
    BY <2>1, ViewerStep
  <2>6. NodeInv'
    BY <2>1, NodeStep
  <2>7. QED
    BY <2>2, <2>3, <2>4, <2>5, <2>6 DEF IInv
<1>2. QED
  BY <1>1, InitIInv, PTL DEF Spec

(* Every variable of the node's threads keeps its type. *)
THEOREM TypeCorrect == Spec => []TypeOK
<1>1. IInv => TypeOK
  BY DEF IInv
<1>2. QED
  BY <1>1, Invariance, PTL

(* The viewer never synchronises with a pair that a reload has freed. *)
THEOREM ViewerLiveHolds == Spec => []ViewerLive
<1>1. IInv => ViewerLive
  BY DEF IInv, LoadInv, ViewerInv, ViewerLive
<1>2. QED
  BY <1>1, Invariance, PTL

(* Physics steps the pair that the viewer shows. *)
THEOREM SameModelHolds == Spec => []SameModel
<1>1. IInv => SameModel
  BY DEF IInv, LoadInv, ViewerInv, SameModel
<1>2. QED
  BY <1>1, Invariance, PTL

(* However many loads succeed or fail, none leaves a pair behind. *)
THEOREM NothingLeakedHolds == Spec => []NothingLeaked
<1>1. IInv => NothingLeaked
  BY DEF IInv, LoadInv, NothingLeaked
<1>2. QED
  BY <1>1, Invariance, PTL

(* The node's copy of the pointers is good until another load. *)
THEOREM FirstModelSafeHolds == Spec => []FirstModelSafe
<1>1. IInv => FirstModelSafe
  BY DEF IInv, TypeOK, LoadInv, NodeInv, FirstModelSafe, InCycle
<1>2. QED
  BY <1>1, Invariance, PTL

-----------------------------------------------------------------------------
(***************************************************************************)
(* The clock.                                                              *)
(***************************************************************************)

(* The state's time is never beyond peak, a ball that is there was thrown  *)
(* by the node or put there by the viewer, and the history has begun.      *)
BehindPeak == state.time <= peak
BallKnown == state.ball # "hidden" => in_flight \/ moved

ClockInv == ClockTypeOK /\ recorded # <<>> /\ BehindPeak /\ ThrowDue /\ BallKnown /\ ScrubShowsPast

-----------------------------------------------------------------------------
(***************************************************************************)
(* The ring. *)
(***************************************************************************)

LEMMA SlotOf ==
  ASSUME NEW N \in Nat \ {0}, NEW c \in 0..(N - 1), NEW k \in (1 - N)..0
  PROVE  (k + c) % N = IF k + c >= 0 THEN k + c ELSE k + c + N
<1>1. CASE k + c >= 0
  <2> DEFINE a == k + c
  <2>1. a \in 0..(N - 1)
    BY <1>1
  <2> HIDE DEF a
  <2>2. a % N = a
    BY <2>1
  <2> QED
    BY <1>1, <2>2 DEF a
<1>2. CASE k + c < 0
  <2> DEFINE a == k + c
  <2>1. a \in Int /\ a < 0 /\ a + N >= 0
    BY <1>2
  <2> HIDE DEF a
  <2>2. a % N = a + N
    BY <2>1
  <2> QED
    BY <1>2, <2>2 DEF a
<1> QED
  BY <1>1, <1>2

LEMMA NextSlot ==
  ASSUME NEW N \in Nat \ {0}, NEW c \in 0..(N - 1)
  PROVE  (c + 1) % N = IF c + 1 = N THEN 0 ELSE c + 1
<1> DEFINE a == c + 1
<1>1. a \in Nat /\ (a = N \/ a \in 0..(N - 1))
  OBVIOUS
<1> HIDE DEF a
<1>2. CASE a = N
  BY <1>2 DEF a
<1>3. CASE a \in 0..(N - 1) /\ a # N
  <2>1. a % N = a
    BY <1>3
  <2> QED
    BY <2>1, <1>3 DEF a
<1> QED
  BY <1>1, <1>2, <1>3

(* Going back from the next slot is going back one less from this one, and *)
(* does not come round to it.                                              *)
LEMMA SlotBack ==
  ASSUME NEW N \in Nat \ {0}, NEW c \in 0..(N - 1)
  PROVE  LET n == (c + 1) % N
         IN /\ n \in 0..(N - 1)
            /\ (0 + n) % N = n
            /\ \A k \in (1 - N)..(-1) : (k + n) % N = ((k + 1) + c) % N /\ (k + n) % N # n
<1> DEFINE n == (c + 1) % N
<1>1. n = IF c + 1 = N THEN 0 ELSE c + 1
  BY NextSlot
<1>2. n \in 0..(N - 1)
  BY <1>1
<1> HIDE DEF n
<1>3. \A k \in (1 - N)..0 : (k + n) % N = IF k + n >= 0 THEN k + n ELSE k + n + N
  BY <1>2, SlotOf
<1>4. \A k \in (1 - N)..0 : (k + c) % N = IF k + c >= 0 THEN k + c ELSE k + c + N
  BY SlotOf
<1>5. (0 + n) % N = n
  BY <1>2, <1>3
<1>6. ASSUME NEW k \in (1 - N)..(-1)
      PROVE  (k + n) % N = ((k + 1) + c) % N /\ (k + n) % N # n
  <2>1. (k + n) % N = IF k + n >= 0 THEN k + n ELSE k + n + N
    BY <1>3
  <2> DEFINE m == k + 1
  <2>2. m \in (1 - N)..0
    OBVIOUS
  <2>3. (m + c) % N = IF m + c >= 0 THEN m + c ELSE m + c + N
    BY <2>2, <1>4
  <2>4. ((k + 1) + c) % N = IF (k + 1) + c >= 0 THEN (k + 1) + c ELSE (k + 1) + c + N
    BY <2>3
  <2> QED
    BY <1>1, <1>2, <2>1, <2>4
<1> QED
  BY <1>2, <1>5, <1>6 DEF n

LEMMA ClockConstants ==
  /\ ThrowDelay \in Nat /\ MaxFlight \in Nat /\ NHistory \in Nat \ {0} /\ 0 \in Slots
  /\ 0 \in (1 - NHistory)..0
BY ClockAssumption DEF Slots

(* AddToHistory keeps what the scrubber shows. *)
LEMMA RecordShowsPast ==
  ASSUME ClockTypeOK, recorded # <<>>, ScrubShowsPast, NEW s \in States, AddToHistory(s)
  PROVE  /\ ScrubShowsPast' /\ recorded' # <<>> /\ recorded' \in Seq(States)
         /\ history' \in [Slots -> States] /\ cursor' \in Slots
<1>0. /\ history \in [Slots -> States] /\ cursor \in Slots /\ recorded \in Seq(States)
      /\ NHistory \in Nat \ {0}
  BY ClockConstants DEF ClockTypeOK
<1> DEFINE n == (cursor + 1) % NHistory
<1>1. /\ cursor' = n /\ history' = [history EXCEPT ![n] = s] /\ recorded' = Append(recorded, s)
  BY DEF AddToHistory, RecordAt
<1>2. /\ n \in Slots /\ (0 + n) % NHistory = n
      /\ \A k \in (1 - NHistory)..(-1) :
           (k + n) % NHistory = ((k + 1) + cursor) % NHistory /\ (k + n) % NHistory # n
  BY <1>0, SlotBack DEF Slots
<1> HIDE DEF n
<1>3. /\ Len(recorded) \in Nat /\ Len(recorded) >= 1
      /\ recorded' \in Seq(States) /\ recorded' # <<>> /\ Len(recorded') = Len(recorded) + 1
      /\ recorded'[Len(recorded) + 1] = s
      /\ \A i \in 1..Len(recorded) : recorded'[i] = recorded[i]
  BY <1>0, <1>1
<1>4. ASSUME NEW k \in (1 - NHistory)..0 PROVE history'[ScrubSlot(k)'] = Ago(-k)'
  <2>1. ScrubSlot(k)' = (k + n) % NHistory
    BY <1>1 DEF ScrubSlot
  <2>2. CASE k = 0
    <3>1. ScrubSlot(k)' = n
      BY <2>1, <2>2, <1>2
    <3>2. history'[n] = s
      BY <1>0, <1>1, <1>2
    <3>3. Ago(-k)' = s
      BY <1>3, <2>2 DEF Ago, Later
    <3> QED
      BY <3>1, <3>2, <3>3
  <2>3. CASE k # 0
    <3>1. k \in (1 - NHistory)..(-1) /\ k + 1 \in (1 - NHistory)..0
      BY <2>3, <1>0
    <3>2. ScrubSlot(k)' = ScrubSlot(k + 1) /\ ScrubSlot(k)' # n
      BY <2>1, <3>1, <1>2 DEF ScrubSlot
    <3>3. ScrubSlot(k + 1) \in Slots
      BY <3>1, <1>0 DEF ScrubSlot, Slots
    <3>4. history'[ScrubSlot(k)'] = history[ScrubSlot(k + 1)]
      BY <1>0, <1>1, <3>2, <3>3
    <3>5. history[ScrubSlot(k + 1)] = Ago(-(k + 1))
      BY <3>1 DEF ScrubShowsPast
    <3>6. Ago(-(k + 1)) = Ago(-k)'
      <4> DEFINE i == Later(1, Len(recorded) - (-(k + 1)))
      <4>1. i \in 1..Len(recorded) /\ Later(1, Len(recorded') - (-k)) = i
        BY <1>0, <1>3, <3>1 DEF Later
      <4>2. recorded'[i] = recorded[i]
        BY <4>1, <1>3
      <4> QED
        BY <4>1, <4>2 DEF Ago, Later
    <3> QED
      BY <3>4, <3>5, <3>6
  <2> QED
    BY <2>2, <2>3
<1>5. ScrubShowsPast'
  BY <1>4 DEF ScrubShowsPast
<1>6. history' \in [Slots -> States]
  BY <1>0, <1>1
<1> QED
  BY <1>1, <1>2, <1>3, <1>5, <1>6

-----------------------------------------------------------------------------
(***************************************************************************)
(* The state and the throws.                                               *)
(***************************************************************************)

LEMMA StateFacts ==
  ASSUME NEW s \in States
  PROVE  /\ s.time \in Nat /\ s.ball \in {"up", "low", "hidden"}
         /\ Hide(s) \in States /\ Hide(s).time = s.time /\ Hide(s).ball = "hidden"
         /\ [s EXCEPT !.ball = "up"] \in States /\ [s EXCEPT !.ball = "up"].time = s.time
BY DEF States, Hide

(* Setting the state keeps it behind peak, which only grows. *)
LEMMA SetStateFacts ==
  ASSUME NEW s \in States, SetState(s), peak \in Nat
  PROVE  /\ state' = s /\ state' \in States /\ peak' \in Nat
         /\ peak <= peak' /\ BehindPeak'
<1>1. state' = s /\ s.time \in Nat
  BY StateFacts DEF SetState
<1>2. peak' = IF peak < s.time THEN s.time ELSE peak
  BY DEF SetState, Later
<1>3. peak' \in Nat /\ peak <= peak' /\ s.time <= peak'
  BY <1>1, <1>2
<1> QED
  BY <1>1, <1>3 DEF BehindPeak

(* What a cycle may make of the state and of the throws. *)
LEMMA ThrowFacts ==
  ASSUME ClockTypeOK, BehindPeak, ThrowDue
  PROVE  LET t == UpdateCatchballThrow
         IN /\ t.state \in States /\ t.flight \in BOOLEAN /\ t.next \in Nat /\ t.start \in Nat
            /\ t.next <= peak + ThrowDelay
            /\ t.flight => t.start <= peak
            /\ t.state.ball # "hidden" => t.flight \/ (t.state = state /\ t.flight = in_flight)
<1> DEFINE Lands == in_flight /\ (state.ball # "up" \/ state.time - throw_start_time > MaxFlight)
           Throws == ~in_flight /\ state.time >= next_throw_time
           t == UpdateCatchballThrow
<1> USE DEF ClockTypeOK
<1>1. /\ state \in States /\ state.time \in Nat /\ state.time <= peak /\ peak \in Nat
      /\ ThrowDelay \in Nat /\ state.time + ThrowDelay \in Nat
      /\ state.time + ThrowDelay <= peak + ThrowDelay
  <2>1. state \in States /\ peak \in Nat
    OBVIOUS
  <2>2. state.time \in Nat /\ state.time <= peak
    BY <2>1, StateFacts DEF BehindPeak
  <2> HIDE DEF ClockTypeOK
  <2> QED
    BY <2>1, <2>2, ClockConstants
<1>2. CASE Lands
  <2>1. t = [state |-> Hide(state), flight |-> FALSE, next |-> state.time + ThrowDelay,
             start |-> throw_start_time]
    BY <1>2 DEF UpdateCatchballThrow, Throw
  <2>2. /\ t.state = Hide(state) /\ t.flight = FALSE /\ t.next = state.time + ThrowDelay
        /\ t.start = throw_start_time
    BY <2>1
  <2> QED
    BY <1>1, <2>2, StateFacts
<1>3. CASE Throws
  <2>1. t = [state |-> [state EXCEPT !.ball = "up"], flight |-> TRUE,
             next |-> next_throw_time, start |-> state.time]
    BY <1>3 DEF UpdateCatchballThrow, Throw
  <2>2. /\ t.state = [state EXCEPT !.ball = "up"] /\ t.flight = TRUE
        /\ t.next = next_throw_time /\ t.start = state.time
    BY <2>1
  <2> QED
    BY <1>1, <2>2, StateFacts DEF ThrowDue
<1>4. CASE ~Lands /\ ~Throws
  <2>1. t = [state |-> state, flight |-> in_flight, next |-> next_throw_time,
             start |-> throw_start_time]
    BY <1>4 DEF UpdateCatchballThrow, Throw
  <2>2. /\ t.state = state /\ t.flight = in_flight
        /\ t.next = next_throw_time /\ t.start = throw_start_time
    BY <2>1
  <2> QED
    BY <1>1, <2>2 DEF ThrowDue
<1> QED
  BY <1>2, <1>3, <1>4

-----------------------------------------------------------------------------
(***************************************************************************)
(* Steps. *)
(***************************************************************************)

(* Steps that leave the throws alone keep what is known of them. *)
LEMMA QuietThrows ==
  ASSUME ClockTypeOK, ThrowDue, peak <= peak', peak' \in Nat, UNCHANGED throwVars
  PROVE  ThrowDue'
<1>1. next_throw_time \in Nat /\ throw_start_time \in Nat /\ peak \in Nat /\ ThrowDelay \in Nat
  BY ClockConstants DEF ClockTypeOK
<1>2. UNCHANGED <<in_flight, next_throw_time, throw_start_time>>
  BY DEF throwVars
<1>3. next_throw_time' <= peak' + ThrowDelay
  <2>1. next_throw_time <= peak + ThrowDelay
    BY DEF ThrowDue
  <2>2. peak' \in Nat /\ peak <= peak'
    OBVIOUS
  <2>3. next_throw_time <= peak' + ThrowDelay
    <3>1. \A n, p, q, delay \in Nat : n <= p + delay /\ p <= q => n <= q + delay
      OBVIOUS
    <3> QED
      BY <1>1, <2>1, <2>2, <3>1, Zenon
  <2> QED
    BY <1>2, <2>3
<1>4. in_flight' => throw_start_time' <= peak'
  <2>1. in_flight => throw_start_time <= peak
    BY DEF ThrowDue
  <2>2. throw_start_time <= peak => throw_start_time <= peak'
    BY <1>1
  <2>3. in_flight' = in_flight /\ throw_start_time' = throw_start_time
    BY <1>2
  <2> QED
    BY <2>1, <2>2, <2>3, Zenon
<1> QED
  BY <1>3, <1>4 DEF ThrowDue

LEMMA BallFacts ==
  ASSUME NEW b \in {"up", "low", "hidden"}, NEW n \in Nat, NEW a \in BallAfter(b)
  PROVE  /\ [time |-> n, ball |-> a] \in States
         /\ [time |-> n, ball |-> a].ball # "hidden" => b # "hidden"
BY DEF BallAfter, States

LEMMA StepAndRecordInv ==
  ASSUME ClockInv, StepAndRecord PROVE ClockInv'
<1> USE DEF ClockInv
<1>1. state \in States /\ state.time \in Nat /\ state.ball \in {"up", "low", "hidden"} /\ peak \in Nat
  BY StateFacts DEF ClockTypeOK
<1>2. /\ UNCHANGED <<run, scrub_index, pending, inFrame, simulation_running, throwVars>>
      /\ AddToHistory(state')
  BY DEF StepAndRecord
<1>3. /\ state' \in States /\ peak' \in Nat /\ peak <= peak' /\ BehindPeak' /\ moved' \in BOOLEAN
      /\ BallKnown'
  <2>1. CASE \E n \in 1..2, ball \in BallAfter(state.ball) :
               /\ state.time + n <= MaxTime
               /\ SetState([time |-> state.time + n, ball |-> ball])
               /\ UNCHANGED moved
    <3>1. PICK n \in 1..2, ball \in BallAfter(state.ball) :
            /\ SetState([time |-> state.time + n, ball |-> ball])
            /\ UNCHANGED moved
      BY <2>1
    <3>2. state.time + n \in Nat
      BY <1>1
    <3>3. /\ [time |-> state.time + n, ball |-> ball] \in States
          /\ [time |-> state.time + n, ball |-> ball].ball # "hidden" => state.ball # "hidden"
      BY <1>1, <3>2, BallFacts
    <3>4. UNCHANGED <<in_flight, moved>>
      BY <1>2, <3>1 DEF throwVars
    <3> QED
      BY <1>1, <3>1, <3>3, <3>4, SetStateFacts DEF BallKnown, ClockTypeOK
  <2>2. CASE \E ball \in {"up", "low"} : SetState([time |-> 0, ball |-> ball]) /\ moved' = TRUE
    <3>1. PICK ball \in {"up", "low"} : SetState([time |-> 0, ball |-> ball]) /\ moved' = TRUE
      BY <2>2
    <3>2. [time |-> 0, ball |-> ball] \in States
      BY DEF States
    <3> QED
      BY <1>1, <3>1, <3>2, SetStateFacts DEF BallKnown
  <2> QED
    BY <2>1, <2>2 DEF StepAndRecord
<1>4. /\ ScrubShowsPast' /\ recorded' # <<>> /\ recorded' \in Seq(States)
      /\ history' \in [Slots -> States] /\ cursor' \in Slots
  BY <1>2, <1>3, RecordShowsPast
<1>5. ThrowDue'
  BY <1>2, <1>3, QuietThrows
<1>6. ClockTypeOK'
  BY <1>2, <1>3, <1>4 DEF ClockTypeOK, throwVars
<1> QED
  BY <1>3, <1>4, <1>5, <1>6

(* The other steps leave the history alone. *)
LEMMA QuietHistory ==
  ASSUME ClockInv, UNCHANGED historyVars
  PROVE  /\ ScrubShowsPast' /\ recorded' # <<>> /\ recorded' \in Seq(States)
         /\ history' \in [Slots -> States] /\ cursor' \in Slots
BY DEF ClockInv, ClockTypeOK, historyVars, ScrubShowsPast, ScrubSlot, Ago, Later

(* A step that leaves the throws and the history alone, of a state that is *)
(* set and a ball that is explained.                                       *)
LEMMA QuietInv ==
  ASSUME ClockInv, UNCHANGED <<historyVars, throwVars>>,
         peak' \in Nat, peak <= peak', BehindPeak', BallKnown', state' \in States,
         run' \in BOOLEAN, scrub_index' \in (1 - NHistory)..0, pending' \subseteq Requests,
         inFrame' \in BOOLEAN, simulation_running' \in BOOLEAN, moved' \in BOOLEAN
  PROVE  ClockInv'
<1>1. /\ ScrubShowsPast' /\ recorded' # <<>> /\ recorded' \in Seq(States)
      /\ history' \in [Slots -> States] /\ cursor' \in Slots
  BY QuietHistory
<1>2. ThrowDue'
  BY QuietThrows DEF ClockInv
<1>3. ClockTypeOK'
  BY <1>1 DEF ClockInv, ClockTypeOK, throwVars
<1> QED
  BY <1>1, <1>2, <1>3 DEF ClockInv

LEMMA DivergeInv ==
  ASSUME ClockInv, Diverge PROVE ClockInv'
<1>1. PICK ball \in BallAfter(state.ball) : SetState([time |-> state.time + 1, ball |-> ball])
  BY DEF Diverge
<1>2. /\ run' = FALSE
      /\ UNCHANGED <<historyVars, scrub_index, pending, inFrame, simulation_running, throwVars, moved>>
  BY DEF Diverge
<1>3. state \in States /\ state.time \in Nat /\ state.ball \in {"up", "low", "hidden"} /\ peak \in Nat
  BY StateFacts DEF ClockInv, ClockTypeOK
<1>4. /\ [time |-> state.time + 1, ball |-> ball] \in States
      /\ [time |-> state.time + 1, ball |-> ball].ball # "hidden" => state.ball # "hidden"
  BY <1>3, BallFacts
<1>5. state' \in States /\ peak' \in Nat /\ peak <= peak' /\ BehindPeak'
  BY <1>1, <1>3, <1>4, SetStateFacts
<1>6. BallKnown'
  BY <1>1, <1>2, <1>3, <1>4, SetStateFacts DEF BallKnown, ClockInv, throwVars
<1> QED
  BY <1>2, <1>5, <1>6, QuietInv DEF ClockInv, ClockTypeOK

LEMMA RobotControlInv ==
  ASSUME ClockInv, RobotControlCycle PROVE ClockInv'
<1> DEFINE u == UpdateCatchballThrow
<1>1. PICK asks \in SUBSET {"reset", "toggle"} :
        LET t == IF "reset" \in asks THEN InitCatchball(u) ELSE u
        IN /\ SetState(t.state) /\ in_flight' = t.flight
           /\ next_throw_time' = t.next /\ throw_start_time' = t.start
           /\ moved' = (moved /\ t.state = state)
           /\ simulation_running' = (simulation_running # ("toggle" \in asks))
           /\ run' = IF "toggle" \in asks THEN simulation_running' ELSE run
           /\ UNCHANGED <<historyVars, scrub_index, pending, inFrame>>
  BY DEF RobotControlCycle
<1> DEFINE t == IF "reset" \in asks THEN InitCatchball(u) ELSE u
<1>2. /\ SetState(t.state) /\ in_flight' = t.flight
      /\ next_throw_time' = t.next /\ throw_start_time' = t.start
      /\ moved' = (moved /\ t.state = state)
      /\ simulation_running' = (simulation_running # ("toggle" \in asks))
      /\ run' = IF "toggle" \in asks THEN simulation_running' ELSE run
      /\ UNCHANGED <<historyVars, scrub_index, pending, inFrame>>
  BY <1>1
<1>3. /\ u.state \in States /\ u.flight \in BOOLEAN /\ u.next \in Nat /\ u.start \in Nat
      /\ u.next <= peak + ThrowDelay
      /\ u.flight => u.start <= peak
      /\ u.state.ball # "hidden" => u.flight \/ (u.state = state /\ u.flight = in_flight)
  BY ThrowFacts DEF ClockInv
<1> HIDE DEF u
<1>4. /\ t.state \in States /\ t.flight \in BOOLEAN /\ t.next \in Nat /\ t.start \in Nat
      /\ t.next <= peak + ThrowDelay
      /\ t.flight => t.start <= peak
      /\ t.state.ball # "hidden" => t.flight \/ (t.state = state /\ t.flight = in_flight)
  <2>1. CASE "reset" \in asks
    <3>1. /\ t.state = [time |-> 0, ball |-> "hidden"] /\ t.flight = FALSE /\ t.next = ThrowDelay
          /\ t.start = u.start
      BY <2>1 DEF InitCatchball
    <3>2. [time |-> 0, ball |-> "hidden"] \in States
      BY DEF States
    <3>3. ThrowDelay \in Nat /\ peak \in Nat /\ ThrowDelay <= peak + ThrowDelay
      BY ClockConstants DEF ClockInv, ClockTypeOK
    <3>4. t.state.ball = "hidden"
      BY <3>1
    <3> HIDE DEF t
    <3> QED
      BY <1>3, <3>1, <3>2, <3>3, <3>4
  <2>2. CASE "reset" \notin asks
    BY <1>3, <2>2
  <2> QED
    BY <2>1, <2>2
<1> HIDE DEF t
<1>5. state' = t.state /\ state' \in States /\ peak' \in Nat /\ peak <= peak' /\ BehindPeak'
  BY <1>2, <1>4, SetStateFacts DEF ClockInv, ClockTypeOK
<1>6. ThrowDue'
  <2>1. peak \in Nat /\ ThrowDelay \in Nat
    BY ClockConstants DEF ClockInv, ClockTypeOK
  <2> QED
    BY <1>2, <1>4, <1>5, <2>1 DEF ThrowDue
<1>7. moved' \in BOOLEAN /\ simulation_running' \in BOOLEAN
  BY <1>2
<1>8. run' \in BOOLEAN
  BY <1>2, <1>7 DEF ClockInv, ClockTypeOK
<1>9. BallKnown'
  <2> SUFFICES ASSUME t.state.ball # "hidden", ~t.flight PROVE moved'
    BY <1>2, <1>5 DEF BallKnown
  <2>1. t.state = state /\ ~in_flight
    BY <1>4
  <2>2. moved
    BY <2>1 DEF ClockInv, BallKnown
  <2> QED
    BY <1>2, <2>1, <2>2
<1>10. /\ ScrubShowsPast' /\ recorded' # <<>> /\ recorded' \in Seq(States)
       /\ history' \in [Slots -> States] /\ cursor' \in Slots
  BY <1>2, QuietHistory
<1>11. ClockTypeOK'
  BY <1>2, <1>4, <1>5, <1>7, <1>8, <1>10 DEF ClockInv, ClockTypeOK
<1> QED
  BY <1>5, <1>6, <1>9, <1>10, <1>11 DEF ClockInv

(* Events of the viewer, but for a step forward, leave the state, the      *)
(* history and the throws alone.                                           *)
LEMMA EventInv ==
  ASSUME ClockInv, UNCHANGED <<state, historyVars, throwVars, peak, simulation_running, moved>>,
         run' \in BOOLEAN, scrub_index' \in (1 - NHistory)..0, pending' \subseteq Requests,
         inFrame' \in BOOLEAN
  PROVE  ClockInv'
<1>1. peak' \in Nat /\ peak <= peak' /\ state' \in States
  BY DEF ClockInv, ClockTypeOK
<1>2. BehindPeak' /\ BallKnown'
  BY DEF ClockInv, BehindPeak, BallKnown, throwVars
<1>3. simulation_running' \in BOOLEAN /\ moved' \in BOOLEAN
  BY DEF ClockInv, ClockTypeOK
<1> QED
  BY <1>1, <1>2, <1>3, QuietInv

LEMMA ViewerEventInv ==
  ASSUME ClockInv,
         BeginFrame \/ ResetButton \/ LoadKeyButton \/ Scrubber \/ SpaceKey \/ RightKeyScrub \/ LeftKey
  PROVE  ClockInv'
<1>1. /\ run \in BOOLEAN /\ scrub_index \in (1 - NHistory)..0 /\ pending \subseteq Requests
      /\ inFrame \in BOOLEAN
  BY DEF ClockInv, ClockTypeOK
<1>2. NHistory \in Nat \ {0} /\ 0 \in (1 - NHistory)..0 /\ {"reset", "load_from_history", "load_key"} = Requests
  BY ClockConstants DEF Requests
<1>3. UNCHANGED <<state, historyVars, throwVars, peak, simulation_running, moved>>
  BY DEF BeginFrame, ResetButton, LoadKeyButton, Scrubber, SpaceKey, RightKeyScrub, LeftKey, Ask, Event
<1>4. pending' \subseteq Requests
  BY <1>1, <1>2 DEF BeginFrame, ResetButton, LoadKeyButton, Scrubber, SpaceKey, RightKeyScrub,
                    LeftKey, Ask, Event
<1>5. inFrame' \in BOOLEAN
  BY <1>1 DEF BeginFrame, ResetButton, LoadKeyButton, Scrubber, SpaceKey, RightKeyScrub,
              LeftKey, Ask, Event
<1>6. run' \in BOOLEAN
  <2>1. CASE SpaceKey
    BY <2>1 DEF SpaceKey
  <2>2. CASE ~SpaceKey
    BY <1>1, <2>2 DEF BeginFrame, ResetButton, LoadKeyButton, Scrubber, RightKeyScrub, LeftKey
  <2> QED
    BY <2>1, <2>2
<1>7. scrub_index' \in (1 - NHistory)..0
  <2>1. CASE BeginFrame \/ ResetButton \/ LoadKeyButton \/ Scrubber
    BY <1>1, <2>1 DEF BeginFrame, ResetButton, LoadKeyButton, Scrubber
  <2>2. CASE SpaceKey
    BY <1>1, <1>2, <2>2 DEF SpaceKey
  <2>3. CASE RightKeyScrub
    BY <1>1, <1>2, <2>3 DEF RightKeyScrub
  <2>4. CASE LeftKey
    BY <1>1, <1>2, <2>4 DEF LeftKey, Later
  <2> QED
    BY <2>1, <2>2, <2>3, <2>4
<1> QED
  BY <1>3, <1>4, <1>5, <1>6, <1>7, EventInv

LEMMA RightKeyStepInv ==
  ASSUME ClockInv, RightKeyStep PROVE ClockInv'
<1>1. PICK ball \in BallAfter(state.ball) : SetState([time |-> state.time + 1, ball |-> ball])
  BY DEF RightKeyStep
<1>2. /\ AddToHistory(state')
      /\ UNCHANGED <<run, scrub_index, pending, inFrame, simulation_running, throwVars, moved>>
  BY DEF RightKeyStep, Event
<1>3. state \in States /\ state.time \in Nat /\ state.ball \in {"up", "low", "hidden"} /\ peak \in Nat
  BY StateFacts DEF ClockInv, ClockTypeOK
<1>4. /\ [time |-> state.time + 1, ball |-> ball] \in States
      /\ [time |-> state.time + 1, ball |-> ball].ball # "hidden" => state.ball # "hidden"
  BY <1>3, BallFacts
<1>5. state' \in States /\ peak' \in Nat /\ peak <= peak' /\ BehindPeak'
  BY <1>1, <1>3, <1>4, SetStateFacts
<1>6. BallKnown'
  BY <1>1, <1>2, <1>3, <1>4, SetStateFacts DEF BallKnown, ClockInv, throwVars
<1>7. /\ ScrubShowsPast' /\ recorded' # <<>> /\ recorded' \in Seq(States)
      /\ history' \in [Slots -> States] /\ cursor' \in Slots
  BY <1>2, <1>5, RecordShowsPast DEF ClockInv
<1>8. ThrowDue'
  BY <1>2, <1>5, QuietThrows DEF ClockInv
<1>9. ClockTypeOK'
  BY <1>2, <1>5, <1>7 DEF ClockInv, ClockTypeOK, throwVars
<1> QED
  BY <1>5, <1>6, <1>7, <1>8, <1>9 DEF ClockInv

LEMMA SyncStateInv ==
  ASSUME ClockInv, SyncState PROVE ClockInv'
<1> DEFINE back == "reset" \in pending
           scrub == IF back THEN 0 ELSE scrub_index
<1>1. /\ inFrame' = FALSE /\ pending' = {} /\ scrub_index' = scrub
      /\ moved' = (moved \/ pending # {})
      /\ UNCHANGED <<run, historyVars, simulation_running, throwVars>>
  BY DEF SyncState
<1>2. scrub \in (1 - NHistory)..0 /\ peak \in Nat /\ state \in States
  BY ClockConstants DEF ClockInv, ClockTypeOK
<1>3. PICK s \in States : SetState(s) /\ (pending = {} => s = state)
  <2>1. CASE "load_key" \in pending \/ (back /\ "load_from_history" \notin pending)
    <3>1. PICK ball \in {"up", "low"} : SetState([time |-> 0, ball |-> ball])
      BY <2>1 DEF SyncState
    <3>2. [time |-> 0, ball |-> ball] \in States
      BY DEF States
    <3> QED
      BY <2>1, <3>1, <3>2
  <2>2. CASE ~("load_key" \in pending \/ (back /\ "load_from_history" \notin pending))
    <3>1. SetState(IF "load_from_history" \in pending THEN history[ScrubSlot(scrub)] ELSE state)
      BY <2>2 DEF SyncState
    <3>2. ScrubSlot(scrub) \in Slots
      BY <1>2, ClockConstants DEF ScrubSlot, Slots, ClockInv, ClockTypeOK
    <3>3. history[ScrubSlot(scrub)] \in States
      BY <3>2 DEF ClockInv, ClockTypeOK
    <3> QED
      BY <1>2, <3>1, <3>3
  <2> QED
    BY <2>1, <2>2
<1>4. state' = s /\ state' \in States /\ peak' \in Nat /\ peak <= peak' /\ BehindPeak'
  BY <1>2, <1>3, SetStateFacts
<1>5. moved' \in BOOLEAN
  BY <1>1
<1>6. BallKnown'
  <2>1. CASE pending = {}
    <3>1. state' = state /\ in_flight' = in_flight
      BY <1>1, <1>3, <1>4, <2>1 DEF throwVars
    <3>2. moved => moved'
      BY <1>1
    <3> QED
      BY <3>1, <3>2 DEF ClockInv, BallKnown
  <2>2. CASE pending # {}
    BY <1>1, <2>2 DEF BallKnown
  <2> QED
    BY <2>1, <2>2
<1>7. /\ run' \in BOOLEAN /\ simulation_running' \in BOOLEAN /\ pending' \subseteq Requests
      /\ inFrame' \in BOOLEAN /\ scrub_index' \in (1 - NHistory)..0
  BY <1>1, <1>2 DEF ClockInv, ClockTypeOK
<1> QED
  BY <1>1, <1>4, <1>5, <1>6, <1>7, QuietInv

LEMMA ClockInvInit == ClockInit => ClockInv
<1> DEFINE first == [time |-> 0, ball |-> "hidden"]
<1> SUFFICES ASSUME ClockInit PROVE ClockInv
  OBVIOUS
<1>1. first \in States /\ first.time = 0 /\ first.ball = "hidden"
  BY DEF States
<1>2. /\ state = first /\ run = TRUE /\ simulation_running = TRUE
      /\ history = [i \in Slots |-> first] /\ cursor = 0 /\ recorded = <<first>>
      /\ scrub_index = 0 /\ pending = {} /\ inFrame = FALSE
      /\ in_flight = FALSE /\ next_throw_time = ThrowDelay /\ throw_start_time = 0
      /\ peak = 0 /\ moved = FALSE
  BY DEF ClockInit
<1> HIDE DEF first
<1>3. recorded \in Seq(States) /\ Len(recorded) = 1 /\ recorded[1] = first /\ recorded # <<>>
  BY <1>1, <1>2
<1>4. ClockTypeOK
  BY <1>1, <1>2, <1>3, ClockConstants DEF ClockTypeOK
<1>5. BehindPeak /\ BallKnown
  BY <1>1, <1>2 DEF BehindPeak, BallKnown
<1>6. ThrowDue
  BY <1>2, ClockConstants DEF ThrowDue
<1>7. ScrubShowsPast
  <2> SUFFICES ASSUME NEW k \in (1 - NHistory)..0 PROVE history[ScrubSlot(k)] = Ago(-k)
    BY DEF ScrubShowsPast
  <2>1. ScrubSlot(k) \in Slots
    BY <1>2, ClockConstants DEF ScrubSlot, Slots
  <2>2. Ago(-k) = first
    BY <1>3, ClockConstants DEF Ago, Later
  <2> QED
    BY <1>2, <2>1, <2>2
<1> QED
  BY <1>3, <1>4, <1>5, <1>6, <1>7 DEF ClockInv

THEOREM ClockInvariance == ClockSpec => []ClockInv
<1>1. ClockInv /\ [ClockNext]_clockVars => ClockInv'
  <2> SUFFICES ASSUME ClockInv, [ClockNext]_clockVars PROVE ClockInv'
    OBVIOUS
  <2>1. CASE UNCHANGED clockVars
    <3>1. UNCHANGED <<state, historyVars, throwVars, peak, simulation_running, moved,
                      run, scrub_index, pending, inFrame>>
      BY <2>1 DEF clockVars
    <3>2. /\ run \in BOOLEAN /\ scrub_index \in (1 - NHistory)..0 /\ pending \subseteq Requests
          /\ inFrame \in BOOLEAN
      BY DEF ClockInv, ClockTypeOK
    <3> QED
      BY <3>1, <3>2, EventInv
  <2> QED
    BY <2>1, StepAndRecordInv, DivergeInv, RobotControlInv, ViewerEventInv, RightKeyStepInv,
       SyncStateInv DEF ClockNext, ViewerEvent
<1> QED
  BY <1>1, ClockInvInit, PTL DEF ClockSpec

(* Every variable keeps its type: the ring's cursor and the scrubber stay  *)
(* within its length.                                                      *)
THEOREM ClockTypeCorrect == ClockSpec => []ClockTypeOK
<1>1. ClockInv => ClockTypeOK
  BY DEF ClockInv
<1> QED
  BY <1>1, ClockInvariance, PTL

(* The scrubber shows the state of so many records ago, for a ring of any  *)
(* length and however often it has wrapped.                                *)
THEOREM ScrubShowsPastHolds == ClockSpec => []ScrubShowsPast
<1>1. ClockInv => ScrubShowsPast
  BY DEF ClockInv
<1> QED
  BY <1>1, ClockInvariance, PTL

(* However the viewer puts the clock back, the next throw is due at most   *)
(* one delay after the greatest time the simulation has reached.           *)
THEOREM ThrowDueHolds == ClockSpec => []ThrowDue
<1>1. ClockInv => ThrowDue
  BY DEF ClockInv
<1> QED
  BY <1>1, ClockInvariance, PTL

(* A flying ball is one the node threw, or the state was put back behind   *)
(* its back.                                                               *)
THEOREM FlightKnownHolds == ClockSpec => []FlightKnown
<1>1. ClockInv => FlightKnown
  BY DEF ClockInv, BallKnown, FlightKnown
<1> QED
  BY <1>1, ClockInvariance, PTL

-----------------------------------------------------------------------------
(***************************************************************************)
(* The joystick (SysJoystick).                                             *)
(***************************************************************************)

(* A bounded set of numbers has a greatest one. *)
LEMMA GreatestNumber ==
  ASSUME NEW S, S \subseteq Nat, S # {}, NEW bound \in Nat, \A n \in S : n <= bound
  PROVE  Max(S) \in S /\ \A n \in S : n <= Max(S)
<1> DEFINE T == {n \in Nat : \A m \in S : m <= n}
           R == OpToRel(<, Nat)
<1>1. IsWellFoundedOn(R, Nat)
  BY NatLessThanWellFounded
<1>2. T \subseteq Nat /\ T # {}
  OBVIOUS
<1>3. PICK n \in T : \A m \in T : ~(<<m, n>> \in R)
  <2> HIDE DEF R, T
  <2> QED
    BY <1>1, <1>2, WFMin
<1>4. \A m \in T : ~(m < n)
  BY <1>3 DEF OpToRel
<1>5. n \in S
  <2> SUFFICES ASSUME n \notin S PROVE FALSE
    OBVIOUS
  <2>1. PICK s \in S : s \in Nat
    OBVIOUS
  <2>2. n \in Nat /\ \A m \in S : m <= n /\ m # n /\ m \in Nat
    BY <1>3
  <2>3. n # 0
    BY <2>1, <2>2
  <2>4. n - 1 \in Nat /\ \A m \in S : m <= n - 1
    BY <2>2, <2>3
  <2> QED
    BY <1>4, <2>2, <2>4
<1>6. \E most \in S : \A y \in S : most >= y
  BY <1>3, <1>5
<1>7. Max(S) \in S /\ \A y \in S : Max(S) >= y
  <2> HIDE DEF T, R
  <2> QED
    BY <1>6, Zenon DEF Max
<1> QED
  BY <1>7

(* Of a press there is what the control loop will find, what the joystick  *)
(* loop has still to set, and what it has still to read: one each at most. *)
Found(p) == IF gamepad = p /\ step = "read" THEN 1 ELSE 0
ToStore(p) == IF p \in pads THEN 1 ELSE 0
ToRead(b) == IF \E i \in DOMAIN events : events[i] = <<b, 1>> THEN 1 ELSE 0

PressInv ==
  /\ presses \in [Buttons -> Nat] /\ taken \in [ButtonPads -> Nat]
  /\ events \in Seq((Buttons \cup Axes) \X Int)
  /\ pads \subseteq Range(Pads) /\ gamepad \in Range(Pads) \cup {NoPad}
  /\ poll \in {"sample", "buttons"} /\ (poll = "sample" => pads = {})
  /\ step \in {"read", "load", "clamp", "clear"}
  /\ \A p \in ButtonPads :
       taken[p] + Found(p) + ToStore(p) + ToRead(p[2]) <= presses[p[2]]

LEMMA PressInvInit == JoystickInit => PressInv
<1> SUFFICES ASSUME JoystickInit PROVE PressInv
  OBVIOUS
<1>1. /\ events = <<>> /\ presses = [b \in Buttons |-> 0] /\ taken = [p \in ButtonPads |-> 0]
      /\ poll = "sample" /\ pads = {} /\ gamepad = NoPad /\ step = "read"
  BY DEF JoystickInit
<1>2. ASSUME NEW p \in ButtonPads
      PROVE  taken[p] + Found(p) + ToStore(p) + ToRead(p[2]) <= presses[p[2]]
  <2>1. p[2] \in Buttons
    BY DEF ButtonPads
  <2>2. p # NoPad
    BY <2>1, JoystickAssumption DEF NoPad
  <2> QED
    BY <1>1, <2>1, <2>2 DEF Found, ToStore, ToRead
<1>3. events \in Seq((Buttons \cup Axes) \X Int)
  BY <1>1
<1> QED
  BY <1>1, <1>2, <1>3 DEF PressInv

(* What a poll finds pressed has been pressed since the last one. *)
LEMMA PressRead ==
  ASSUME PressInv, NEW b \in Buttons, OnPress(b)
  PROVE  ToRead(b) = 1
<1> DEFINE S == Unread(b)
           m == Max(S)
<1>1. events \in Seq((Buttons \cup Axes) \X Int) /\ Len(events) \in Nat
  BY DEF PressInv
<1>2. S \subseteq 1..Len(events) /\ \A i \in S : events[i][1] = b
  BY <1>1 DEF Unread
<1>3. S # {} /\ events[m][2] = 1
  BY DEF OnPress, Pressed, Newest
<1>4. m \in S
  <2>1. S \subseteq Nat /\ \A n \in S : n <= Len(events)
    BY <1>1, <1>2
  <2> HIDE DEF S
  <2> QED
    BY <1>1, <1>3, <2>1, GreatestNumber
<1>5. m \in 1..Len(events) /\ events[m][1] = b
  <2> HIDE DEF S, m
  <2> QED
    BY <1>2, <1>4
<1> HIDE DEF m
<1>6. events[m] \in (Buttons \cup Axes) \X Int
  BY <1>1, <1>5
<1>7. events[m] = <<b, 1>> /\ m \in DOMAIN events
  BY <1>1, <1>3, <1>5, <1>6
<1> QED
  BY <1>7 DEF ToRead

(* A button applies when its press is seen, no axis stands for it. *)
LEMMA PadPressed ==
  ASSUME NEW p \in ButtonPads, Applies(p)
  PROVE  p[2] \in on_press'
<1>1. p[2] \in {"A", "B", "X", "Y", "LB", "RB", "LStick", "RStick"}
  BY JoystickAssumption DEF ButtonPads
<1>2. /\ p[2] # "DPadUp" /\ p[2] # "DPadDown" /\ p[2] # "DPadRight" /\ p[2] # "DPadLeft"
  BY <1>1
<1>3. Tilted(p[2], p[1]) = FALSE
  BY <1>2 DEF Tilted
<1> QED
  BY <1>3 DEF Applies

LEMMA PressInvStep ==
  ASSUME PressInv, [JoystickNext]_joystickVars
  PROVE  PressInv'
<1> USE DEF deviceVars, handVars, controlVars, onlyStep
<1>0. /\ presses \in [Buttons -> Nat] /\ taken \in [ButtonPads -> Nat]
      /\ \A p \in ButtonPads : taken[p] + Found(p) + ToStore(p) + ToRead(p[2]) <= presses[p[2]]
  BY DEF PressInv
<1>a. \A p \in ButtonPads : p[2] \in Buttons /\ p # NoPad /\ p \in Range(Pads)
  BY JoystickAssumption DEF ButtonPads, NoPad
<1>b. \A p : Found(p) \in {0, 1} /\ ToStore(p) \in {0, 1} /\ ToRead(p) \in {0, 1}
  BY DEF Found, ToStore, ToRead
<1>1. ASSUME NEW input \in Buttons \cup Axes, NEW value \in Int, Move(input, value)
      PROVE  PressInv'
  <2>1. /\ events' = Append(events, <<input, value>>)
        /\ presses' = IF input \in Buttons /\ value = 1
                      THEN [presses EXCEPT ![input] = @ + 1] ELSE presses
        /\ UNCHANGED <<pads, poll, gamepad, step, taken>>
    BY <1>1 DEF Move
  <2>2. events' \in Seq((Buttons \cup Axes) \X Int)
    BY <2>1 DEF PressInv
  <2>3. presses' \in [Buttons -> Nat]
    BY <1>0, <2>1
  <2>4. ASSUME NEW p \in ButtonPads
        PROVE  taken'[p] + Found(p)' + ToStore(p)' + ToRead(p[2])' <= presses'[p[2]]
    <3>1. taken'[p] = taken[p] /\ Found(p)' = Found(p) /\ ToStore(p)' = ToStore(p)
      BY <2>1 DEF Found, ToStore
    <3>2. CASE input = p[2] /\ value = 1
      <4>1. presses'[p[2]] = presses[p[2]] + 1
        BY <1>0, <1>a, <2>1, <3>2
      <4>2. ToRead(p[2])' \in {0, 1}
        BY DEF ToRead
      <4> QED
        BY <1>0, <1>a, <1>b, <3>1, <4>1, <4>2
    <3>3. CASE ~(input = p[2] /\ value = 1)
      <4>1. presses'[p[2]] = presses[p[2]]
        BY <1>0, <1>a, <2>1, <3>3
      <4>2. ToRead(p[2])' = 1 => ToRead(p[2]) = 1
        <5> SUFFICES ASSUME NEW i \in DOMAIN events', events'[i] = <<p[2], 1>>
                     PROVE  \E j \in DOMAIN events : events[j] = <<p[2], 1>>
          BY DEF ToRead
        <5>1. events \in Seq((Buttons \cup Axes) \X Int) /\ <<input, value>> # <<p[2], 1>>
          BY <3>3 DEF PressInv
        <5>2. i \in DOMAIN events /\ events[i] = events'[i]
          BY <2>1, <5>1
        <5> QED
          BY <5>2
      <4>3. ToRead(p[2])' \in {0, 1}
        BY DEF ToRead
      <4> QED
        BY <1>0, <1>a, <1>b, <3>1, <4>1, <4>2, <4>3
    <3> QED
      BY <3>2, <3>3
  <2> QED
    BY <2>1, <2>2, <2>3, <2>4 DEF PressInv
<1>2. CASE Sample
  <2>1. /\ on_press' = {b \in Buttons : OnPress(b)} /\ events' = <<>>
        /\ pads' = {p \in Range(Pads) : Applies(p)} /\ poll = "sample" /\ poll' = "buttons"
        /\ UNCHANGED <<presses, gamepad, step, taken>>
    BY <1>2 DEF Sample
  <2>2. pads = {}
    BY <2>1 DEF PressInv
  <2>3. ASSUME NEW p \in ButtonPads
        PROVE  taken'[p] + Found(p)' + ToStore(p)' + ToRead(p[2])' <= presses'[p[2]]
    <3>1. taken'[p] = taken[p] /\ Found(p)' = Found(p) /\ presses' = presses
      BY <2>1 DEF Found
    <3>2. ToStore(p) = 0 /\ ToRead(p[2])' = 0
      BY <2>1, <2>2 DEF ToStore, ToRead
    <3>3. ToStore(p)' = 1 => ToRead(p[2]) = 1
      <4> SUFFICES ASSUME p \in pads' PROVE ToRead(p[2]) = 1
        BY DEF ToStore
      <4>1. p[2] \in on_press'
        BY <2>1, PadPressed
      <4> QED
        BY <2>1, <4>1, PressRead
    <3>4. ToStore(p)' \in {0, 1}
      BY DEF ToStore
    <3> QED
      BY <1>0, <1>a, <1>b, <3>1, <3>2, <3>3, <3>4
  <2>4. events' \in Seq((Buttons \cup Axes) \X Int)
    BY <2>1
  <2> QED
    BY <2>1, <2>3, <2>4 DEF PressInv
<1>3. CASE SetGamepad
  <2>1. PICK q \in pads : gamepad' = q /\ pads' = pads \ {q}
    BY <1>3 DEF SetGamepad
  <2>2. UNCHANGED <<events, presses, poll, step, taken>> /\ poll = "buttons"
    BY <1>3 DEF SetGamepad
  <2>3. ASSUME NEW p \in ButtonPads
        PROVE  taken'[p] + Found(p)' + ToStore(p)' + ToRead(p[2])' <= presses'[p[2]]
    <3>1. taken'[p] = taken[p] /\ ToRead(p[2])' = ToRead(p[2]) /\ presses' = presses
      BY <2>2 DEF ToRead
    <3>2. Found(p)' + ToStore(p)' <= Found(p) + ToStore(p)
      BY <2>1, <2>2 DEF Found, ToStore
    <3>3. Found(p)' \in {0, 1} /\ ToStore(p)' \in {0, 1}
      BY DEF Found, ToStore
    <3> QED
      BY <1>0, <1>a, <1>b, <3>1, <3>2, <3>3
  <2> QED
    BY <2>1, <2>2, <2>3 DEF PressInv
<1>4. CASE SetSpeed
  <2>1. UNCHANGED <<events, presses, pads, gamepad, step, taken>> /\ poll' = "sample" /\ pads = {}
    BY <1>4 DEF SetSpeed
  <2> QED
    BY <2>1 DEF PressInv, Found, ToStore, ToRead
<1>5. CASE Read
  <2>1. /\ step = "read" /\ step' \in {"load", "clear"}
        /\ taken' = IF gamepad[2] \in Buttons THEN [taken EXCEPT ![gamepad] = @ + 1] ELSE taken
        /\ UNCHANGED <<events, presses, pads, poll, gamepad>>
    BY <1>5 DEF Read
  <2>2. gamepad[2] \in Buttons => gamepad \in ButtonPads
    BY JoystickAssumption DEF PressInv, ButtonPads, NoPad
  <2>3. taken' \in [ButtonPads -> Nat]
    BY <1>0, <2>1, <2>2
  <2>4. ASSUME NEW p \in ButtonPads
        PROVE  taken'[p] + Found(p)' + ToStore(p)' + ToRead(p[2])' <= presses'[p[2]]
    <3>1. /\ ToStore(p)' = ToStore(p) /\ ToRead(p[2])' = ToRead(p[2]) /\ presses' = presses
          /\ Found(p)' = 0
      BY <2>1 DEF ToStore, ToRead, Found
    <3>2. taken'[p] = taken[p] + Found(p)
      BY <1>0, <1>a, <2>1, <2>2 DEF Found
    <3> QED
      BY <1>0, <1>a, <1>b, <3>1, <3>2
  <2> QED
    BY <2>1, <2>3, <2>4 DEF PressInv
<1>6. CASE LoadSpeed
  <2>1. UNCHANGED <<events, presses, pads, poll, gamepad, taken>> /\ step = "load" /\ step' = "clamp"
    BY <1>6 DEF LoadSpeed
  <2> QED
    BY <2>1 DEF PressInv, Found, ToStore, ToRead
<1>7. CASE ClampSpeed
  <2>1. UNCHANGED <<events, presses, pads, poll, gamepad, taken>> /\ step = "clamp" /\ step' = "clear"
    BY <1>7 DEF ClampSpeed
  <2> QED
    BY <2>1 DEF PressInv, Found, ToStore, ToRead
<1>8. CASE ClearInput
  <2>1. /\ UNCHANGED <<events, presses, pads, poll, taken>> /\ step = "clear" /\ step' = "read"
        /\ gamepad' = NoPad
    BY <1>8 DEF ClearInput
  <2>2. ASSUME NEW p \in ButtonPads
        PROVE  taken'[p] + Found(p)' + ToStore(p)' + ToRead(p[2])' <= presses'[p[2]]
    <3>1. Found(p)' = 0 /\ Found(p) = 0
      BY <1>a, <2>1 DEF Found
    <3> QED
      BY <1>0, <2>1, <3>1 DEF ToStore, ToRead
  <2> QED
    BY <2>1, <2>2 DEF PressInv
<1>9. CASE UNCHANGED joystickVars
  BY <1>9 DEF PressInv, Found, ToStore, ToRead, joystickVars
<1>10. ASSUME NEW a \in Axes, NEW v \in Positions, Move(a, v) PROVE PressInv'
  BY <1>1, <1>10, JoystickAssumption
<1>11. ASSUME NEW b \in Buttons, NEW v \in {0, 1}, Move(b, v) PROVE PressInv'
  BY <1>1, <1>11
<1> QED
  BY <1>2, <1>3, <1>4, <1>5, <1>6, <1>7, <1>8, <1>9, <1>10, <1>11
     DEF JoystickNext, JoystickLoop, ControlLoop

(* However the two loops and the operator's hand take turns, and however   *)
(* long it holds a button: a press is obeyed once at most.                 *)
THEOREM OncePerPressHolds == JoystickSpec => []OncePerPress
<1>1. PressInv => OncePerPress
  <2> SUFFICES ASSUME PressInv, NEW p \in ButtonPads
               PROVE  taken[p] <= presses[p[2]]
    BY DEF OncePerPress
  <2>1. taken[p] \in Nat /\ p[2] \in Buttons /\ presses[p[2]] \in Nat
    BY DEF PressInv, ButtonPads
  <2>2. Found(p) \in {0, 1} /\ ToStore(p) \in {0, 1} /\ ToRead(p[2]) \in {0, 1}
    BY DEF Found, ToStore, ToRead
  <2>3. taken[p] + Found(p) + ToStore(p) + ToRead(p[2]) <= presses[p[2]]
    BY DEF PressInv
  <2> QED
    BY <2>1, <2>2, <2>3
<1> QED
  BY <1>1, PressInvInit, PressInvStep, PTL DEF JoystickSpec
=============================================================================
