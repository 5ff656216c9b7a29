SPECIFICATION SensorSpec
CONSTANTS
  Nodes = {"real", "gazebo", "mujoco"}
  NumJoints = 2
  MaxMessages = 2
INVARIANTS SnapshotWhole SeesRecent JointOrder
CHECK_DEADLOCK FALSE
