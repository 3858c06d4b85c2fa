SPECIFICATION Spec
CONSTANTS
  d1 = d1
  d2 = d2
  Devices = {d1, d2}
  ForgetOptions <- OnDisconnect
  OwnOps = {"removeDevice", "close", "deleteLater", "wait"}
  AppOps = {"removeDevice", "close", "deleteLater"}
  Oversized = TRUE
  MaxNesting = 1
SYMMETRY Symmetry
INVARIANTS NoDangling RemovedOnce
PROPERTY ImplementsDeviceLife
CHECK_DEADLOCK FALSE
