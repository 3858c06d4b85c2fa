SPECIFICATION Spec
CONSTANTS
  d1 = d1
  d2 = d2
  Devices = {d1}
  ForgetOptions <- DeviceForgetOptions
  OwnOps = {}
  AppOps = {"deleteLater"}
  Oversized = TRUE
  MaxNesting = 0
INVARIANTS NoMemoryFault
