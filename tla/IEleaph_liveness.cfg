SPECIFICATION FairSpec
CONSTANTS
  d1 = d1
  d2 = d2
  Devices = {d1, d2}
  ForgetOptions <- UsualOptions
  OwnOps = {"deleteLater"}
  AppOps = {"close", "deleteLater"}
  Oversized = FALSE
  MaxNesting = 0
PROPERTIES SilentIsForgotten KilledOnDisconnect SparesTheLiving
