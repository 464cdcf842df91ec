SPECIFICATION Spec
CONSTANTS
  Modulus = 3
  Essids = {"home"}
  KindOf <- MCHome
  RescanSecs = 1
  AssocSecs = 1
  PassiveSecs = 1
  HeldSecs = 1
  PollSecs = 1
  AutoAssociate = FALSE
  PassiveScan = FALSE
  UserRequests = {"connect", "disassociate", "stop", "scan", "lock", "logoff", "disconnect", "unbind"}
  LinkEvents = {"associated","key","frame","down"}
CHECK_DEADLOCK FALSE
INVARIANTS WaitIsTimed
PROPERTY PortFollowsLink
