SPECIFICATION FairSpec
CONSTANTS
  Modulus = 3
  Essids = {"office"}
  KindOf <- MCOffice
  RescanSecs = 1
  AssocSecs = 2
  PassiveSecs = 1
  HeldSecs = 1
  PollSecs = 1
  AutoAssociate = TRUE
  PassiveScan = TRUE
  UserRequests = {}
  LinkEvents <- MCLink
CHECK_DEADLOCK FALSE
INVARIANTS WaitIsTimed CountersInRange
PROPERTY WaitsEnd
