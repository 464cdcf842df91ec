SPECIFICATION FairSpec
CONSTANTS
  MaxEvents = 5
  Fds <- MCFds
  Instances = {1, 2}
  Ifaces <- MCIfaces
  Clients = {"tray", "log", "tool"}
  KindOf <- MCKindOf
  MaxAsks <- MCMaxAsks
  MaxMoves = 1
CHECK_DEADLOCK FALSE
INVARIANTS TypeOK HandlersMatch BlocksOnlyAbove LeakIsRefusal AnswersLag CutOnlyAfterHangUp
PROPERTY Served
