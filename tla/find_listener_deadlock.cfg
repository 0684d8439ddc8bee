SPECIFICATION SuiteSpec
CONSTANTS
  Parts = {"listener"}
  SigBases = {"b1", "b2"}
  Signals = {1, 2}
  SigEvents <- SigCases
  SigCalls = 3
  PipeCap = 2
  SigSetups <- SigCallSets
  BkFds = {0, 1}
  BkCap = 1
  BkSteps = 5
  BkSetups <- BkCases
  LnCalls = 4
  LnConns = 2
  LnSetups <- LnThreadsafe
  AsIds = {1, 2}
  LiCalls = 4
  LkThreads = {1, 2}
  LkLocks = {"glob", "rec", "plain"}
  LkSteps = 9
  Members <- TwoObjects
  LifeSetups <- LifeCases
  LifeCalls = 5
INVARIANTS NoLockCycle
CHECK_DEADLOCK FALSE
