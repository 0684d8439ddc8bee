SPECIFICATION FairSpec
CONSTANTS
  r = r
  s = s
  tm = tm
  x = x
  d1 = d1
  d2 = d2
  Notify = notify
  None = none
  Loop = loop
  Events = {s}
  Deferreds = {d1, d2}
  Threads = {t1}
  NPri = 2
  IO = {s}
  Persist = {}
  EvFinalize = {s}
  ExitEvents = {}
  LoopFlags = {"NO_EXIT_ON_EMPTY"}
  MaxDispatch = 2
  LimitAfter = 1
  MaxDeferreds = 1
  ActiveWith = {"READ"}
  Delays = {}
  MaxTime = 1
  MaxVirtual = 0
  AddMayFail = FALSE
  Spurious = TRUE
  Ops = {"add", "del", "active", "active_later", "schedule", "cancel", "continue", "finalize", "assign"}
  Pri <- MCPri
  Fd <- MCFd
INVARIANTS FinalizerRunsOnceAndLast
PROPERTIES ActiveCallbacksGetRun DelWaitersAreSignalled DeferredsYield
