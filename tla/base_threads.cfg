SPECIFICATION Spec
CONSTANTS
  r = r
  s = s
  tm = tm
  x = x
  d1 = d1
  d2 = d2
  Notify = notify
  None = none
  Loop = loop
  Events = {r, s, x}
  Deferreds = {d1}
  Threads = {t1}
  NPri = 2
  IO = {r, s}
  Persist = {r}
  EvFinalize = {s}
  ExitEvents = {x}
  LoopFlags = {}
  MaxDispatch = 2
  LimitAfter = 1
  MaxDeferreds = 0
  ActiveWith = {"READ"}
  Delays = {}
  MaxTime = 1
  MaxVirtual = 1
  AddMayFail = FALSE
  Spurious = FALSE
  Ops = {"add", "del", "active", "break", "schedule", "exit", "virtual", "eintr", "error"}
  Pri <- MCPri
  Fd <- MCFd
INVARIANTS TypeOK QueuesMatchFlags CountsMatchFlags NoLostWakeup DeletedEventsAreQuiet
PROPERTIES PriorityRespected
