SPECIFICATION Spec
CONSTANTS
  r = r
  s = s
  tm = tm
  x = x
  d1 = d1
  d2 = d2
  Notify = notify
  None = none
  Loop = loop
  Events = {r, tm}
  Deferreds = {}
  Threads = {t1}
  NPri = 2
  IO = {r}
  Persist = {tm, r}
  EvFinalize = {}
  ExitEvents = {}
  LoopFlags = {"ONCE"}
  MaxDispatch = 2
  LimitAfter = 1
  MaxDeferreds = 1
  ActiveWith = {"READ"}
  Delays = {0, 1}
  MaxTime = 3
  MaxVirtual = 0
  AddMayFail = TRUE
  Spurious = FALSE
  Ops = {"add", "del", "remove_timer"}
  Pri <- MCPri
  Fd <- MCFd
INVARIANTS OversleepBounded PersistentTimerStaysScheduled
