SPECIFICATION Spec
CONSTANTS
  Timers <- FourTimers
  Events = {per, one}
  Persist = {per}
  None = None
  Delays = {1}
  Durations = {1, 2}
  MaxCommon = 1
  MaxTime = 3
  MaxCalls = 4
  per = per
  one = one
  b1 = b1
  b2 = b2
  b3 = b3
  b4 = b4
INVARIANTS TypeOK HeapAndQueuesAgree EarliestIsOnTop
