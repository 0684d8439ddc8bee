SPECIFICATION Spec
CONSTANTS
  Events = {rd, wr, ot}
  EvFd <- MCEvFd
  EvEvents <- MCEvEvents
  EvET <- EdgeTriggered
  Fds = {f1, f2}
  Files = {a, b}
  Unpollable = {}
  None = None
  ChangelistModes = {TRUE, FALSE}
  Dup = TRUE
  MaxPerFd = 2
  InitialNevent = 1
  MaxNevent = 2
  rd = rd
  wr = wr
  ot = ot
  f1 = f1
  f2 = f2
  a = a
  b = b
INVARIANTS TypeOK LayersAgree
PROPERTIES KernelSpec
