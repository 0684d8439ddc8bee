SPECIFICATION SuiteSpec
CONSTANTS
  Parts = {"socket", "pair", "filter", "ratelimit", "tls", "async"}
  Cap = 2
  Marks <- ReadMarks
  Scenarios <- Cases
  PairCap = 2
  PairMarks = {0, 1}
  PairCalls = 4
  FiltCap = 3
  FiltCalls = 4
  FiltMarks <- FilterMarks
  FiltSetups <- FilterCases
  RateSetups <- RateCases
  MaxAge = 2
  TlsCap = 2
  TlsCalls = 5
  TlsMarks = {0, 1}
  AsyncCap = 2
  AsyncCalls = 3
  AsyncMarks = {0, 1}
  PortThreads = {"t1", "t2"}
INVARIANTS Lifetimes EventsFollowState NothingIsStuck BucketsGovern
CHECK_DEADLOCK FALSE
