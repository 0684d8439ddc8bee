SPECIFICATION SuiteSpec
CONSTANTS
  Parts = {"client", "server", "rpc"}
  HttpReqs = {"r1", "r2"}
  HttpSetups <- ClientCases
  MaxInput = 3
  HttpdSetups <- ServerCases
  MaxHttpd = 4
  Rpcs = {"a", "b", "c"}
  RpcConns = {1, 2}
  RpcSetups <- RpcCases
INVARIANTS RequestsEnd RequestsProgress NoAssertionFails
CHECK_DEADLOCK FALSE
