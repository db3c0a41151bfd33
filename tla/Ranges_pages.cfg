SPECIFICATION Spec
CONSTANTS
  PageSize = 4
  Top = 16
  Addrs <- MCAddrs
  Ids = {0, 3, 4}
  MaxArgs = 2
  Tools = {"vmcall", "hrange", "forkserver"}
INVARIANTS SubmitsFewestPages OnlyTopWraps
