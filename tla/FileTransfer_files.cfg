SPECIFICATION Spec
CONSTANTS
  Chunk = 2
  PrintMax = 2
  MaxLen = 5
  MaxCommands = 3
  CpuTypes = {"v1", "v2", "none"}
  Cmds = {"hget", "hpush", "hcat"}
  Faults = {"creat", "write", "alloc", "read"}
INVARIANTS PushedInOrder PrintedInOrder
PROPERTIES FetchedWhole
