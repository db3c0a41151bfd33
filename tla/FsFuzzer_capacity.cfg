SPECIFICATION Spec
CONSTANTS
  MaxPayloads = 1
  Sizes = {4}
  HostConfigs <- MCHostConfigs
  PayloadMax = 4
  FlagsSize = 1
  WarmUpSize = 3
  Faults = {"capacity"}
INVARIANTS MountSeesWholeFile
