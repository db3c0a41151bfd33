SPECIFICATION Spec
CONSTANTS
  MaxPayloads = 3
  Sizes = {1, 2, 3, 4}
  HostConfigs <- MCHostConfigs
  PayloadMax = 4
  FlagsSize = 1
  WarmUpSize = 3
  Faults = {"open", "write", "short", "capacity", "umount"}
INVARIANTS TypeOK MountDependsOnPayload StartsAlike
PROPERTIES ImplementsCampaign
