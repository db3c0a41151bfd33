SPECIFICATION Spec
CONSTANTS
  MaxPayloads = 3
  Sizes = {1, 2, 3}
  HostConfigs <- MCHostConfigs
  allow_persistent = TRUE
  stdin_mode = FALSE
  PayloadMax = 2
  PipeCapacity = 1
  Helpers = FALSE
  Stops = TRUE
  Faults = {"setup", "ranges", "fork", "feed"}
INVARIANTS VerdictFits WholePayloadFed NoStrayHypercall
PROPERTIES ImplementsCampaign
