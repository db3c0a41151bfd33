SPECIFICATION SpecNoWatchdog
CONSTANTS
  MaxPayloads = 3
  Sizes = {1, 2, 3}
  HostConfigs <- MCHostConfigs
  allow_persistent = TRUE
  stdin_mode = FALSE
  PayloadMax = 2
  PipeCapacity = 1
  Helpers = TRUE
  Stops = TRUE
  Faults = {"alloc", "fork"}
INVARIANTS OnlyHelpersPreempt
PROPERTIES EndedTargetJudged
