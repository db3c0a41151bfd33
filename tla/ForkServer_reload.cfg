SPECIFICATION Spec
CONSTANTS
  MaxPayloads = 3
  Sizes = {1, 2, 3}
  HostConfigs <- MCHostConfigs
  allow_persistent = FALSE
  stdin_mode = TRUE
  PayloadMax = 2
  PipeCapacity = 1
  Helpers = TRUE
  Stops = TRUE
  Faults = {"setup", "ranges", "fork", "feed", "splice"}
INVARIANTS TypeOK OnlyHelpersPreempt PayloadFitsBuffer WholePayloadFed
PROPERTIES ReloadForksOnce CampaignEnds ImplementsCampaign EveryPayloadJudged
