SPECIFICATION Spec
CONSTANTS
  MaxPayloads = 3
  Sizes = {1, 2, 3}
  HostConfigs <- MCHostConfigs
  PayloadMax = 2
  MaxLost = 2
  Agents = {"zephyr", "uefi_app", "uefi_dxe", "vuln_test", "selffuzz",
            "gdiplus", "loadfont", "macos"}
INVARIANTS TypeOK VerdictFits NoStrayHypercall PayloadFitsBuffer AgentStays
           ReturnsAfterVerdict FileHoldsPayload
PROPERTIES CampaignEnds ImplementsCampaign
