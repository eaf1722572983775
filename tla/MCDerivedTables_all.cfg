\* Every tool in every order, two changes from outside.
SPECIFICATION Spec
CONSTANTS
  NoFile = NoFile
  Torn = Torn
  WireNames <- MCWireNames
  WireClass <- MCWireClass
  GridRows = 2
  GridCols = 2
  InPorts <- MCInPorts
  OutPorts <- MCOutPorts
  ClockPorts = {"CORE_CLK", "DDR_CLK"}
  ResetPorts = {"POR_N"}
  Measured <- MCMeasured
  Footprint = {1}
  Anchor <- MCAnchor
  Alias <- MCAlias
  Previous <- MCPrevious
  PllSites = {"L", "R"}
  FabricTap <- MCFabricTap
  CoreClk <- MCCoreClk
  Dats <- MCDats
  Bitstreams <- MCBitstreams
  Starts <- MCStarts
  MaxChanges = 2
INVARIANTS
  MapIsOneToOne
  SettledIsRouted
  SlotsNameTheirTaps
  CoreClkIsFixed
