SPECIFICATION ChainSpec
CONSTANTS
  None = None
  MaxParcels = 2
  MaxPackets = 3
  Channels = 2
  Prepared <- MCPrepared
  Settings <- MCSettings
  Layouts = {"columns", "rows"}
  PacketSizes = {6, 8}
  WholeStripes = TRUE
  History = 4
  MaxSettings = 1
  MaxFrame = 2
INVARIANTS
  TypeOK
  CountIsExact
  CompleteIsExact
  RegistryMatches
  PayloadInside
  HandedOverWhenAllThere
  TemporalImageIsOriginal
  SpatialImageIsOriginal
  ReportIsLast
CHECK_DEADLOCK FALSE
