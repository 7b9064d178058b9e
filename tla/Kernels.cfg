CONSTANTS
  Lanes = 4
  MaxPerLane = 3
  Warps = 2
  WideWarps = 3
  SplitLimit = 1
  SplitWide = 3
  FaTile = 2
  FaQueries = 2
  FaDim = 4
  FaGroup = 2
  AttnJobs <- MCAttnJobs
  NormThreads = 8
  FusedColumns = 64
  ArgmaxBlocks = 2
  NormJobs <- MCNormJobs
  EachThreads = 8
  EachJobs <- MCEachJobs
  DeltaRows = 4
  WideSize = 8
  DeltaShapes <- MCDeltaShapes
  GdnJobs <- MCGdnJobs
  Slots <- MCSlots
  ActBlocks <- MCActBlocks
  BlockWords <- MCBlockWords
  LutWords <- MCLutWords
  BatchNs = {2, 4}
  UnrollNs = {4}
  MaxWarps = 8
  MatvecJobs <- MCMatvecJobs
  BigTile <- MCBigTile
  SmallTile <- MCSmallTile
  BenchTile <- MCBenchTile
  BigBatch = 6
  SubBatch = 4
  WmmaWarps = 2
  WmmaOn = TRUE
  GemmJobs <- MCGemmJobs
SPECIFICATION KernelsSpec
INVARIANTS
  AttentionExact
  FusedExact
  RecurrenceExact
  ProductExact
