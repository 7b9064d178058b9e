CONSTANTS
  Lanes = 4
  MaxPerLane = 3
  Warps = 2
  WideWarps = 3
  SplitLimit = 1
  SplitWide = 3
  FaTile = 2
  FaQueries = 2
  FaDim = 4
  FaGroup = 2
  AttnJobs = {}
  NormThreads = 8
  FusedColumns = 64
  ArgmaxBlocks = 2
  NormJobs <- MCArgmaxJobs
  EachThreads = 8
  EachJobs = {}
  DeltaRows = 4
  WideSize = 8
  DeltaShapes <- MCDeltaShapes
  GdnJobs = {}
  Slots <- MCSlots
  ActBlocks <- MCActBlocks
  BlockWords <- MCBlockWords
  LutWords <- MCLutWords
  BatchNs = {2, 4}
  UnrollNs = {4}
  MaxWarps = 8
  MatvecJobs = {}
  BigTile <- MCBigTile
  SmallTile <- MCSmallTile
  BenchTile <- MCBenchTile
  BigBatch = 6
  SubBatch = 4
  WmmaWarps = 2
  WmmaOn = TRUE
  GemmJobs = {}
SPECIFICATION KernelsSpec
INVARIANTS
  GreedyIsHostScan
