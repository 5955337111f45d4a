\* One instance of every component, one of them moving at a time: safety.
SPECIFICATION PartsBehave
CONSTANTS
  Parts = {"seal", "dag", "rpc", "remote", "local", "batch", "epochs",
           "chain", "dataset", "history", "benchmark"}

  Pools <- MCPools
  Bufs = 2
  DeviceIdx = 1
  DeviceCount = 3
  NonceBits = 5
  StreamBits = 2
  Rounds = 1
  Qualities = {2}

  Gpus = {1, 2}
  Amd = {1}
  Items <- MCItems
  ChunkSize = 4
  GroupSize = 2
  Width = 4

  UrlCount = 3
  SickLimit = 2
  Sharers = {s1}
  SeedEpochs = {1, 2048}

  Tasks = {"b1", "b3"}
  Height <- MCHeight
  Stale = 2
  Callers = {c1, c2}
  Ids = {}
  NotifyUrls = 1
  MaxNotes = 1

  Cpus = 2
  Settings = {1}
  Seals = {1, 2, 3}
  MaxSets = 2

  Batches <- MCBatches
  Procs = 3

  EpochSetups <- MCSetups
  EpochCount = 2
  FutureBelow = 1
  LruSize = 1
  OnDisk = 1
  Objects = {1, 2}
  Users = {1, 2, 3}
  MaxFaults = 1

  Forks <- MCForks
  BombDelay <- MCDelay
  BombPeriod = 2
  BoundDivisor = 4
  MinDifficulty = 4
  GasDivisor = 4
  MinGas = 5
  MaxGas = 100
  Generations = 4
  RewardSpan = 5
  GenesisDiff = 16
  GenesisGas = 8
  Delays = {12}
  MaxHeight = 6
  UncleTags = {1}

  WordBits = 3
  OffsetBits = 5
  HashWords = 2
  CacheRounds = 2
  Parents = 3
  LoopAccesses = 3
  Keccak <- MCKeccak
  Blake <- MCBlake
  CacheRows = 3
  Datasets <- MCDatasets
  SealHashes <- MCHashes
  SealNonces <- MCNonces

  Names = {"n1", "n2", "s"}
  Rates = {"n1", "n2"}
  Resolution = 2
  Duration = 4
  MaxNow = 8
  MaxClears = 1
INVARIANTS
  PartsTypeOK
  StreamsDisjoint KernelFollowsWork SharesWereSearched
  DagWhole InitReady
  FailoverInRange
  AcceptedIsTaken
  SealedOnce
  InHeaderOrder
  ItemUsable
  UnclesPaidOnce UncleRewardsPositive
  LightIsFull SizeTellsEpoch
  ChartIsExact
PROPERTY KeepsRegistry
CHECK_DEADLOCK FALSE
