SPECIFICATION MCSpec
CONSTANTS
  i1 = i1
  f1 = f1
  a1 = a1
  a2 = a2
  a0 = a0
  Peers = {p1, p2}
  None = none
  Blocks = {a1, a2}
  Root = a0
  ParentHash <- TwoBlocks
  Empty = {a2}
  HashLimit = 2
  BlockLimit = 1
  MaxUncleDist = 0
  MaxQueueDist = 2
  MaxNotices = 3
  Block <- ForkBlocks
  Genesis = "g"
  Parent <- ForkParent
  Number <- ForkNumber
  Td <- ForkTd
  NoBlock = NoBlock
  Importers = {i1}
  Fetchers = {f1}
  Rewinder = rw
  NoThread = NoThread
  Environments <- MCEnvironments
INVARIANTS CanonicalChain HeadHasState QueueCountsExact LookupMatchesLists PendingIsExecutable
PROPERTIES CheckedCommittedStays RunRestoresLimits DiscardedReturn
VIEW RunningVars
CHECK_DEADLOCK FALSE
