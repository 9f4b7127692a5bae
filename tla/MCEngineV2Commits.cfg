CONSTANTS
  m1 = m1
  m2 = m2
  m3 = m3
  Nil = Nil
  MasternodeList <- TwoMasternodes
  Restarting = {}
  CertNum = 667
  CertDen = 1000
  Epoch = 900
  TimeoutSyncThreshold = 2
  PoolHygieneRound = 10
  Rounds = {1, 2, 3, 4, 5}
  TimeoutRounds = {1, 3}
  Bodies = {1}
VIEW LiveView
SPECIFICATION Spec
INVARIANTS
  TimeoutPoolIsCurrent
  CommitsAreCommittable
PROPERTIES
  ImplementsChainedBFT
  NeverGoesBack
CHECK_DEADLOCK FALSE
