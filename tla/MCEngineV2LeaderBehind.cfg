CONSTANTS
  m1 = m1
  m2 = m2
  m3 = m3
  Nil = Nil
  MasternodeList <- LeaderBehindList
  Restarting = {}
  CertNum = 600
  CertDen = 1000
  Epoch = 900
  TimeoutSyncThreshold = 1
  PoolHygieneRound = 10
  Rounds = {1, 2, 3}
  TimeoutRounds = {2}
  Bodies = {1}
VIEW LiveView
SPECIFICATION LeaderBehindSpec
INVARIANTS
  HighestQCIsKnown
PROPERTIES
  StepsImplementChainedBFT
CHECK_DEADLOCK FALSE
