CONSTANTS
  m1 = m1
  m2 = m2
  Nil = Nil
  MasternodeList <- TwoMasternodes
  Restarting = {}
  CertNum = 667
  CertDen = 1000
  Epoch = 900
  TimeoutSyncThreshold = 1
  PoolHygieneRound = 10
  Rounds = {1}
  TimeoutRounds = {1, 2}
  Bodies = {1}
SPECIFICATION GossipSpec
PROPERTIES
  RoundsEnd
CHECK_DEADLOCK FALSE
