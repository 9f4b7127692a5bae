CONSTANTS
  m1 = m1
  m2 = m2
  m3 = m3
  Nil = Nil
  MasternodeList <- TwoMasternodes
  Restarting = {m1}
  CertNum = 667
  CertDen = 1000
  Epoch = 900
  TimeoutSyncThreshold = 2
  PoolHygieneRound = 10
  Rounds = {1, 2}
  TimeoutRounds = {1, 2}
  Bodies = {1, 2}
VIEW LiveView
SPECIFICATION Spec
INVARIANTS
  VotesOncePerRound
CHECK_DEADLOCK FALSE
