CONSTANTS
  m1 = m1
  m2 = m2
  m3 = m3
  Nil = Nil
  MasternodeList <- TwoMasternodes
  Restarting = {m1}
  CertNum = 667
  CertDen = 1000
  Epoch = 900
  TimeoutSyncThreshold = 1
  PoolHygieneRound = 0
  Rounds = {1, 2, 3}
  TimeoutRounds = {1}
  Bodies = {1, 2}
SPECIFICATION Spec
INVARIANTS
  RoundFollowsCertificates
  CertificatesAreSigned
PROPERTIES
  ImplementsChainedBFT
CHECK_DEADLOCK FALSE
CONSTRAINT FewBlocks
