SPECIFICATION MCSpec
CONSTANTS
  Components = {"countdown", "duration", "worker", "staking"}
  boot = boot
  verifyHeader = verifyHeader
  yourTurn = yourTurn
  h1 = h1
  h2 = h2
  c1 = c1
  c2 = c2
  s1 = s1
  s2 = s2
  g1 = g1
  g2 = g2
  free = free
  loop = loop
  checkpoint = checkpoint
  Initial <- MCInitial
  Configurations <- MCConfigurations
  MaxExponentUpperbound = 32
  PowerLimit = 1024
  Bits = 3
  MaxRounds = 10
INVARIANTS
  AcceptedParams
PROPERTIES
  ResetReturns
  RoundsTimeOut
  NewRoundSeenOrStuck
  MasternodeMinesOrForgotten
  StopEnds
CHECK_DEADLOCK FALSE
