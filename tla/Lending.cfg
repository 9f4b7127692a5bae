SPECIFICATION Spec
CONSTANTS
  ann = ann
  bob = bob
  lock = lock
  owner = owner
  mn = mn
  r1 = r1
  usd = usd
  brc = brc
  btc = btc
  Coins <- MCCoins
  DepositOf = 24
  Prices = {5, 8}
  Terms = {3}
  Collaterals = {btc}
  Accounts <- MCAccounts
  Lock = lock
  Relayers <- MCRelayers
  RelayerOwner <- MCRelayerOwner
  FeeRate <- MCFeeRate
  MasternodeOwner = mn
  Lend = usd
  Native = brc
  LendPrice = 40
  LendDecimal = 40
  CollDecimal = 1
  DepositRate = 150
  LiquidationRate = 110
  RecallRate = 200
  BaseFee = 100
  BaseCancelFee = 1000
  DefaultFeeRate = 5
  RelayerLendingFee = 2
  RelayerLendingCancelFee = 1
  TokenCancelFee <- MCTokenCancelFee
  InterestBase = 100
  OneYear = 1
  RateTopUp = 90
  BaseTopUp = 100
  BaseRecall = 100
  LockedFund = 10
  CancellationFork = TRUE
  LendingFork = TRUE
  Balances <- MCBalances
  Deposits <- MCDeposits
  Orders <- MCOrders
  TopUps = {2}
  FirstQuotes <- MCFirstQuotes
  Quotes <- MCQuotes
  Averages <- MCAverages
  Epoch = 3
  LiquidationBlock = 2
  MaxNonce = 2
  MaxPerBlock = 3
  MaxBlocks = 9
INVARIANTS TokensConserved LockMatchesLoans NoneDue
PROPERTY NoUntimelyEnd
CHECK_DEADLOCK FALSE
