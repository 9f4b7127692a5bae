SPECIFICATION MCSpec
CONSTANTS
  alice = alice
  bob = bob
  r1 = r1
  r2 = r2
  owner = owner
  brc = brc
  btc = btc
  Prices = {3, 5}
  Users = {alice, bob}
  Relayers = {r1, r2}
  Accounts <- MCAccounts
  RelayerOwner <- MCRelayerOwner
  FeeRate <- MCFeeRate
  MasternodeOwner = mn
  Native = brc
  OtherLast = 0
  BaseFee = 10
  DefaultFeeRate = 5
  RelayerFee = 1
  RelayerCancelFee = 1
  LockedFund = 10
  Deposits <- MCDeposits
  Quantities = {1, 3}
  Sizes = {1, 2}
  MaxOrders = 2
  MaxChanges = 7
  Markets <- MCMarkets
INVARIANTS
  TokensConserved
  SettlementNeverFails
  PriceTimePriority
PROPERTY RevertRestoresOrders
CHECK_DEADLOCK FALSE
