SPECIFICATION HistorySpec
CONSTANTS
  Accounts = {a1}
  Pot = pot
  Providers = {p1}
  None = none
  Active = active
  Accuracy = 1000
  MaxBalance = 1000
  ExistentialDeposit = 1
  DefaultBlocksPerEra = 2
  ProviderRewardsPercentage = 500
  MinProviderStake = 1
  MaxDelegatorsPerProvider = 2
  MinDelegatorStake = 1
  MaxEraStakeValues = 4
  UnbondingPeriod = 1
  MaxUnlockingChunks = 2
  InitialBalance = 3
  Amounts = {}
  Rewards = {}
  EraLengths = {1, 3}
  MaxEraRewards = 3
  MaxEra = 3
  MaxBlock = 6
PROPERTIES
  EraLastsItsLength
CHECK_DEADLOCK FALSE
