SPECIFICATION Spec
CONSTANTS
  Accounts = {a1}
  Pot = pot
  Providers = {p1}
  None = none
  Active = active
  Accuracy = 1000
  MaxBalance = 1000
  ExistentialDeposit = 1
  DefaultBlocksPerEra = 1
  ProviderRewardsPercentage = 500
  MinProviderStake = 1
  MaxDelegatorsPerProvider = 2
  MinDelegatorStake = 1
  MaxEraStakeValues = 5
  UnbondingPeriod = 1
  MaxUnlockingChunks = 2
  InitialBalance = 3
  Amounts = {1}
  Rewards = {}
  EraLengths = {}
  MaxEraRewards = 3
  MaxEra = 6
  MaxBlock = 6
INVARIANTS
  EarnedErasReachable
CHECK_DEADLOCK FALSE
