SPECIFICATION Spec
CONSTANTS
  Accounts = {a1, a2}
  Pot = pot
  Providers = {p1}
  None = none
  Active = active
  Accuracy = 1000
  MaxBalance = 1000
  ExistentialDeposit = 2
  DefaultBlocksPerEra = 1
  ProviderRewardsPercentage = 500
  MinProviderStake = 1
  MaxDelegatorsPerProvider = 2
  MinDelegatorStake = 2
  MaxEraStakeValues = 4
  UnbondingPeriod = 1
  MaxUnlockingChunks = 2
  InitialBalance = 3
  Amounts = {1, 2}
  Rewards = {}
  EraLengths = {2}
  MaxEraRewards = 3
  MaxEra = 3
  MaxBlock = 3
SYMMETRY Symmetry
INVARIANTS
  TypeOK
  ReservedLedger
  ProviderTotals
  DelegationsWellFormed
  UnbondingWellFormed
  MinimumStakes
PROPERTIES
  ImplementsStakeLedger
CHECK_DEADLOCK FALSE
