SPECIFICATION Spec
CONSTANTS
  Accounts = {a1}
  Pot = pot
  Providers = {p1, p2}
  None = none
  Active = active
  Accuracy = 1000
  MaxBalance = 1000
  ExistentialDeposit = 2
  DefaultBlocksPerEra = 1
  ProviderRewardsPercentage = 500
  MinProviderStake = 1
  MaxDelegatorsPerProvider = 2
  MinDelegatorStake = 1
  MaxEraStakeValues = 4
  UnbondingPeriod = 2
  MaxUnlockingChunks = 1
  InitialBalance = 2
  Amounts = {1}
  Rewards = {3}
  EraLengths = {}
  MaxEraRewards = 3
  MaxEra = 3
  MaxBlock = 3
SYMMETRY Symmetry
INVARIANTS
  EraStakeTotals
PROPERTIES
  PotShortByDust
  RewardsBooked
  EntitlementsPaidOnce
  FinishedErasImmutable
CHECK_DEADLOCK FALSE
