SPECIFICATION RuntimeSpec
CONSTANTS
  Accounts = {a1, a2}
  Pot = pot
  Providers = {p1}
  None = none
  Active = active
  Accuracy = 1000
  MaxBalance = 1000
  ExistentialDeposit = 2
  DefaultBlocksPerEra = 1
  ProviderRewardsPercentage = 500
  MinProviderStake = 2
  MaxDelegatorsPerProvider = 2
  MinDelegatorStake = 2
  MaxEraStakeValues = 3
  UnbondingPeriod = 1
  MaxUnlockingChunks = 1
  InitialBalance = 4
  Amounts = {2}
  Rewards = {}
  EraLengths = {2}
  MaxEraRewards = 9
  MaxEra = 2
  MaxBlock = 2
  ProjectIds = {j1}
  ChainNames = {eth}
  Reasons = {unregistered, outOfSync}
  UnRegistered = unregistered
  QuotaUnit = 2
  GenesisRegulators = {a1, a2}
  GenesisChainIds = {eth}
  Deposits = {3}
  Usages = {1}
  RewardAmount = 5
  GenesisRewardConfig <- EvenSplit
  RewardConfigs <- Configs
SYMMETRY Symmetry
INVARIANTS
  RuntimeTypeOK
  StatusesAgree
  ReservedLedger
PROPERTIES
  TokensKept
  QuotaPaidFor
  ImplementsProviderLife
CHECK_DEADLOCK FALSE
