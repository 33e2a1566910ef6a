SPECIFICATION Spec
CONSTANTS
  Accounts = {v1, c1, c2}
  Pot = pot
  None = none
  Accuracy = 1000
  MaxBalance = 1000
  ExistentialDeposit = 1
  GenesisKeys = {v1, c1, c2}
  SessionPeriod = 2
  MinCandidates = 1
  KickThreshold = 2
  SlashRatio = 500
  GenesisInvulnerables = {v1}
  GenesisDesired = 2
  GenesisBond = 1
  InitialBalance = 2
  InvulnerableSets = {{v1}, {v1, c1}}
  DesiredCounts = {1}
  Bonds = {2}
  Fees = {1}
  KeyChangers = {c1}
  SlashDestinations = {v1}
  MaxIssuance = 7
INVARIANTS
  ValidatorTypeOK
  DepositsReserved
PROPERTIES
  MinimumKept
  KickedAfterTerm
  IdleCandidatesKicked
  CandidatesElected
  LeaversRetire
