SPECIFICATION Spec
CONSTANTS
  a1 = a1
  a2 = a2
  Alice = Alice
  RootKey = RootKey
  Eve = Eve
  Users = {a1, a2}
  Pot = Pot
  None = none
  Accuracy = 1000
  MaxBalance = 1000
  ExistentialDeposit = 2
  BlockHashCount = 5
  MilliKei = 20
  ExtrinsicBaseWeight = 1
  TransactionByteFee = 1
  CallWeight = 1
  Length = 1
  BlockRoom = 2
  InitialBalance = 12
  Transactions <- TransactionSet
PROPERTY
  FeesToOwnAuthor
