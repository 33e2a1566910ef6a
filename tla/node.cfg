SPECIFICATION Spec
CONSTANTS
  None = none
  SpecFiles <- Files
  Configurations <- AllConfigurations
INVARIANTS
  NodeTypeOK
  CompleteOrNothing
  RunsWhatItReports
  AuthorsOwnChain
PROPERTIES
  EssentialFailureEndsNode
  AuthoritiesAuthor
CHECK_DEADLOCK FALSE
