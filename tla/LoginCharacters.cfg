SPECIFICATION FairSpec
CONSTANTS
  Handlers = {1, 2, 3}
  User <- TwoUsers
INVARIANTS
  TypeOK
  ListAgrees
  RepliesTruthful
PROPERTIES
  EveryRequestReplied
