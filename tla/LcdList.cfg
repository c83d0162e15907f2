SPECIFICATION FairSpec
CONSTANTS
  NodeNum = 3
  NULL = NULL
INVARIANTS
  WellLinked
  AddFindsANode
  BlocksAccountedFor
PROPERTIES
  DrawnOnce
  ImplementsDisplayItems
  CallsReturn
