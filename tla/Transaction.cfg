CONSTANTS
  MaxWrites = 4
  MaxDepth = 3
  Settings <- AllSettings
SPECIFICATION TxSpec
INVARIANTS StacksFollowSavepoints NotifiedIsDurable
\* The writes of a behaviour are bounded.
CHECK_DEADLOCK FALSE
