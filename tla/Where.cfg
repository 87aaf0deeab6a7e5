CONSTANTS
  Null = Null
  Schema <- MCSchema
  Field <- MCField
  Wordy <- MCWordy
  NotNull <- MCNotNull
  Root = "posts"
  Condition <- MCCondition
  Databases <- MCDatabases
  Inserted <- MCInserted
  Updated <- MCUpdated
  MaxChain = 2
  MaxWrites = 2
SPECIFICATION Spec
INVARIANTS MembersAreSelected RowsComeOnce ChainNarrows
\* The number of writes is bounded.
CHECK_DEADLOCK FALSE
