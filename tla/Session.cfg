CONSTANTS
  q1 = q1
  Query = {q1}
  AutoReconnect = TRUE
  ReconnectLimit = 0
  MaxCalls = 4
SPECIFICATION FairSpec
INVARIANTS OneSocket LoadedIsServed NoCallbackIsLeft
PROPERTIES LoadedIsServedInTheEnd
\* The page may have nothing more to do.
CHECK_DEADLOCK FALSE
