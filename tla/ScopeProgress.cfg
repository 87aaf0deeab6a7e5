CONSTANTS
  Id = {1, 2, 3}
  Value = {1, 2}
  Nil = Nil
  Directions <- MCDirections
  Limit = 2
  Client = {c1}
  MaxInFlight = 1
  Updates = TRUE
  Transactions = {}
  MaxFailures = 0
  Absent = Absent
  Unanswered = Unanswered
SPECIFICATION FairSpec
PROPERTY SubscribersCatchUp
