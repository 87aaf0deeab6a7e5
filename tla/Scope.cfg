CONSTANTS
  Id = {1, 2, 3}
  Value = {1, 2}
  Nil = Nil
  Directions <- MCDirections
  Limit = 2
  Client = {c1, c2}
  MaxInFlight = 1
  Updates = TRUE
  Transactions = {"INSERT"}
  MaxFailures = 2
  Absent = Absent
  Unanswered = Unanswered
SPECIFICATION Spec
INVARIANTS WindowIsTop ViewIsWindow NoThrow HeldRowsAreCurrent FailureCostsARow
