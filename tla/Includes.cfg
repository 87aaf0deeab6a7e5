CONSTANTS
  p1 = p1
  p2 = p2
  c1 = c1
  s1 = s1
  s2 = s2
  Root = {p1, p2}
  Child = {c1}
  Kind = "many"
  Client = {s1, s2}
  MaxInFlight = 2
  Transactions = TRUE
  Meetings = FALSE
  Absent = Absent
  None = None
  Unanswered = Unanswered
SPECIFICATION Spec
INVARIANTS MarksAreScope TreeIsHeld RootsAreTold
SYMMETRY Symmetry
