CONSTANTS
  p1 = p1
  p2 = p2
  u1 = u1
  u2 = u2
  s1 = s1
  s2 = s2
  Parent = {p1, p2}
  User = {u1, u2}
  Client = {s1, s2}
  Id = {1, 2, 3, 4}
  Value = {1, 2}
  Nil = Nil
  Directions <- MCDirections
  Limit = 2
  Leaves = FALSE
  Absent = Absent
SPECIFICATION Spec
INVARIANTS ParentWindowsAreTop ViewsAreWindows
SYMMETRY Symmetry
