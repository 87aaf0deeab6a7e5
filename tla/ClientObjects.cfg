CONSTANTS
  p1 = p1
  p2 = p2
  c1 = c1
  c2 = c2
  Parent = {p1, p2}
  Child = {c1}
  MaxTime = 3
  MaxDrops = 2
  Nobody = Nobody
  Unlinked = Unlinked
SPECIFICATION Spec
INVARIANTS LinksFollowRows ListsAreReferences ShownIsCurrent
SYMMETRY Symmetry
