CONSTANTS
  Id = {p, u}
  Fk = {author, editor}
  Paired = {author}
  Nil = Nil
  NoRow = NoRow
  MaxMet = 1
  MaxInFlight = 2
SPECIFICATION GraphSpec
INVARIANTS EdgesAreReferenced ReferencesAreEdges EdgesAreTrue EdgesAreComplete
SYMMETRY Symmetry
