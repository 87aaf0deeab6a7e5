CONSTANTS
  Id = {1, 2, 3, 4}
  Value = {1}
  Nil = Nil
  Directions <- MCDirections
  Limit = 3
SPECIFICATION FairIndexSpec
INVARIANTS IndexWellFormed
PROPERTIES CallsReturn ImplementsTopWindow
