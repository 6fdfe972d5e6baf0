SPECIFICATION Spec
CONSTANTS
  Letters = {"a"}
  AnyRows = AnyRows
  Texts <- MCTexts
  AcceptedChars = 2
  AcceptedFields = 2
  Cells = {e1, e2, e3, e4}
  Values = {1, 2, 3, 4}
  Null = Null
SYMMETRY CellSymmetry
INVARIANTS
  BuffersInBounds
  RowsRead
  WellLinked
PROPERTIES
  ImplementsList
