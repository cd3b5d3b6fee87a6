SPECIFICATION Spec
CONSTANTS
  Operators = {p1, p2}
  Rows = {1, 2}
  Vintages = {2}
  Bundles = {"b1", "b2"}
  RowsOf <- MCRowsOf
SYMMETRY Interchangeable
INVARIANT OneOwner
INVARIANT ImportedOnce
PROPERTY LiveKept
PROPERTY CommitsWhole
