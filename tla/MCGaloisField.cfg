\* Every pair of field elements for w = 2, 3, 4 and 8 (the split tables
\* exist only for w = 8).
CONSTANTS
  Widths = {2, 3, 4, 8}
SPECIFICATION Spec
INVARIANTS MultiplyAgrees DivideUndoesMultiply DecodeRecovers
PROPERTY StoreRefinesErasureStore
