SPECIFICATION Spec
CONSTANTS
  None = None
  i1 = i1
  i2 = i2
  Nrs <- MCNrs
  Sizes <- MCSizes
  MaxUp = 1
  Faults = {"fork", "open", "fix", "write"}
SYMMETRY Symmetry
INVARIANTS Watched
