SPECIFICATION Spec
CONSTANTS
  Writers = {w1, w2, w3}
  Readers = {r1, r2}
  Inodes = {f1, f2, f3, f4}
  Locked = TRUE
  None = None
INVARIANTS
  FinalWhole
PROPERTIES
  ImplementsRegister
