CONSTANTS
  Cli = {p1, p2}
  Ident = {i1, i2, i3}
  None = None
SPECIFICATION Spec
SYMMETRY IdentitySymmetry
INVARIANTS TypeOK StoreUsable BridgeAgrees
PROPERTIES KeyNotReplaced
