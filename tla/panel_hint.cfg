CONSTANTS
  Device = {d1}
  Chal = {c1}
  Sess = {s1}
  Flow = {f1}
  Loads = {l1}
  Logouts = {o1}
  None = None
SPECIFICATION Spec
INVARIANTS RefreshFindsIdentity
