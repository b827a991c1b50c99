CONSTANTS
  Device = {d1}
  Chal = {c1, c2}
  Sess = {s1, s2}
  Flow = {f1, f2}
  Loads = {l1, l2}
  Logouts = {o1}
  None = None
SPECIFICATION Spec
INVARIANTS TypeOK HeldSessions SignedOutGone OneLoad
PROPERTIES WaitingEnds SignOutLands
