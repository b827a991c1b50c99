CONSTANTS
  d1 = d1
  d2 = d2
  k1 = k1
  k2 = k2
  t1 = t1
  t2 = t2
  t3 = t3
  Device = {d1}
  Key = {k1}
  Token = {t1}
  TokenDevice <- LoginTokenDevice
  TokenKey <- LoginTokenKey
  Cli = {p1}
  Req = {r1, r2}
  Chal = {c1, c2}
  Sess = {s1, s2}
  None = None
  TokenLifetime = 1
  ChallengeLifetime = 1
  SessionLifetime = 1
  MaxTime = 2
SPECIFICATION Spec
SYMMETRY LoginSymmetry
INVARIANTS TypeOK ChallengeSingleUse LoginProven NoLoginAfterRevocation
PROPERTIES ServedSessionLive ServerPromise
