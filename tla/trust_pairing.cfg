CONSTANTS
  d1 = d1
  d2 = d2
  k1 = k1
  k2 = k2
  t1 = t1
  t2 = t2
  t3 = t3
  Device = {d1, d2}
  Key = {k1, k2}
  Token = {t1, t2, t3}
  TokenDevice <- PairTokenDevice
  TokenKey <- PairTokenKey
  Cli = {p1, p2}
  Req = {}
  Chal = {}
  Sess = {}
  None = None
  TokenLifetime = 1
  ChallengeLifetime = 1
  SessionLifetime = 1
  MaxTime = 2
SPECIFICATION Spec
INVARIANTS PairingOnce AuditTruthful
PROPERTIES RevocationPermanent
