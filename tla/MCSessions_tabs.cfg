SPECIFICATION Spec
CONSTANTS
  NoUser = NoUser
  Users = {u1}
  t1 = t1
  t2 = t2
  Tabs = {t1, t2}
  c1 = c1
  Calls = {c1}
  Home <- MCHome
  Handlers = {h1, h2}
  None = None
  AccessLife = 1
  RefreshLife = 2
  MaxPairs = 3
  MaxNow = 2
  MaxActs = 3
INVARIANTS TypeOK NobodyWaitsForNothing CookiesHoldTheSession RevokedStaysRevoked TokensEnd
PROPERTIES HealthySessionSurvives ReplacedOnce
SYMMETRY MCSymmetry

