CONSTANTS
  w1 = w1  w2 = w2  t1 = t1  t2 = t2
  Workers = {w1}
  Threads = {t1}
  Home <- OneThread
  Keys = {k1, k2, k3}
  NoKey = NoKey
  Empty = Empty
  Texts = {Empty}
  MaxEntries = 2
  Ttl = 2
  RedisConfigured = FALSE
  Outcomes = {"ok"}
  MaxWrites = 3
  MaxClock = 2
SPECIFICATION Spec
INVARIANTS LocalBounded
PROPERTIES RecentKept
