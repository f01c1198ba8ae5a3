CONSTANTS
  w1 = w1  w2 = w2  t1 = t1  t2 = t2
  Workers = {w1, w2}
  Threads = {t1, t2}
  Home <- TwoThreads
  Keys = {k1, k2}
  NoKey = NoKey
  Empty = Empty
  Texts = {Empty, x}
  MaxEntries = 1
  Ttl = 1
  RedisConfigured = TRUE
  Outcomes = {"ok"}
  MaxWrites = 2
  MaxClock = 1
SPECIFICATION Spec
PROPERTIES HitIsNewest
