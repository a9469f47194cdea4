CONSTANTS
  t1 = t1  t2 = t2
  p = p  q = q  r = r
  e1 = e1  e2 = e2  e3 = e3
  s1 = s1  s2 = s2  s3 = s3
  Threads = {t1}
  N = 2
  Tags = {p, q, r}
  Entries = {e1, e2}
  Slots = {s1, s2, s3}
  UseCountMax = 1
  NoThread = NoThread
  NoTag = NoTag
  NoEntry = NoEntry
  NoBuf = NoBuf
SPECIFICATION FairSpec
PROPERTIES
  ReadPageReturns
