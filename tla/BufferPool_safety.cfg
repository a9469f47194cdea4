\* Two workers that may each hold two pages, two buffers, two pages: the free list,
\* the sweep, lost races and abandoned buffers all happen.
CONSTANTS
  t1 = t1  t2 = t2
  p = p  q = q  r = r
  e1 = e1  e2 = e2  e3 = e3
  s1 = s1  s2 = s2  s3 = s3
  Threads = {t1, t2}
  N = 2
  Tags = {p, q}
  Entries = {e1, e2}
  Slots = {s1, s2}
  UseCountMax = 2
  NoThread = NoThread
  NoTag = NoTag
  NoEntry = NoEntry
  NoBuf = NoBuf
SPECIFICATION Spec
SYMMETRY Symmetry
INVARIANTS
  TypeOK
  PinsAccounted
  PageInUse
  HashNamesItsBuffer
  EntriesEnough
  FreeListUnpinned
PROPERTIES
  LockedPageStable
