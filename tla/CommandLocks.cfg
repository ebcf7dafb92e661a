\* Three goroutines that lock and unlock two runs for ever.
SPECIFICATION FairSpec
CONSTANTS
  a = a
  b = b
  c = c
  r1 = r1
  r2 = r2
  e1 = e1
  e2 = e2
  e3 = e3
  Runs = {r1, r2}
  Callers = {a, b, c}
  Nobody = Nobody
  Entries = {e1, e2, e3}
  NoEntry = NoEntry
INVARIANT LocksInv
PROPERTIES IsMutex WaitersServed
