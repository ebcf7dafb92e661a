\* A reader restarts from cursor 0 once the run has more events than the broker keeps.
SPECIFICATION Spec
CONSTANTS
  r1 = r1
  r2 = r2
  p1 = p1
  p2 = p2
  p3 = p3
  w1 = w1
  w2 = w2
  Runs = {r1, r2}
  Publishers = {p1, p2, p3}
  HistoryLimit = 2
  RunsOf <- TwoOrThreeOnOne
  Publishes <- OneEach
  CtxMayEnd = {}
  Readers = {w1, w2}
  NoRun = NoRun
  MaxCursor = 2
  Viewers = {w1}
  ConnMayBreak = {}
INVARIANT ZeroCursorOpens
