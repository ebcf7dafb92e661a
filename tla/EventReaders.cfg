\* Two readers of two runs, beside the commands that publish to them.
SPECIFICATION FairSpec
CONSTANTS
  r1 = r1
  r2 = r2
  p1 = p1
  p2 = p2
  p3 = p3
  w1 = w1
  w2 = w2
  Runs = {r1, r2}
  Publishers = {p1, p2, p3}
  HistoryLimit = 2
  RunsOf <- TwoOrThreeOnOne
  Publishes <- OneEach
  CtxMayEnd = {p2}
  Readers = {w1, w2}
  NoRun = NoRun
  MaxCursor = 2
  Viewers = {w1}
  ConnMayBreak = {w1}
INVARIANTS HistoryIsTail StreamFollowsLog OneLiveLoop CursorIsShown EndsAreTold
PROPERTIES IsEventLog ReadersCatchUp
