\* A start that loses the race for its run to a cancel.
SPECIFICATION SessionSpec
CONSTANTS
  a1 = a1
  a2 = a2
  b1 = b1
  w1 = w1
  w2 = w2
  r1 = r1
  Nobody = Nobody
  Clients = {w1, w2}
  Chat = w1
  Turns <- OneTurn
  Forms <- GoodForm
  CommandStepsLimit = 8
  Cmds = {a1, b1}
  Runs = {r1}
  EngineKinds = {"react"}
  Requirements <- NoApprovals
  Resolutions <- NoReplies
  KindsOf <- Racing
  RunOf <- RacingRun
INVARIANT LostRaceIsConflict
CHECK_DEADLOCK FALSE
