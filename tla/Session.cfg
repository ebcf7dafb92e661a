\* Two clients, three commands, and a server that may be told to stop.
SPECIFICATION SessionSpec
CONSTANTS
  a1 = a1
  a2 = a2
  b1 = b1
  w1 = w1
  w2 = w2
  r1 = r1
  Nobody = Nobody
  Clients = {w1, w2}
  Chat = w1
  Turns <- TwoTurns
  Forms <- SomeForms
  CommandStepsLimit = 8
  Cmds = {a1, a2, b1}
  Runs = {r1}
  EngineKinds = {"react"}
  Requirements <- SomeApprovals
  Resolutions <- Approves
  KindsOf <- Kinds
  RunOf <- OneRun
INVARIANTS AnswersAreTrue StopsCleanly
PROPERTIES ApprovalIsForWhatWasShown ServerStops
CHECK_DEADLOCK FALSE
