\* An engine that breaks its contract and a sink that refuses events.
SPECIFICATION FairSpec
CONSTANTS
  c1 = c1
  c2 = c2
  c3 = c3
  r1 = r1
  r2 = r2
  Free = Free
  Cmds = {c1, c2, c3}
  Runs = {r1, r2}
  EngineKinds = {"react", "rogue"}
  Requirements <- BothRequirements
  Resolutions <- ApproveOrNothing
  CommandIDs <- NoIDs
  IDsOf <- NoIDsOf
  KindsOf <- Queues
  RunOf <- SameRun
  CtxMayEnd = {}
  SinkMayFail = {c1, c2, c3}
INVARIANTS TypeOK SuspensionIsResolvable
PROPERTIES SavesExtend CommandsReturn
