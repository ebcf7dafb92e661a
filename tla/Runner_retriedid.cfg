\* A continue retried with its command id after its context ended during the save.
SPECIFICATION Spec
CONSTANTS
  c1 = c1
  c2 = c2
  c3 = c3
  r1 = r1
  r2 = r2
  Free = Free
  Cmds = {c1, c2, c3}
  Runs = {r1}
  EngineKinds = {"react"}
  Requirements <- ToolRequirements
  Resolutions <- ApproveOrNothing
  CommandIDs <- OneID
  IDsOf <- RepeatedID
  KindsOf <- Retries
  RunOf <- SameRun
  CtxMayEnd = {c2}
  SinkMayFail = {}
INVARIANT SameCommandIDReplaysOnce
