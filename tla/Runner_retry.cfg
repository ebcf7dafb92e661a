\* An approved tool call under the engine retry wrapper.
SPECIFICATION Spec
CONSTANTS
  c1 = c1
  c2 = c2
  c3 = c3
  r1 = r1
  r2 = r2
  Free = Free
  Cmds = {c1, c2, c3}
  Runs = {r1}
  EngineKinds = {"retry"}
  Requirements <- ToolRequirements
  Resolutions <- ApproveOrNothing
  CommandIDs <- NoIDs
  IDsOf <- NoIDsOf
  KindsOf <- Retries
  RunOf <- SameRun
  CtxMayEnd = {}
  SinkMayFail = {}
INVARIANT ApprovedCallIsReplayed
