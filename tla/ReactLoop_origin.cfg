\* A model raises a requirement as README.md shows it: without an origin.
SPECIFICATION Spec
CONSTANTS
  CallLists <- Lists
  ModelRequirements <- WithoutOrigin
  KindOf <- Values
  Schemas <- ToolSchemas
  Denied = {"rm"}
  AskRequirements <- FromAsk
  Fingerprint <- BashFingerprints
  PolicyID <- PolicyIDs
  TrimSpace <- TrimmedIDs
  MaxSteps = {2, 3}
  MaxExecutions = 1
  SinkMayFail = FALSE
  CtxMayEnd = FALSE
INVARIANT ModelRequirementSuspends
