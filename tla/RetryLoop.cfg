\* Executions under the retry wrapper, with a sink that refuses events.
SPECIFICATION FairRetrySpec
CONSTANTS
  CallLists <- FewLists
  ModelRequirements <- FromModel
  KindOf <- Values
  Schemas <- ToolSchemas
  Denied = {"rm"}
  AskRequirements <- FromAsk
  Fingerprint <- BashFingerprints
  PolicyID <- PolicyIDs
  TrimSpace <- TrimmedIDs
  MaxSteps = {2}
  MaxExecutions = 2
  MaxAttempts = 3
  CtxMayEnd = TRUE
  SinkMayFail = TRUE
INVARIANT DeniedCallsAreApproved
PROPERTY ExecuteReturns
