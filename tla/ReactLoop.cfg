\* Three executions of a run, whatever the model, the tools and the context do.
SPECIFICATION Spec
CONSTANTS
  CallLists <- Lists
  ModelRequirements <- FromModel
  KindOf <- Values
  Schemas <- ToolSchemas
  Denied = {"rm"}
  AskRequirements <- FromAsk
  Fingerprint <- BashFingerprints
  PolicyID <- PolicyIDs
  TrimSpace <- TrimmedIDs
  MaxSteps = {2, 3}
  MaxExecutions = 3
  SinkMayFail = FALSE
  CtxMayEnd = TRUE
INVARIANTS TypeOK DeniedCallsAreApproved ApprovalIsRedeemed EffectsAreRecorded
INVARIANTS AnswersFollowCalls EventsMirrorTranscript EffectsAreWellFormed PayloadAnswersCalls
PROPERTY ImplementsContract
