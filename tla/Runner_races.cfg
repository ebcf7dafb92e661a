\* Any two commands beside a start, retried command ids, contexts that end.
SPECIFICATION Spec
CONSTANTS
  c1 = c1
  c2 = c2
  c3 = c3
  r1 = r1
  r2 = r2
  Free = Free
  Cmds = {c1, c2, c3}
  Runs = {r1}
  EngineKinds = {"react"}
  Requirements <- ToolRequirements
  Resolutions <- ApproveOrNothing
  CommandIDs <- OneID
  IDsOf <- RepeatedID
  KindsOf <- Races
  RunOf <- SameRun
  CtxMayEnd = {c2, c3}
  SinkMayFail = {}
INVARIANTS IInv ResultInv NoLostInstruction ResultsArePersisted
INVARIANTS OneWritePerCommandID ReplayedOncePerSuspension
INVARIANT ApprovedCallIsReplayed
PROPERTIES TerminalIsFinal EventsFollowVersions RunsAreAtomic LocksAreMutex
