---------------------------- MODULE CommandRules ----------------------------
(***************************************************************************)
(* What the five commands of agent.Runner ask of the run they find, and    *)
(* what they make of it before the engine or the store sees it             *)
(* (agent/runner.go): the gates and edits of the dispatch functions,       *)
(* without who does what when.                                             *)
(***************************************************************************)
EXTENDS EngineContract

CONSTANTS Resolutions,  \* resolutions a client may send, NoResolution included
          KindsOf,      \* Cmds -> the kinds a Dispatch call may have
          RunOf         \* Cmds -> the run a Dispatch call names

CommandKinds == {"start", "continue", "cancel", "steer", "follow_up"}

ASSUME CommandsAssumption ==
  /\ KindsOf \in [Cmds -> SUBSET CommandKinds]
  /\ RunOf \in [Cmds -> Runs]

ASSUME ResolutionsAssumption ==
  \A s \in Resolutions : s = NoResolution \/ ValidResolution(s)

run(c) == RunOf[c]

NoRun(r) == [id |-> r, version |-> 0, step |-> 0, status |-> "",
             requirement |-> NoRequirement, messages |-> <<>>]

Terminated(st) == st.status \in Terminal

-----------------------------------------------------------------------------
(***************************************************************************)
(* Why a command refuses the state it loaded ("" when it does not).        *)
(***************************************************************************)

\* validateContinueResolution
ResolutionError(st, s) ==
  CASE st.status # "suspended" -> IF s = NoResolution THEN "" ELSE "resolution_unexpected"
    [] st.status = "suspended" /\ s = NoResolution -> "resolution_required"
    [] OTHER -> IF Resolves(s, st.requirement) THEN "" ELSE "resolution_invalid"

\* Defect: an ended run still takes instructions.
InstructionErrorLax(st) ==
  IF st.status = "suspended" THEN "resolution_required" ELSE ""

\* The engine-free gates of steer and follow_up.
InstructionError(st) ==
  CASE st.status = "suspended" -> "resolution_required"
    [] Terminated(st)          -> "not_continuable"
    [] OTHER                   -> ""

ContinueError(st, s) ==
  IF Terminated(st) THEN "not_continuable" ELSE ResolutionError(st, s)

\* Defect: an ended run can still be cancelled.
CancelErrorLax(st) == ""

CancelError(st) == IF Terminated(st) THEN "not_cancellable" ELSE ""

\* Why the state of a stored run does not admit a command of kind k.
GateError(k, st, s) ==
  CASE k = "continue" -> ContinueError(st, s)
    [] k = "cancel"   -> CancelError(st)
    [] OTHER          -> InstructionError(st)

-----------------------------------------------------------------------------
(***************************************************************************)
(* The state a command works from, and the one the store keeps.            *)
(***************************************************************************)

StartState(c) ==
  [NoRun(run(c)) EXCEPT !.status = "pending", !.messages = <<UserMessage(c)>>]

Resumed(st) ==
  IF st.status = "suspended"
  THEN Transition([st EXCEPT !.requirement = NoRequirement], "running") ELSE st

Instructed(c, st) == [st EXCEPT !.messages = Append(@, UserMessage(c))]

Cancelled(st) == Transition([st EXCEPT !.requirement = NoRequirement], "cancelled")

\* The store bumps the version of its own copy.
Stored(st) == [st EXCEPT !.version = @ + 1]
=============================================================================
