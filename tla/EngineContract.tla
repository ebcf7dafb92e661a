--------------------------- MODULE EngineContract ---------------------------
(***************************************************************************)
(* What the runner and its engine promise each other: the transcript       *)
(* messages a contract speaks about, validateEngineOutput with its         *)
(* provenance rules (agent/runner.go), and the outcomes of one             *)
(* Engine.Execute call as the runner sees them (agentreact/react_loop.go,  *)
(* policy/retry/retry.go, or an engine of somebody else's).                *)
(*                                                                         *)
(* A message keeps its role, the command whose execution produced it (its  *)
(* text, to the properties), the tool call it announces or answers, and    *)
(* the requirement an assistant message carries.                           *)
(***************************************************************************)
EXTENDS RunLifecycle, SequencesExt

CONSTANTS Runs,         \* the run ids
          Cmds,         \* the Dispatch calls
          Requirements, \* the requirements a model or a tool may raise
          EngineKinds   \* which engines are wired: "react", "retry", "rogue"

ASSUME EngineKindsAssumption == EngineKinds \subseteq {"react", "retry", "rogue"}

ASSUME RequirementsAssumption == \A q \in Requirements : ValidRequirement(q)

RequirementType == Requirements \cup {NoRequirement}

Calls == {q.call : q \in RequirementType}

Message(role, c, call, q) ==
  [role |-> role, by |-> c, call |-> call, requirement |-> q]

MessageType ==
  [role : {"user", "assistant", "tool"}, by : Cmds, call : Calls,
   requirement : RequirementType]

StateType ==
  [id : Runs, version : Nat, step : Nat, status : Statuses,
   requirement : RequirementType, messages : Seq(MessageType)]

UserMessage(c)         == Message("user", c, "", NoRequirement)
Answer(c)              == Message("assistant", c, "", NoRequirement)
AssistantRequires(c,q) == Message("assistant", c, "", q)
AssistantCalls(c, k)   == Message("assistant", c, k, NoRequirement)
Observation(c, k)      == Message("tool", c, k, NoRequirement)

-----------------------------------------------------------------------------
(***************************************************************************)
(* validateEngineOutput: the runner's check of what the engine returned.   *)
(***************************************************************************)

SameRequirement(q1, q2) ==
  q1.id = q2.id /\ q1.kind = q2.kind /\ q1.origin = q2.origin

AssistantRequired(messages, q) ==
  \E i \in DOMAIN messages : /\ messages[i].role = "assistant"
                             /\ messages[i].requirement # NoRequirement
                             /\ SameRequirement(messages[i].requirement, q)

Observed(messages, k) ==
  k # "" /\ \E i \in DOMAIN messages : messages[i].role = "tool" /\ messages[i].call = k

Announced(messages, k) ==
  k # "" /\ \E i \in DOMAIN messages : messages[i].role = "assistant" /\ messages[i].call = k

Additions(prev, next) ==
  SubSeq(next.messages, Len(prev.messages) + 1, Len(next.messages))

\* Defect: the observation of a blocked call is enough, announced or not.
ProvenanceByObservation(prev, next) ==
  LET q == next.requirement IN
  next.status = "suspended" /\ q # NoRequirement =>
    IF q.origin = "model" THEN AssistantRequired(Additions(prev, next), q)
                          ELSE Observed(Additions(prev, next), q.call)

\* validateSuspendedRequirementProvenance
Provenance(prev, next) ==
  LET q == next.requirement IN
  next.status = "suspended" /\ q # NoRequirement =>
    \/ q.origin = "model" /\ AssistantRequired(Additions(prev, next), q)
    \/ /\ q.origin = "tool"
       /\ Observed(Additions(prev, next), q.call)
       /\ Announced(next.messages, q.call)

\* Defect: the step may go back.
ValidOutputAnyStep(prev, next) ==
  next.id = prev.id /\ IsPrefix(prev.messages, next.messages) /\ Provenance(prev, next)

\* Defect: only the transcript's length is compared.
ValidOutputAnyPrefix(prev, next) ==
  /\ next.id = prev.id
  /\ next.step >= prev.step
  /\ Len(prev.messages) <= Len(next.messages)
  /\ Provenance(prev, next)

ValidEngineOutput(prev, next) ==
  /\ next.id = prev.id
  /\ next.step >= prev.step
  /\ IsPrefix(prev.messages, next.messages)
  /\ Provenance(prev, next)

-----------------------------------------------------------------------------
(***************************************************************************)
(* The outcomes of Execute(ctx, prev, input).  An outcome is the returned  *)
(* state, whether an error came with it, the lifecycle events the engine   *)
(* itself published, and whether it replayed an approved tool call.        *)
(***************************************************************************)

EngineEvents == {"run_completed", "run_failed", "run_cancelled"}

Outcome(st, failed, events, replayed) ==
  [state |-> st, failed |-> failed, events |-> events, replayed |-> replayed]

Advance(prev, by, status, q, messages) ==
  [prev EXCEPT !.step = @ + by, !.status = status, !.requirement = q,
               !.messages = @ \o messages]

\* approvedToolReplayCallFromInput asks for a replay.
ReplayRequested(resolution, resolved) ==
  /\ resolved.origin = "tool"
  /\ resolution.kind = "approval" /\ resolution.outcome = "approved"

\* What an execution has appended once it starts to loop: the resolution, and the
\* observation of the replayed call.
Answered(c, resolution) ==
  IF resolution # NoResolution THEN <<UserMessage(c)>> ELSE <<>>

Replayed(c, resolution, resolved) ==
  IF ReplayRequested(resolution, resolved) THEN <<Observation(c, resolved.call)>> ELSE <<>>

\* The messages that raise a requirement: an assistant's own, or a tool call and its
\* observation.
Raising(c, q) ==
  IF q.origin = "model" THEN <<AssistantRequires(c, q)>>
                        ELSE <<AssistantCalls(c, q.call), Observation(c, q.call)>>

\* The sink refuses the engine's event once the context is done (the engine passes on
\* the raw context).
Ends(prev, by, status, messages, event, replayed, done) ==
  Outcome(Advance(prev, by, status, NoRequirement, messages),
          status # "completed", IF done THEN <<>> ELSE <<event>>, replayed)

Suspends(c, prev, q, messages, replayed) ==
  Outcome(Advance(prev, 1, "suspended", q, messages \o Raising(c, q)), FALSE, <<>>, replayed)

\* The loop: a context that is done ends it before its next step.
LoopOutcomes(c, prev, messages, replayed, done) ==
  {Ends(prev, 0, "cancelled", messages, "run_cancelled", replayed, done),
   Ends(prev, 0, "max_steps_exceeded", messages, "run_failed", replayed, done)}
  \cup (IF done THEN {} ELSE
    {Ends(prev, 1, "failed", messages, "run_failed", replayed, done),
     Ends(prev, 1, "completed", Append(messages, Answer(c)), "run_completed", replayed, done)}
    \cup {Suspends(c, prev, q, messages, replayed) : q \in Requirements})

\* ReactLoop.Execute seen from outside.  It refuses a state it cannot set running; an
\* approved call that is not in the transcript fails the run, and its replay may be
\* cancelled or fail the run before the loop starts.
ReactOutcomes(c, prev, resolution, resolved, done) ==
  LET answered == Answered(c, resolution)
      messages == answered \o Replayed(c, resolution, resolved)
      replay   == ReplayRequested(resolution, resolved)
      found    == Announced(prev.messages, resolved.call)
      fails    == Ends(prev, 0, "failed", answered, "run_failed", replay /\ found, done)
      cancels  == Ends(prev, 0, "cancelled", answered, "run_cancelled", replay, done)
      refuses  == prev.status = "suspended" \/ ~TransitionOK(prev, "running")
  IN CASE refuses                          -> {Outcome(prev, TRUE, <<>>, FALSE)}
       [] ~refuses /\ replay /\ ~found     -> {fails}
       [] ~refuses /\ replay /\ found      ->
            {fails, cancels} \cup LoopOutcomes(c, prev, messages, TRUE, done)
       [] OTHER                            -> LoopOutcomes(c, prev, messages, FALSE, done)

\* retry.WrapEngine around the React loop, two attempts: a context that is done
\* returns the input state with the context's error; otherwise every attempt starts
\* from the input state, neither the resolution nor the resolved requirement
\* reaches the wrapped engine, and a failed attempt leaves its event behind.
RetryOutcomes(c, prev, done) ==
  IF done THEN {Outcome(prev, TRUE, <<>>, FALSE)}
  ELSE LET outs == ReactOutcomes(c, prev, NoResolution, NoRequirement, FALSE) IN
       outs \cup {[out EXCEPT !.events = <<"run_failed">> \o @] : out \in outs}

\* An engine that breaks the contract in each of the ways it names, or that
\* returns a state the store refuses.
RogueOutcomes(c, prev) ==
  LET answered == Advance(prev, 1, "completed", NoRequirement, <<Answer(c)>>)
      states ==
        {[answered EXCEPT !.id = r] : r \in Runs \ {prev.id}}
        \cup {[answered EXCEPT !.step = @ - 2],
              [answered EXCEPT !.messages = <<>>],
              [answered EXCEPT !.messages = <<Answer(c)>> \o Tail(@)],
              [answered EXCEPT !.status = "suspended"],
              [answered EXCEPT !.status = ""]}
        \cup {[answered EXCEPT !.status = "suspended", !.requirement = q] : q \in Requirements}
        \cup {[answered EXCEPT !.status = "suspended", !.requirement = q,
                               !.messages = Append(@, Observation(c, q.call))] :
                 q \in {x \in Requirements : x.origin = "tool"}}
  IN {Outcome(st, FALSE, <<>>, FALSE) : st \in states}

EngineOutcomes(c, prev, resolution, resolved, done) ==
  (IF "react" \in EngineKinds
     THEN ReactOutcomes(c, prev, resolution, resolved, done) ELSE {})
  \cup (IF "retry" \in EngineKinds THEN RetryOutcomes(c, prev, done) ELSE {})
  \cup (IF "rogue" \in EngineKinds THEN RogueOutcomes(c, prev) ELSE {})
=============================================================================
