----------------------------- MODULE ReactLoop ------------------------------
(***************************************************************************)
(* ReactLoop.Execute (agentreact/react_loop.go) over the coding agent's    *)
(* tools (toolset.Executor): the executions of one run, one after the      *)
(* other, each step of the loop a step of its own.  Between two executions *)
(* the runner saves the run and hands it over again, with the resolution   *)
(* of its requirement if it was suspended (agent/runner.go).               *)
(*                                                                         *)
(* A message keeps its role, the calls an assistant makes, the call a tool *)
(* message answers, and the requirement an assistant message, or the       *)
(* observation of a blocked call, carries; its content is left out.  What  *)
(* the model is sent and what its calls must look like are operators of    *)
(* ProviderPayload and ToolArguments, the events those of EventRules.      *)
(***************************************************************************)
EXTENDS RunLifecycle, ProviderPayload, ToolArguments, EventRules

CONSTANTS
  CallLists,         \* the lists of tool calls the model may answer with
  ModelRequirements, \* the requirements it may answer with, valid or not
  Schemas,           \* the tools the command defines -> their input schemas
  Denied,            \* the commands the bash policy denies
  AskRequirements,   \* what a tool other than bash may ask for, valid or not
  Fingerprint,       \* bash call -> bashApprovalFingerprint
  PolicyID,          \* call id -> the id of the requirement bash raises for it
  MaxSteps,          \* the step budgets a command may give
  MaxExecutions,     \* bound: the executions of the run
  CtxMayEnd,         \* BOOLEAN: the caller's context may end
  SinkMayFail        \* BOOLEAN: the sink may refuse an event

\* The tool calls a model may make.
ToolCalls == UNION {ToSet(cs) : cs \in CallLists}

ASSUME CallsAssumption == \A cs \in CallLists : cs \in Seq(ToolCalls)

ASSUME RequirementsAssumption ==
  \A q \in AskRequirements :
    q = [id |-> q.id, kind |-> q.kind, origin |-> q.origin, call |-> q.call,
         fingerprint |-> q.fingerprint]

ASSUME BoundsAssumption ==
  /\ MaxSteps \subseteq Int /\ MaxExecutions \in Nat
  /\ {CtxMayEnd, SinkMayFail} \subseteq BOOLEAN

VARIABLES
  run,       \* the run state the loop works on, then the one it returned
  given,     \* the run state the runner handed over
  input,     \* EngineInput, and the replay override the runner put in the context
  pc,        \* between executions, or where the loop is
  calls,     \* the tool calls still to execute
  ctxDone,   \* the execution's context has ended
  events,    \* the events the sink has accepted in this execution
  refused,   \* whether it refused one, which is an error of the execution
  round,     \* the executions begun
  effects,   \* the tool calls that were carried out, in order
  approvals, \* the blocked calls whose requirement was approved, in order
  blocked    \* the tool call the last suspension was about

Aux == <<round, effects, approvals, blocked>>

vars == <<run, given, input, pc, calls, ctxDone, events, refused, Aux>>

-----------------------------------------------------------------------------
(***************************************************************************)
(* Messages, calls and inputs.                                             *)
(***************************************************************************)

Message(role, cs, call, q) == [role |-> role, calls |-> cs, call |-> call, requirement |-> q]

UserMessage         == Message("user", <<>>, "", NoRequirement)
Assistant(q, cs)    == Message("assistant", cs, "", q)
Observation(id, q)  == Message("tool", <<>>, id, q)

NoCall == [id |-> "", name |-> "", args |-> <<>>]

NoOverride == [call |-> "", fingerprint |-> ""]

Override(q) == [call |-> q.call, fingerprint |-> q.fingerprint]

NoInput == [max |-> 0, resolution |-> NoResolution, resolved |-> NoRequirement,
            override |-> NoOverride]

\* validateToolCallShape
ShapeOK(cs) ==
  /\ \A i \in DOMAIN cs : cs[i].id # "" /\ cs[i].name # ""
  /\ \A i, j \in DOMAIN cs : cs[i].id = cs[j].id => i = j

\* The messages that make a call with the id k.
Announcing(messages, k) == {i \in DOMAIN messages : k \in IDs(messages[i].calls)}

\* Defect: the first call with the id.
FindFirstCall(messages, k) ==
  LET cs == messages[Min(Announcing(messages, k))].calls
  IN cs[Min({j \in DOMAIN cs : cs[j].id = k})]

\* findToolCallByID: the last one.
FindCall(messages, k) ==
  LET cs == messages[Max(Announcing(messages, k))].calls
  IN cs[Max({j \in DOMAIN cs : cs[j].id = k})]

-----------------------------------------------------------------------------
(***************************************************************************)
(* The tools.                                                              *)
(***************************************************************************)

\* How Execute comes back: with a result, which names the call it answers or not, or
\* an error, which both become the call's observation; asking for a suspension; with
\* a context error of its own; or because the context ended.  ran: the tool did what
\* it was asked for.
ToolReturn(gives, ran, q) ==
  [gives |-> gives, ran |-> ran, requirement |-> q, result |-> NoResult]

Answers(ran) == ToolReturn("answer", ran, NoRequirement)

CarriedOut ==
  {Answers(TRUE)}
  \cup (IF CtxMayEnd THEN {ToolReturn("interrupted", TRUE, NoRequirement)} ELSE {})

Command(k) == k.args["command"]

PolicyRequirement(k) ==
  [id |-> PolicyID[k.id], kind |-> "approval", origin |-> "tool", call |-> k.id,
   fingerprint |-> Fingerprint[k]]

\* executeBash: a denied command runs only under the override bound to it, and under
\* another one it is an error.
Bash(override, k) ==
  CASE ~HasString(k.args, "command") -> {Answers(FALSE)}
    [] HasString(k.args, "command")
       /\ (Command(k) \notin Denied \/ override = Override(PolicyRequirement(k))) -> CarriedOut
    [] OTHER -> IF override = NoOverride
                THEN {ToolReturn("suspend", FALSE, PolicyRequirement(k))}
                ELSE {Answers(FALSE)}

\* read, write and edit: they do not look at the context, and may fail on the file.
FileTools == {"read", "write", "edit"}

File(k) ==
  {Answers(ran) : ran \in BOOLEAN \cap
     {FALSE, \A f \in ToolDefinitions[k.name].required : HasString(k.args, f)}}

\* A tool that asks: its answer names the call, nothing, or another call; or it asks
\* for a suspension, or gives up on a deadline of its own.
Asks(k) ==
  CarriedOut
  \cup {[Answers(TRUE) EXCEPT !.result = x] : x \in {Result(k.id, k.name), Result("other", "")}}
  \cup {ToolReturn("deadline", TRUE, NoRequirement)}
  \cup {ToolReturn("suspend", FALSE, q) : q \in AskRequirements}

\* Executor.Execute; a tool that is defined but not registered is an error.
ToolReturns(override, k, done) ==
  CASE done -> {ToolReturn("interrupted", FALSE, NoRequirement)}
    [] ~done /\ k.name = "bash"      -> Bash(override, k)
    [] ~done /\ k.name \in FileTools -> File(k)
    [] ~done /\ k.name = "ask"       -> Asks(k)
    [] OTHER -> {Answers(FALSE)}

\* The result of a call as it is recorded: one that names another call is an error of
\* this one (validateToolResultIdentity), and what it does not name is filled in.
ResultOf(k, x) ==
  IF x.call \in {"", k.id} /\ x.name \in {"", k.name}
  THEN Result(IF x.call = "" THEN k.id ELSE x.call, IF x.name = "" THEN k.name ELSE x.name)
  ELSE Result(k.id, k.name)

\* validateToolSuspendRequest binds the requirement to the call that was made.
Bound(k, q) == [q EXCEPT !.call = k.id]

\* Defect: the bound requirement is not validated.
SuspendRequestUnchecked(k, q) == q.origin = "tool" /\ q.call \in {"", k.id}

SuspendRequestOK(k, q) ==
  q.origin = "tool" /\ q.call \in {"", k.id} /\ ValidRequirement(Bound(k, q))

\* Defect: the calls of the loop see the override of the approved one.
KeptOverride == input.override

\* The override the calls of the loop see: none.
LoopOverride == NoOverride

-----------------------------------------------------------------------------
(***************************************************************************)
(* The steps of the loop.                                                  *)
(***************************************************************************)

Appended(st, m) == [st EXCEPT !.messages = Append(@, m)]

Observed(x, q) == Appended(run, Observation(x.call, q))

\* publishEvent: what the sink may have of e.  An event that is not valid is not
\* published, and a sink refuses it when the context has ended, or of its own accord.
Published(e, done) ==
  (IF ~done /\ ValidEvent(e) THEN {<<e>>} ELSE {<<>>})
  \cup (IF SinkMayFail THEN {<<>>} ELSE {})

\* publishEvent for each of es.
Publishes(es, done) ==
  \E told \in [DOMAIN es -> UNION {Published(es[i], done) : i \in DOMAIN es}] :
    /\ \A i \in DOMAIN es : told[i] \in Published(es[i], done)
    /\ events' = events \o FlattenSeq(told)
    /\ refused' = (refused \/ \E i \in DOMAIN es : told[i] = <<>>)

AssistantEvent(st) == [Event(st.id, st.step, "assistant_message") EXCEPT !.message = TRUE]

ToolEvent(st, x) == [Event(st.id, st.step, "tool_result") EXCEPT !.result = x]

FinalEvents(st) ==
  LET types ==
    CASE st.status = "completed"                        -> <<"run_completed">>
      [] st.status \in {"failed", "max_steps_exceeded"} -> <<"run_failed">>
      [] st.status = "cancelled"                        -> <<"run_cancelled">>
      [] OTHER                                          -> <<>>
  IN [i \in DOMAIN types |-> Event(st.id, st.step, types[i])]

\* Defect: the event of the final status comes before that of the last message.
EndsFirst(st, status, es, done) ==
  /\ run' = Transition(st, status)
  /\ pc' = "between"
  /\ calls' = <<>>
  /\ ctxDone' = done
  /\ Publishes(FinalEvents(run') \o es, done)

\* Execute returns st in a final status, after publishing es and the event of the
\* status: failRun, cancelRun and the loop's own ends.
Ends(st, status, es, done) ==
  /\ run' = Transition(st, status)
  /\ pc' = "between"
  /\ calls' = <<>>
  /\ ctxDone' = done
  /\ Publishes(es \o FinalEvents(run'), done)

\* The loop goes on with st and the calls cs.
Continues(st, cs, es) ==
  /\ run' = st
  /\ pc' = IF cs = <<>> THEN "thinking" ELSE "acting"
  /\ calls' = cs
  /\ Publishes(es, ctxDone)
  /\ UNCHANGED ctxDone

\* approvedToolReplayCallFromInput
ReplayRequested ==
  /\ input.resolved.origin = "tool"
  /\ input.resolution.kind = "approval" /\ input.resolution.outcome = "approved"

ReplayRefused ==
  LET q == input.resolved IN
  \/ q.kind # "approval"
  \/ ~ValidRequirement(q)
  \/ input.resolution.req # q.id
  \/ Announcing(run.messages, q.call) = {}
  \/ input.override # Override(q)

ReplayCall == FindCall(run.messages, input.resolved.call)

\* Execute up to the replay: the run is set running, and the resolution becomes a
\* message of the user.
Enter ==
  /\ pc = "entering"
  /\ LET st == Transition(run, "running")
         answered == IF input.resolution = NoResolution THEN st ELSE Appended(st, UserMessage)
     IN IF ReplayRequested /\ ReplayRefused
        THEN Ends(answered, "failed", <<>>, ctxDone)
        ELSE /\ run' = answered
             /\ pc' = IF ReplayRequested THEN "replaying" ELSE "thinking"
             /\ UNCHANGED <<calls, ctxDone, events, refused>>
  /\ UNCHANGED <<given, input, Aux>>

Ran(k, r) == effects' = IF r.ran THEN Append(effects, k) ELSE effects

\* Defect: the result of the replay is published but not recorded.
ReplayUnrecorded ==
  /\ pc = "replaying"
  /\ \E r \in ToolReturns(input.override, ReplayCall, ctxDone) :
       /\ Ran(ReplayCall, r)
       /\ \/ r.gives = "answer" /\ Continues(run, <<>>, <<ToolEvent(run, Result(ReplayCall.id, ReplayCall.name))>>)
          \/ r.gives = "suspend" /\ Ends(run, "failed", <<>>, ctxDone)
          \/ r.gives = "deadline" /\ Ends(run, "cancelled", <<>>, ctxDone)
          \/ r.gives = "interrupted" /\ Ends(run, "cancelled", <<>>, TRUE)
  /\ UNCHANGED <<given, input, round, approvals, blocked>>

\* executeApprovedToolReplay: the approved call is made again, under the override, and
\* may not ask for another suspension.
Replay ==
  /\ pc = "replaying"
  /\ \E r \in ToolReturns(input.override, ReplayCall, ctxDone) :
       /\ Ran(ReplayCall, r)
       /\ \/ /\ r.gives = "answer"
             /\ LET x == ResultOf(ReplayCall, r.result) IN
                Continues(Observed(x, NoRequirement), <<>>, <<ToolEvent(run, x)>>)
          \/ r.gives = "suspend" /\ Ends(run, "failed", <<>>, ctxDone)
          \/ r.gives = "deadline" /\ Ends(run, "cancelled", <<>>, ctxDone)
          \/ r.gives = "interrupted" /\ Ends(run, "cancelled", <<>>, TRUE)
  /\ UNCHANGED <<given, input, round, approvals, blocked>>

\* Defect: the budget is off by one.
BudgetLeftInclusive == run.step <= input.max

BudgetLeft == run.step < input.max

\* The loop asks the model for its next message.
Thinks == pc = "thinking" /\ BudgetLeft /\ ~ctxDone

Thought(q, cs) == [run EXCEPT !.step = @ + 1, !.messages = Append(@, Assistant(q, cs))]

Said == <<AssistantEvent(Thought(NoRequirement, <<>>))>>

\* The model fails; an error of a context, its own or the caller's, cancels the run.
ModelFails ==
  /\ Thinks
  /\ LET st == [run EXCEPT !.step = @ + 1] IN
     \/ Ends(st, "failed", <<>>, ctxDone)
     \/ Ends(st, "cancelled", <<>>, ctxDone)
     \/ CtxMayEnd /\ Ends(st, "cancelled", <<>>, TRUE)
  /\ UNCHANGED <<given, input, Aux>>

\* It asks for a resolution: the requirement must be the model's own and valid, and
\* come without tool calls.
ModelRequires ==
  /\ Thinks
  /\ \E q \in ModelRequirements, cs \in CallLists \cup {<<>>} :
       IF cs = <<>> /\ q.origin = "model" /\ ValidRequirement(q)
       THEN Ends([Thought(q, cs) EXCEPT !.requirement = q], "suspended", Said, ctxDone)
       ELSE Ends(Thought(q, cs), "failed", Said, ctxDone)
  /\ UNCHANGED <<given, input, Aux>>

ModelAnswers ==
  /\ Thinks
  /\ Ends(Thought(NoRequirement, <<>>), "completed", Said, ctxDone)
  /\ UNCHANGED <<given, input, Aux>>

ModelCalls ==
  /\ Thinks
  /\ \E cs \in CallLists :
       LET st == Thought(NoRequirement, cs) IN
       IF ShapeOK(cs) THEN Continues(st, cs, Said) ELSE Ends(st, "failed", Said, ctxDone)
  /\ UNCHANGED <<given, input, Aux>>

\* Only a defined tool, with arguments that its schema accepts, is executed.
Accepted(k) == k.name \in DOMAIN Schemas /\ ArgumentsOK(Schemas[k.name], k.args)

\* Defect: a refused call is passed over.
RefuseCallSilently ==
  /\ pc = "acting" /\ ~ctxDone
  /\ ~Accepted(Head(calls))
  /\ Continues(run, Tail(calls), <<>>)
  /\ UNCHANGED <<given, input, Aux>>

\* A call to an unknown tool, or with arguments its schema refuses.
RefuseCall ==
  /\ pc = "acting" /\ ~ctxDone
  /\ ~Accepted(Head(calls))
  /\ LET x == Result(Head(calls).id, Head(calls).name) IN
     Continues(Observed(x, NoRequirement), Tail(calls), <<ToolEvent(run, x)>>)
  /\ UNCHANGED <<given, input, Aux>>

\* A call the tools execute.  One that asks for a suspension blocks: the calls behind it
\* are dropped.
ExecuteCall ==
  /\ pc = "acting" /\ ~ctxDone
  /\ Accepted(Head(calls))
  /\ LET k == Head(calls) IN
     \E r \in ToolReturns(LoopOverride, k, FALSE) :
       LET q  == Bound(k, r.requirement)
           x  == ResultOf(k, r.result)
           es == <<ToolEvent(run, x)>>
       IN
       /\ Ran(k, r)
       /\ \/ /\ r.gives = "answer"
             /\ Continues(Observed(x, NoRequirement), Tail(calls), es)
             /\ UNCHANGED blocked
          \/ /\ r.gives = "suspend" /\ SuspendRequestOK(k, r.requirement)
             /\ Ends([Observed(x, q) EXCEPT !.requirement = q], "suspended", es, ctxDone)
             /\ blocked' = k
          \/ /\ r.gives = "suspend" /\ ~SuspendRequestOK(k, r.requirement)
             /\ Ends(Observed(x, NoRequirement), "failed", es, ctxDone)
             /\ UNCHANGED blocked
          \/ /\ r.gives \in {"deadline", "interrupted"}
             /\ Ends(run, "cancelled", <<>>, r.gives = "interrupted")
             /\ UNCHANGED blocked
  /\ UNCHANGED <<given, input, round, approvals>>

\* The loop looks at the context before each step and each call.
Interrupted ==
  /\ (pc = "thinking" /\ BudgetLeft) \/ pc = "acting"
  /\ ctxDone
  /\ Ends(run, "cancelled", <<>>, TRUE)
  /\ UNCHANGED <<given, input, Aux>>

Exceed ==
  /\ pc = "thinking" /\ ~BudgetLeft
  /\ Ends(run, "max_steps_exceeded", <<>>, ctxDone)
  /\ UNCHANGED <<given, input, Aux>>

EndContext ==
  /\ CtxMayEnd /\ ~ctxDone
  /\ pc # "between"
  /\ ctxDone' = TRUE
  /\ UNCHANGED <<run, given, input, pc, calls, events, refused, Aux>>

-----------------------------------------------------------------------------
(***************************************************************************)
(* The runner, between two executions.                                     *)
(***************************************************************************)

\* The saved run st is handed over.
HandOver(st, in) ==
  /\ pc = "between" /\ round < MaxExecutions
  /\ given' = [st EXCEPT !.version = run.version + 1]
  /\ run' = given'
  /\ input' = in
  /\ pc' = "entering"
  /\ calls' = <<>>
  /\ ctxDone' = FALSE
  /\ events' = <<>>
  /\ refused' = FALSE
  /\ round' = round + 1
  /\ UNCHANGED <<effects, blocked>>

\* A run that is neither suspended nor ended, with the instruction of a steer or a
\* follow_up or without one.
Carry ==
  /\ run.status \notin Terminal \cup {"suspended"}
  /\ \E max \in MaxSteps, said \in {<<>>, <<UserMessage>>} :
       HandOver([run EXCEPT !.messages = @ \o said], [NoInput EXCEPT !.max = max])
  /\ UNCHANGED approvals

\* A suspended run with a resolution of its requirement, and the override an approved
\* tool call needs.
Resume ==
  /\ run.status = "suspended"
  /\ \E max \in MaxSteps, outcome \in OutcomesOf(run.requirement.kind) :
       LET q == run.requirement
           approved == q.origin = "tool" /\ outcome = "approved"
       IN /\ HandOver([run EXCEPT !.status = "running", !.requirement = NoRequirement],
                      [max |-> max, resolved |-> q,
                       resolution |-> [req |-> q.id, kind |-> q.kind, outcome |-> outcome],
                       override |-> IF approved THEN Override(q) ELSE NoOverride])
          /\ approvals' = IF approved THEN Append(approvals, blocked) ELSE approvals

Init ==
  /\ run = [id |-> "run", version |-> 0, step |-> 0, status |-> "pending",
            requirement |-> NoRequirement, messages |-> <<UserMessage>>]
  /\ given = run
  /\ input = NoInput
  /\ pc = "between"
  /\ calls = <<>>
  /\ ctxDone = FALSE
  /\ events = <<>>
  /\ refused = FALSE
  /\ round = 0
  /\ effects = <<>>
  /\ approvals = <<>>
  /\ blocked = NoCall

LoopStep ==
  \/ Enter \/ Replay \/ ModelFails \/ ModelRequires \/ ModelAnswers \/ ModelCalls
  \/ RefuseCall \/ ExecuteCall \/ Interrupted \/ Exceed

\* The run has ended, or the bound is reached.
Quiet ==
  /\ pc = "between"
  /\ run.status \in Terminal \/ round = MaxExecutions
  /\ UNCHANGED vars

Next == Carry \/ Resume \/ LoopStep \/ EndContext \/ Quiet

Spec == Init /\ [][Next]_vars

-----------------------------------------------------------------------------
(***************************************************************************)
(* Types.                                                                  *)
(***************************************************************************)

CallIDs == {k.id : k \in ToolCalls} \cup {""}

\* Every variable has its type, and the step budget bounds what the loop adds.
TypeOK ==
  /\ ValidRunState(given) /\ run.status \in KnownStatuses
  /\ \A i \in DOMAIN run.messages :
       LET m == run.messages[i] IN
       /\ m.role \in {"user", "assistant", "tool"}
       /\ m.calls \in CallLists \cup {<<>>}
       /\ m.call \in CallIDs
  /\ pc \in {"between", "entering", "replaying", "thinking", "acting"}
  /\ pc = "acting" <=> calls # <<>>
  /\ ToSet(calls) \subseteq ToolCalls
  /\ {ctxDone, refused} \subseteq BOOLEAN
  /\ round \in 0..MaxExecutions
  /\ ToSet(effects) \subseteq ToolCalls
  /\ ToSet(approvals) \subseteq ToolCalls /\ blocked \in ToolCalls \cup {NoCall}
  /\ run.step = given.step \/ run.step <= input.max

-----------------------------------------------------------------------------
(***************************************************************************)
(* Safety.                                                                 *)
(***************************************************************************)

Times(s, x) == Cardinality({i \in DOMAIN s : s[i] = x})

\* However often a model repeats a call, or reuses its id, a command the bash policy
\* denies is carried out no more often than it was approved (server README.md:25).
DeniedCallsAreApproved ==
  \A k \in ToolCalls : k.name = "bash" /\ Command(k) \in Denied =>
    Times(effects, k) <= Times(approvals, k)

\* The engine never refuses an approval the runner accepted, and the call it replays is
\* the blocked one, although its id may occur elsewhere in the transcript.
ApprovalIsRedeemed ==
  /\ pc = "entering" /\ ReplayRequested => ~ReplayRefused
  /\ pc = "replaying" => ReplayCall = Last(approvals)

\* What a tool carried out is in the transcript, once for each time, except the last
\* call of a run that was cancelled under it.
EffectsAreRecorded ==
  \A k \in CallIDs :
    Times([i \in DOMAIN effects |-> effects[i].id], k) <=
      Times(run.messages, Observation(k, NoRequirement))
      + (IF run.status = "cancelled" THEN 1 ELSE 0)

\* The tool messages between the assistant message at i and the next one.
AnswersTo(messages, i) ==
  {j \in DOMAIN messages :
     /\ i < j /\ messages[j].role = "tool"
     /\ \A h \in DOMAIN messages : i < h /\ h < j => messages[h].role # "assistant"}

LastAssistant(messages, i) ==
  \A j \in DOMAIN messages : j > i => messages[j].role # "assistant"

\* The message at j is the nth of those answers.
Nth(messages, i, j) == Cardinality({h \in AnswersTo(messages, i) : h <= j})

BlockedAt(messages, i, n) ==
  \E j \in AnswersTo(messages, i) :
    Nth(messages, i, j) = n /\ messages[j].requirement # NoRequirement

\* The answers are to the first n calls, in their order, and perhaps to the nth again,
\* which was blocked.
AnswersFirst(messages, i, n) ==
  LET total == Cardinality(AnswersTo(messages, i)) IN
  /\ total = n \/ (total = n + 1 /\ BlockedAt(messages, i, n))
  /\ \A j \in AnswersTo(messages, i) :
       LET h == Nth(messages, i, j) IN
       messages[j].call = messages[i].calls[IF h <= n THEN h ELSE n].id

\* The calls of an assistant message are answered in their order and each once, only a
\* blocked call again after its suspension; and the model is not asked again before all
\* are answered, unless one of them was blocked.
AnswersFollowCalls ==
  \A i \in DOMAIN run.messages : run.messages[i].calls # <<>> =>
    \E n \in 0..Len(run.messages[i].calls) :
      /\ AnswersFirst(run.messages, i, n)
      /\ \/ n = Len(run.messages[i].calls)
         \/ BlockedAt(run.messages, i, n)
         \/ LastAssistant(run.messages, i)

\* The events of an execution are the messages it added, behind the resolution it was
\* given, in their order and of the calls they answer, and then one event of the status
\* it ends in; a context that ends only cuts them off, and what is cut off is an error
\* of the execution.
EventsMirrorTranscript ==
  LET from  == Len(given.messages)
               + (IF pc # "entering" /\ input.resolution # NoResolution THEN 1 ELSE 0)
      told  == SubSeq(run.messages, from + 1, Len(run.messages))
      tell(m) == <<IF m.role = "assistant" THEN "assistant_message" ELSE "tool_result", m.call>>
      final == IF pc = "between" THEN FinalEvents(run) ELSE <<>>
      sent(es) == [i \in DOMAIN es |-> <<es[i].type, es[i].result.call>>]
      expected == [i \in DOMAIN told |-> tell(told[i])] \o sent(final)
  IN /\ IsPrefix(sent(events), expected)
     /\ refused <=> Len(events) < Len(expected)
     /\ refused => ctxDone

\* Whatever is carried out, at once or as the replay of an approved call, was a call of
\* a defined tool with arguments that its schema accepts (agentreact/react_loop.go:218).
EffectsAreWellFormed ==
  \A i \in DOMAIN effects :
    LET k == effects[i] IN
    /\ k.name \in DOMAIN Schemas
    /\ Schemas[k.name].required \subseteq DOMAIN k.args
    /\ \A f \in DOMAIN k.args :
         \/ f \notin DOMAIN Schemas[k.name].types /\ ~Schemas[k.name].closed
         \/ KindOf[k.args[f]] \in KindsOfType(Schemas[k.name].types[f])

\* No two assistant messages use one call id.
DistinctIDs ==
  \A i, j \in DOMAIN run.messages :
    i # j => IDs(run.messages[i].calls) \cap IDs(run.messages[j].calls) = {}

\* The observations of the call k.
Observations(messages, k) ==
  {j \in DOMAIN messages : messages[j].role = "tool" /\ messages[j].call = k}

\* The jth message behind that at i answers its jth call.
AnswerAt(sent, i, j) ==
  i + j \in DOMAIN sent /\ sent[i + j].role = "tool" /\ sent[i + j].call = sent[i].calls[j].id

\* A call with this id was blocked.
BlockedIn(messages, id) ==
  \E h \in DOMAIN messages : messages[h].call = id /\ messages[h].requirement # NoRequirement

\* No observation has blanks around the id of its call.
Trimmed(messages) ==
  \A i \in DOMAIN messages :
    messages[i].role = "tool" => TrimSpace[messages[i].call] = messages[i].call

\* Whenever the model is asked, the transcript can be sent to a provider unless it has
\* an observation of a call whose id has blanks around it: the normalization does not
\* refuse it, and tells the latest observation of each call once.  (An id with blanks is
\* announced as it is and looked up without them, so the transcript is refused, or the
\* observation stands in for that of another call; adapter.go and the loop take the id.)
\* As long as call ids are not reused, each assistant message is followed at once by
\* the answers to its calls, in their order, up to a call that was blocked.
PayloadAnswersCalls ==
  pc = "thinking" /\ Trimmed(run.messages) =>
    LET sent == Normalized(run.messages).out IN
    /\ Sendable(run.messages)
    /\ \A k \in CallIDs : Observations(run.messages, k) # {} =>
         \E j \in DOMAIN sent :
           /\ Observations(sent, k) = {j}
           /\ sent[j] = run.messages[Max(Observations(run.messages, k))]
    /\ DistinctIDs => \A i \in DOMAIN sent : \A j \in DOMAIN sent[i].calls :
         \/ AnswerAt(sent, i, j)
         \/ \E h \in 1..(j - 1) : BlockedIn(run.messages, sent[i].calls[h].id)

\* A requirement with an id and a kind, which the model raises without a tool call,
\* suspends the run (README.md:107 to 138, where it names no origin).
ModelRequirementSuspends ==
  LET m == Last(run.messages) IN
  pc = "between" /\ m.role = "assistant" /\ m.calls = <<>> /\ m.requirement.kind # ""
  => run.status = "suspended"

-----------------------------------------------------------------------------
(***************************************************************************)
(* The contract with the runner.                                           *)
(***************************************************************************)

\* The messages the runner's provenance rules see in m: one for each call it makes.
Seen(m) ==
  LET see(k) == [role |-> m.role, by |-> "loop", call |-> k, requirement |-> m.requirement]
  IN IF m.calls = <<>> THEN <<see(m.call)>> ELSE [i \in DOMAIN m.calls |-> see(m.calls[i].id)]

SeenMessages(messages) == FlattenSeq([i \in DOMAIN messages |-> Seen(messages[i])])

SeenState(st) == [st EXCEPT !.messages = SeenMessages(@)]

Contract == INSTANCE EngineCall WITH
  Runs <- {"run"}, Cmds <- {"loop"}, EngineKinds <- {"react"},
  Requirements <- {q \in ModelRequirements : ValidRequirement(q)},
  calling <- pc # "between",
  state <- SeenState(IF pc = "between" THEN run ELSE given)

\* Whatever the model and the tools do, the runner accepts what the loop returns.
ImplementsContract == Contract!Spec

-----------------------------------------------------------------------------
(***************************************************************************)
(* The inductive invariant.                                                *)
(***************************************************************************)

\* The requirements that may be raised, and none.
RequirementSet ==
  {NoRequirement} \cup ModelRequirements
  \cup {PolicyRequirement(k) : k \in {x \in ToolCalls : x.name = "bash"}}
  \cup {Bound(k, q) : k \in ToolCalls, q \in AskRequirements}

MessageType ==
  [role : {"user", "assistant", "tool"}, calls : CallLists \cup {<<>>}, call : CallIDs,
   requirement : RequirementSet]

StateType ==
  [id : {"run"}, version : Nat, step : Nat, status : KnownStatuses,
   requirement : RequirementSet, messages : Seq(MessageType)]

LoopTyped ==
  /\ run \in StateType /\ given \in StateType
  /\ input = [max |-> input.max, resolution |-> input.resolution,
              resolved |-> input.resolved, override |-> input.override]
  /\ input.max \in Int
  /\ pc \in {"between", "entering", "replaying", "thinking", "acting"}
  /\ calls \in Seq(ToolCalls) /\ (pc = "acting" <=> calls # <<>>)
  /\ ctxDone \in BOOLEAN /\ refused \in BOOLEAN
  /\ round \in 0..MaxExecutions
  /\ effects \in Seq(ToolCalls) /\ approvals \in Seq(ToolCalls)
  /\ blocked \in ToolCalls \cup {NoCall}

\* The statuses a run may be handed over in.
Resumable == {"pending", "running", "max_steps_exceeded"}

\* A run is only suspended or over between two executions.
StatusOK ==
  /\ SuspensionInvariant(run) /\ given.requirement = NoRequirement
  /\ given.status \in Resumable
  /\ pc = "entering" => run.status \in Resumable
  /\ pc \in {"replaying", "thinking", "acting"} => run.status = "running"

BudgetOK == run.step = given.step \/ run.step <= input.max

\* k is the call that is found under its id.
LatestCall(messages, k) ==
  \E i \in DOMAIN messages : \E j \in DOMAIN messages[i].calls :
    /\ messages[i].calls[j] = k
    /\ \A h \in DOMAIN messages[i].calls : h > j => messages[i].calls[h].id # k.id
    /\ \A h \in DOMAIN messages : h > i => k.id \notin IDs(messages[h].calls)

\* The calls to execute are the latest the transcript announces.
CallsOK == \A i \in DOMAIN calls : calls[i].id # "" /\ LatestCall(run.messages, calls[i])

\* A requirement that a tool raised is about the blocked call.
BlockedOK ==
  run.status = "suspended" /\ run.requirement.origin = "tool" =>
    /\ blocked \in ToolCalls /\ blocked.id = run.requirement.call
    /\ Accepted(blocked)
    /\ LatestCall(run.messages, blocked)

\* The loop has still to replay the call that was approved last.
ToReplay == pc \in {"entering", "replaying"} /\ ReplayRequested

\* What there is to replay was approved, and the runner's override is for it.
ReplayOK ==
  /\ pc = "replaying" => ReplayRequested
  /\ ToReplay =>
       LET q == input.resolved  k == Last(approvals) IN
       /\ ValidRequirement(q) /\ q.kind = "approval"
       /\ input.resolution.req = q.id /\ input.override = Override(q)
       /\ approvals # <<>> /\ k.id = q.call
       /\ Accepted(k)
       /\ LatestCall(run.messages, k)

\* The approval of a call that is still to be replayed is not spent.
ApprovalsOK ==
  \A k \in ToolCalls : k.name = "bash" /\ Command(k) \in Denied =>
    Times(effects, k) + (IF ToReplay /\ k = Last(approvals) THEN 1 ELSE 0)
      <= Times(approvals, k)

EffectsOK == \A i \in DOMAIN effects : Accepted(effects[i])

LoopInv ==
  /\ LoopTyped /\ StatusOK /\ BudgetOK
  /\ CallsOK /\ BlockedOK /\ ReplayOK /\ ApprovalsOK /\ EffectsOK
=============================================================================
