# A specification of agentframe

agentframe runs agents: a *run* is a transcript with a status; a *command*
(start, continue, cancel, steer, follow_up) moves it forward; an *engine* (the
React loop) lets a model and tools add to it; a *store* keeps it under optimistic
concurrency; a *sink* is told about it. These modules model the parts that decide
what may happen to a run, check them with TLC on small instances, and prove the
central facts with TLAPS for every value of the constants.

Paths below are relative to the repository (`src/`).

## 1. The system

| Component | State it keeps | Operations | Hard behaviour | What makes it correct |
|---|---|---|---|---|
| Run data and lifecycle (`agent/run.go`, `lifecycle.go`, `run_validation.go`) | none: values | `TransitionRunStatus`, `ValidateRunState`, `ValidateResolution` | a suspension and its requirement must come and go together | the allowed transitions; suspended exactly while a valid requirement is pending |
| Command runner (`agent/runner.go`) | lock table, idempotency cache | `Dispatch` of five commands, `Run`, `Continue`, ... | commands that race (start takes no lock), contexts that end between two looks at them, a sink that refuses after the save, retries | what is stored is as if commands came one at a time; nothing ended is rewritten; an acknowledged command is in the store; a command id is one continue; a blocked call is replayed once per approval; a command returns |
| Per-run locks (`agent/runner.go:30` to 130) | run -> counted mutex | `lockRunMutation`, the closure it returns | the last unlock deletes the entry under the feet of the next caller | one mutex per run; no leak; no waiter starves |
| Engine contract (`agent/runner.go:205`, `engine.go`) | none | `validateEngineOutput` and the provenance rules | engines are foreign code | nothing that breaks the contract is stored; the loop keeps the contract |
| React loop (`agentreact/react_loop.go`) | the run it works on, the calls to execute | `Execute` | any answer of the model, tools that suspend, fail or are cancelled; replay of an approved call; a step budget across executions | see `ReactLoop` below |
| Replay override, suspend requests (`agent/approved_tool_call_replay_context.go`, `suspend_request.go`), bash approval (`examples/coding-agent/server/internal/toolset/bash.go`) | a value in the context | authorize one call | an authorization that outlives its call; reused call ids | a denied command runs once per approval, the right one |
| Retry policy (`policy/retry/retry.go`) | none | wraps an engine | repeats effects, loses inputs | an approval survives it (it does not: finding 3) |
| In-memory store and sink (`runstore/inmem`, `eventing/inmem`) | runs, events | `Load`, `Save`, `Publish` | version conflict, context ends | part of the runner's properties |
| Stream broker and event endpoint (`runstream/broker.go`, `httpapi/handlers_run_events.go`) | the last 32 events per run | `Publish` through a sink that fans out, `EventsAfter` a cursor, the handler's answer and ticks | history that drops events under its readers, two sinks that are not updated together, a body that ends without saying why | the history is the tail of what was accepted; the stream keeps the log's order |
| Chat client, events command (`client/internal/cmd/cmd_chat.go`, `cmd_events.go`, `client/internal/chat`) | active run, cursor, prompt | commands, stream loops | a loop that outlives its run, reconnects, a user who answers for a requirement that is gone | events shown once and in order from the cursor on, one live loop, an end that is told; an approval releases what was shown |
| HTTP API, limits and token (`httpapi/`, `policylimit`, `policyauth`) | none of its own | judge a request, dispatch, map errors to a status | a request whose client or time is gone; errors that are joined | an answer's status can be believed |
| Server process (`app/app.go`, `cmd/server/main.go`) | readiness, the listener | start, signal, graceful shutdown | start beside shutdown, handlers that do not end | it stops, and cleanly if in time |
| Tool schemas, event validation, payload normalization (`agentreact/tool_validation.go`, `agent/event_validation.go`, `modelprovider/preflight`) | none: rules | checks and conversions | what a model may send, a transcript with a call answered twice | see `ReactLoop` below |
| Adapter's encoding, registry, file tools, configuration, mocks | little or none | I/O | | see section 8 |

Who calls whom: the HTTP API or a Go caller calls `Runner.Dispatch`; the runner
takes the run's lock (not for start), loads the run from the store, calls
`Engine.Execute` for start, continue and follow_up, checks what came back, saves
it, publishes its events and remembers the outcome of a continue with a command
id. The React loop calls the model and the tool executor and publishes its own
events to the same sink. A suspended run goes back to the caller; the resolution
comes in with a continue, and when it approves a tool call the runner puts an
override in the context that lets the tool through once. The server's sink is a
fan-out to the in-memory event log and the stream broker; the events endpoint reads
the broker for the chat and for the events command, which print what they read.

## 2. The modules

    RunLifecycle            the data of a run and its rules
      +- EngineContract     validateEngineOutput; the outcomes of Execute
      |    +- EngineProofs  facts about outcomes and validation
      |    +- EngineCall    abstract: what the runner relies on in an Execute
      |    +- CommandRules  the gates and edits of the five commands
      |         +- AtomicRuns   abstract: commands take effect one at a time
      |         |    +- Session (with CommandAPI, ServerProcess), MCSession,
      |         |              SessionProofs (EXTENDS EngineProofs)
      |         +- Runner   Dispatch over the store, the sink, the locks, the
      |              |      cache; implements AtomicRuns and RunMutex
      |              +- MCRunner
      |              +- RunnerProofs (EXTENDS EngineProofs)
      |                   +- ResultProofs   answers, retries, events
      +- ReactLoop          Execute step by step (with ToolArguments, EventRules,
           |                ProviderPayload); implements EngineCall
           +- MCReactLoop
           +- RetryLoop     the retry wrapper around it
                +- MCRetryLoop
                +- ReactProofs
                     +- TranscriptProofs   events, contract, answers, payload
    RunMutex                abstract: one mutex per run
    CommandLocks            runCommandLocks; implements RunMutex
      +- MCCommandLocks, CommandLocksProofs
    EventLog                abstract: a growing log, read from a place on
    StreamBroker            the bounded history, its cursors, its publishers
      +- EventReaders       the endpoint and its readers; implements EventLog
           +- MCEventReaders, StreamProofs

**RunLifecycle** has the run state as a record of id, version, step, status,
requirement and messages. A nil requirement or resolution is the record with an
empty id and a run that is not stored has version 0, so that every pointer test
in the code is a comparison of fields. `TransitionOK`, `ValidRunState`,
`ValidRequirement` and `Resolves` are the validators of the code with their
wording left out.

**EngineContract** has `ValidEngineOutput` (`validateEngineOutput` and the
suspension provenance rules) and the set of outcomes one `Execute` call may have:
`ReactOutcomes` (the loop seen from outside, with its messages reduced to what the
provenance rules and the replay read), `RetryOutcomes` (the wrapper around it, two
attempts) and `RogueOutcomes` (an engine that breaks every clause of the contract
and returns states the store refuses).

**CommandRules** has what a command asks of the run it finds (`GateError`) and what
it makes of it before the engine or the store sees it (`StartState`, `Resumed`,
`Instructed`, `Cancelled`). **AtomicRuns** puts the two together without locks,
versions to race for, contexts or events: a command is admitted and its result
stored in one step. It is the promise of the runner, and `Runner` is checked to
implement it under `store <- store`, `writers <- history`.

**Runner** is the composition: each `Dispatch` call is a process with a program
counter.

| Action | Code |
|---|---|
| `Dispatch` | the routing switch of `Dispatch`; a start builds its pending state |
| `Lock`, `Return` | `lockRunMutation` and its deferred unlock; start has neither |
| `AnswerFromCache` | `continueOutcomes.load` |
| `Load`, `LoadInterrupted` | `Store.Load`, the gates, the command's edit of the state |
| `Create` | a start's first save, with its run_started event |
| `Execute` | `Engine.Execute`, the events the engine publishes, `validateEngineOutput` |
| `Save`, `SaveInterrupted` | `Store.Save`, `normalizeCommandSaveError` |
| `Publish`, `PublishFails` | one event after the other, errors joined |
| `Conclude` | `continueOutcomes.store` |
| `EndContext` | the caller's context ends while the engine is still to run |

An engine call is one step: while it runs, the command holds its lock (or, for a
start, only other starts and whatever the version check must repel can touch the
run), and nobody reads what it does before it returns except the sink, whose
order against other commands no property is about. Of what was published the model keeps
the version the last event announced (`told`).
`sideEffectContext` hands over the caller's context while it is live and a
detached one once it is done; the store and the sink look again. A call can
therefore fail on a context only when it ends between the two looks, and the
failing step is the step that ends it.
`history` (who wrote each version) and `replays` (the version whose blocked call a
command replayed) are auxiliary: no guard reads them.

**CommandLocks** has the map, the reference counts, the mutexes and the goroutines.
What `lock` does under `l.mu` is one step, because the map and the counts are
touched nowhere else and nothing waits inside. An entry is a heap object that may
be allocated again once nothing refers to it. It is shown to implement
**RunMutex**, where the mutex of a run just exists: `waiting` maps to the callers
that wait for the run, `holder` to the owner of the run's entry in the map.
`Runner` uses the abstract form (`Lock`, `Released`), and is itself shown to implement
**RunMutex**, with `Waiting` and its own variable `lock` for the two: what `Dispatch`
asks of its mutexes is what the counted entries give.

**ReactLoop** is `Execute` with its prelude, the replay, model turns, tool calls
and every way to end, one step each, with the executions of one run one after the
other. Between two of them `Carry` and `Resume` do what the runner does: save, and
hand the run over again with a resolution. The model answers anything in
`CallLists` and `ModelRequirements`, valid or not. The tools are the coding
agent's: `bash`, which refuses a denied command unless the context's override
names this very call and fingerprint, the file tools, which need their string
arguments, and one that may ask for anything. The sink refuses an event when the
context has ended, or at any time where `SinkMayFail`: the loop goes on and returns
the error with the run (`refused`).
`effects`, `approvals` and `blocked` record what was carried out, approved and
blocked; no guard reads them.

Three modules of operators hold rules the loop applies. **ToolArguments** has the
schema rules over functions from fields to values of a kind (a JSON number is a
float), the schemas of the four tools, and what the executors ask of a string.
**EventRules** has `ValidateEvent` over the fields an event of each type may carry;
the loop publishes only what it admits. **ProviderPayload** has `normalize.go`: a
fold over the transcript that keeps the latest observation of a call in the place
of its first, or refuses the transcript. The id of an observation is looked up without
the blanks around it (the constant `TrimSpace`), that of a call is kept with them.

**RetryLoop** is `retry.WrapEngine` around the loop: `Begin` hands a copy of the run
and the rebuilt input to an attempt, `Again` starts another from the same state while
the loop came back with an error and attempts are left, and `Hand` returns the last
one's result. Effects and approvals of the attempts that failed stay.

**EngineCall** states what the runner may rely on; `ReactLoop` implements it under
the map `state <- the run handed over or returned`, `calling <- an execution is
under way`. So the outcomes `Runner` gives to its engine and the loop's real
behaviour meet in one definition, `ValidEngineOutput`.

**StreamBroker** is the server's side of the stream. To it a command is a publisher
that passes its events one by one to `fanoutSink`: `Log` is the first sink, `Stream`
the second, with anything else in between, and `Refused` is an event whose context
ended before the first or between the two. A start publishes without a lock once it
has created the run (`BeginStart`), any other command while it holds the run's mutex
(`BeginLocked`). `Appended`, `CursorError` and `After` are `Broker.Publish` and
`Broker.EventsAfter`. A run without a history behaves in both as one with an empty
history does, so histories exist from the beginning.

**EventReaders** composes it with the endpoint and the client.

| Action | Code |
|---|---|
| `SetActiveRun`, `StartStream`, `Quit` | `/start` after an answer of 200 with whatever run id it has, `startStream`, `stopStream` |
| `ReadActiveRun` | the first lines of `streamLoop`, in its own goroutine |
| `RunEvents` | the events command with a run and a cursor |
| `Open`, `OpenRefused` | `openEventsStream` and `handleRunEvents` up to its loop |
| `Poll` | one tick of the handler |
| `Read`, `EndOfStream`, `Reopen` | a frame, the end of the body, the pause |
| `Break`, `Leave` | the connection breaks or was cancelled; a cancelled loop returns |

An accepted start may answer the empty run id (`AnsweredIDs`; finding 1), and the chat
then opens a stream of it, which the server does not know. That takes a command that saved
between the start's two saves, so the model allows it where the run has a command that
takes the mutex. `chat.answered` keeps which starts were answered.

`conn` is a connection with both its ends: the handler's cursor, and the frames sent
and not yet read. The events command and the chat's loop are the same loop but for
the chat's state, so a reader is either. It is shown to implement **EventLog** under
`log <- streamed`, `seen <- shown`: whatever the broker drops, and however often a
reader reconnects, it is shown the events behind the cursor it began with, one after
the other, and no other.

**Session** closes the system: clients, the HTTP API, the runs and the process.

| Action | Code |
|---|---|
| `ChatStart`, `ChatContinue`, `ChatResolve`, `ChatResume`, `ChatInstruct` | the chat's commands; `/continue` looks at the run first and prompts if it is suspended |
| `CliLook`, `CliCommand` | the one-shot commands of another client |
| `Refuse`, `Take` | middleware, decoding, budget, and the gates of the runner under the run's lock |
| `Finish`, `Lose` | the command is stored, or another write or the end of its context came first; the error becomes a status |
| `TimeOut`, `GiveUp`, `Receive` | the policy's timeout, a client that does not wait, the answer |
| `SetReady`, `Listen`, `ListenFails`, `Outside`, `BeginDrain`, `DrainedIdle`, `ForceClose`, `ExitWithAll` | `App.Start`, the signal or a listener that breaks, `App.Shutdown`, the end of `main` |

**CommandAPI** has the judging of a request's form (`FormError`) and `mapRuntimeError`
as an ordered table of tiers over the set of sentinels an error holds (`Tiers`,
`StatusOf`), with the exception for a budget that is used up (`Accepted`).
**ServerProcess** has the process by itself: two goroutines, the listener, which may
break while requests are under way (`ServeFails`), the drain and its deadline. The runner in `Session` is that of `AtomicRuns`, with the two things
a client can notice beside it: a run's lock is held from `Take` on, and a write that
came first makes a command lose (`Fresh`). `seen` and a command's `shown` keep the run and
the version beside the requirement a client was shown; they guard nothing. An open event stream is one more reason why
a drain need not end, so it is the freedom of `DrainedIdle` not to happen.

Definitions whose comment starts with "Defect" belong to no specification. Each is
one definition of the model with a plausible bug in it, kept beside the original
to show that the property aimed at it would notice.

## 3. The runs

| Run | Instance | Distinct states | Shows |
|---|---|---|---|
| `races` | a start and any two further commands on one run, repeated command ids, contexts that may end | about 877,000 | `IInv`, `ResultInv`, `TerminalIsFinal`, `NoLostInstruction`, `ResultsArePersisted`, `EventsFollowVersions`, `OneWritePerCommandID`, `ReplayedOncePerSuspension`, `ApprovedCallIsReplayed`, `RunsAreAtomic` and `LocksAreMutex` (refinements) |
| `faults` | start, continue and cancel on two runs; the rogue engine beside the loop, and a sink that may refuse any event | 56,250 | `TypeOK`, `SuspensionIsResolvable`, `SavesExtend`, `CommandsReturn` |
| `locks` | three goroutines, two runs, three entries | 2,144 | `LocksInv`, `IsMutex` (refinement), `WaitersServed` |
| `react` | three executions, budgets 2 and 3, a model that asks for allowed, denied, unknown and malformed calls | about 316,000 | `TypeOK` and the properties below, `ImplementsContract` (refinement) |
| `retrying` | the loop under three attempts, a sink that may refuse | about 97,000 | `DeniedCallsAreApproved`, `ExecuteReturns` |
| `stream` | three publishers, two runs, two readers, a history of two events | about 555,000 | `IsEventLog` (refinement), `ReadersCatchUp`, `HistoryIsTail`, `StreamFollowsLog`, `OneLiveLoop`, `CursorIsShown`, `EndsAreTold` |
| `session` | a chat with two commands, another client with one, one run, three approvals, two of them under one id; the server may be told to stop, and its listener may break | about 501,000 | `AnswersAreTrue`, `StopsCleanly`, `ApprovalIsForWhatWasShown`, `ServerStops` |
| `lostrace`, `retriedid`, `retry`, `origin`, `zero` | | | the findings of section 7: one violated property each |

What the properties say beyond their names:

* `TerminalIsFinal`, `SavesExtend`: start takes no lock, so two engines can work
  on one run; only `SaveError`'s comparison of versions separates them. The write
  of the slower one must be refused, whatever it did in between.
* `RunsAreAtomic`: every write to the store is the whole effect of one command on the
  state it replaces. A save that mixes what a command read with what another wrote
  since, a command admitted by a state that was gone when it was saved, and a command
  that writes twice are all excluded at once.
* `LocksAreMutex`: a command waits for the mutex of its own run, once, and never for one
  while it holds another; it gets it when nobody has it, and on every way out of
  `Dispatch`, refusals and failures included, it gives back that one and no other.
* `NoLostInstruction`: an acknowledged steer or follow_up is in the stored
  transcript and stays there, whoever saves after it. *Acknowledged* includes the
  errors that leave a command applied (an engine error, a refused event).
* `ResultsArePersisted`: the state handed back is a version the store really held,
  written by this command or, from the cache, by one with its command id.
* `OneWritePerCommandID`: a retried command id persists one continue.
* `ReplayedOncePerSuspension`: a blocked call is replayed twice only if a caller
  was told that its context ended before the save. The stronger claim fails
  (finding 2).
* `EventsFollowVersions`: the lock covers the publishing, so the events of the
  locked commands carry ascending versions, and no step takes `told` back. Start is
  left out, which publishes without the lock.
* `DeniedCallsAreApproved`, `ApprovalIsRedeemed`: a denied command is carried out
  only by the replay of an approved one, once, and it is the call that was
  blocked and not another that reused its id. The first holds under the retry wrapper
  too, where a failed attempt has left its effects: it is the dropped resolution
  (finding 3) that keeps a second attempt from replaying.
* `EffectsAreWellFormed`: nothing is carried out that the tool's schema refuses. The
  replay of an approved call is not validated again; the property relates it to the
  validation it went through before it was blocked.
* `EffectsAreRecorded`: what was carried out is in the transcript, except the call
  during which the context ended or which gave up on a deadline, and then the run
  is cancelled.
* `AnswersFollowCalls`: each assistant message's calls are answered in order and
  once, except a blocked call, which its replay answers again, and the calls
  behind it, which are dropped.
* `EventsMirrorTranscript`: the events of an execution are its messages in order
  and one final event; a context that ends only cuts them off.
* `PayloadAnswersCalls`: whenever the model is asked, and no tool call id changes when it
  is trimmed, the transcript can be sent: the normalization refuses none the loop can
  build, tells each call's latest observation once, and (as long as ids are not reused)
  leaves the answers in their calls' order behind them. A call that was blocked is answered twice in the transcript, maybe far
  apart. Of a padded id the claim is false (section 7), and the run has one.
* `ExecuteReturns`: under the wrapper an execution ends, however often the attempts
  fail.
* `AnswersAreTrue`: 200 means that the command wrote the version it was shown; 401,
  403, 404, 413 and 429 that it wrote nothing; 409 that it wrote nothing, or created
  a run it could not finish. 400, 408 and 500 mean nothing of the kind: an engine's
  invalid state, an ended context and a failed run look the same whether or not the
  command was stored.
* `ApprovalIsForWhatWasShown`: the chat sends an approval without a version, long after
  it looked. What protects its user is that the runner compares the requirement's id
  and kind. So what is released has the id and the kind that were shown, and is the very
  requirement that was shown, unless the run was written since the look or the
  requirement shown was another run's. The exception is needed: bash makes ids of call
  ids, so a model that reuses one has its second suspension released by an approval of
  the first (hazard `bash.go:31`), and the run reaches that.
* `StopsCleanly`, `ServerStops`: a stop in time has answered what it took; one that
  ran out of time has cut the connections; in both the process ends without a
  listener, also when `Start` comes after `Shutdown` or the listener breaks by itself. A
  process that ends because its listener broke, with no signal, waits for nothing; a clean
  stop is promised to the signal only.
* `StreamFollowsLog`: the log and the broker take an event one after the other and
  other commands come in between, yet two events of locked commands are never told in
  the other order. Those of a start may be: it holds no lock.
* `CursorIsShown`: a cancelled loop may show its run's events after the chat moved on;
  it must not advance the cursor of the next run.
* `EndsAreTold`: the body of a stream ends without an error in it, so the reason must
  come with the next request. A loop says *expired* only when the next event is
  really gone, and a chat's loop never asks with a cursor the server does not know, nor
  with a run, but for the empty id of a start that was overtaken.
* `ReadersCatchUp`: again and again a reader has shown all there is, or its loop has
  ended; no reader is left hanging on a stream that tells it nothing more.

### Bounds

* *Runner: three commands, one dispatch each.* A race needs a start to create the
  run and two others to meet on it; both of these may be of every kind in `races`, and
  their contexts may end. Properties about command ids and replays relate two
  continues, and need the start that suspends the run before them. Versions, steps and
  transcripts are bounded by the number of commands, so no state constraint is needed.
* *One run*, except in `faults`, where the engine may return another run's id. Runs
  share nothing but the lock table and the cache, whose keys carry the run id.
* *Two requirements*: one of a tool, one of the model; the code branches on the
  origin only. One command id besides none.
* *ReactLoop: three executions*: suspend, approve and replay, and one in which the
  override must be gone, or the id is used again. The call lists hold a denied and
  an allowed command with one id, a blocked call before and behind another, an
  unknown tool, arguments that are missing, blank, too many or of the wrong kind, a
  repeated id and one with a blank before it; budgets 2 and 3 end an
  execution at once, in the middle, and not at all.
* *RetryLoop*: two executions of at most three attempts each, where the second begins
  with what the first has left, and a sink that refuses at any event.
* *Session*: three commands, because a race that matters needs a start and two that
  meet on its run, one of them the chat's with a prompt in between. Three approvals, so
  that a run can be suspended for something else by the time an answer comes, under
  another id or under the same. Nobody looks who has no command left to send. Steer is
  left to the runs of `Runner`. Two
  forms of a request, one with too large a budget; the first two refusals of
  `FormError` end a request in the same way. The chat's user takes what the prompt
  offers, and approves.
* *CommandLocks*: three goroutines give the case that matters, one leaving, one
  waiting with the old entry and one arriving; a third entry is never needed by two
  runs, and is there so that allocation is never forced to reuse.
* *EventReaders*: a history of two events and three of one run, so that the first is
  dropped while a reader is before, at or behind it; every cursor from 0 to 2, which
  is beyond a history that has just begun; one event per command, because a
  command's own order is its program's. Two loops are what `startStream` relates:
  the one it cancels and the one it starts. One reader may be an events command and
  have a bad connection.

The runs check deadlock, but for those of `Session`, where the process exits. `Quiet`
is the one stuttering step that says the system really
stops: all commands have returned, or the run has ended or reached the bound.

### Fairness

`Runner!FairSpec` has weak fairness on each command's own steps: an engine returns
(the loop is bounded by its budget and waits on a model and on tools that are given
a context), and `sync.Mutex` hands itself to a waiter. Dispatching is not fair (a
client need not call) and neither is the end of a context. `CommandLocks!FairSpec`
has weak fairness on unlocking and strong fairness on acquiring, which is what the
starvation mode of `sync.Mutex` gives a waiter while others keep coming; callers
need not ask again. `EventReaders!FairSpec` has weak fairness on what a loop and its
handler do by themselves: the ticker ticks, requests are answered, and the loop reads
on and ends its pauses. Publishing, starting, quitting and a breaking connection are
not fair. `RetryLoop!FairRetrySpec` has weak fairness on the wrapper and on the loop
inside it: the model and the tools return, as they are given a context; nobody need
call again. `SessionSpec` has weak fairness on the steps of the process only: its two
goroutines run and the shutdown's timeout passes. No client need send or read, no
stream need end, and no handler need finish.

## 4. The proofs

All theorems hold for every value of the constants under the named assumptions
(`CommandsAssumption`, `ResolutionsAssumption` and so on, in the module that declares
the constant):
`KindsOf` and `RunOf` are functions over the commands, the lock's free value is no
command, requirements and resolutions are valid ones (an invalid
resolution is refused where one that does not match is, before anything changes), the
engine kinds are the three that are modelled, the set of callers of the lock table is
finite, `nil` is no entry, the model's answers are sequences of calls, and the
requirements a tool may raise have the five fields of one.

* `RunnerProofs!TypeCorrect`: `Spec => []TypeOK`. It rests on `EngineProofs`: every
  outcome of every engine is a typed state when the runner accepts it. A rogue
  state may have a negative step; that the check of steps repels it is a step of
  the proof.
* `RunnerProofs!Invariant`: `Spec => []IInv`, with
  `IInv == StoreOK /\ PendingWritesExtend /\ LockHeld`. The version check alone is
  no invariant: that a save extends the store needs to know, *before* the save,
  that the state a command is about to save extends the stored one *if their
  versions agree*. `PendingWritesExtend` says so for every place a command can be
  in. It is inductive because another command's save raises the version, which
  makes the condition vacuous for everybody who read the older one, and because an
  accepted engine output extends what the engine was given. `StoreOK` is needed
  where a start saves version 0: nothing is stored then. `LockHeld` is independent
  of the other two and gives mutual exclusion.
* `EndedRunsStay` (`TerminalIsFinal`), `WritesExtend` (`SavesExtend`) and
  `OneAtATime` (`OneLockedCommandPerRun`) follow from it. They are proved for the
  rogue engine too: the runner does not trust its engine for them, but in one point
  (section 7, the last paragraph).
* `RunnerProofs!LocksAreAMutex`: `Spec => LocksAreMutex`. `LocksAreOwned` is what the map
  to `RunMutex` needs: who has a mutex has that of its own run and is on its way to giving
  it back, so a command that asks for one has none. With `LocksImplementMutex` the chain is
  closed: `Dispatch` uses, and the counted entries give, the same mutex.
* `EngineProofs!ReactKeepsContract`: every outcome in `ReactOutcomes` passes
  `ValidEngineOutput` from every state and resolution the runner may hand over, so
  the branch on which the runner refuses an output is dead for the loop.
* `CommandLocksProofs!LocksInvariant`: `Spec => []LocksInv` for any finite set of
  callers. `LocksInv` is inductive as it stands; the work is in `CountsUsers`, where
  the reference count is the cardinality of the set of callers that refer to an
  entry, and each step adds or removes one.
* `CommandLocksProofs!LocksImplementMutex`: `Spec => IsMutex`. Each step of
  `CommandLocks` is a step of `RunMutex` or a stutter (`Unregister` changes nothing
  the abstract mutex has), using `LocksInv` in the state before and after.

* `RunnerProofs!RunnerIsAtomic`: `Spec => RunsAreAtomic`, the refinement of
  `AtomicRuns`. A save must be the whole effect of a command on what it replaces, but
  the effect was made in three steps long before: the load, the engine, the save. The
  inductive invariant `WorkInv` carries it over them. `PendingEffects` says that as
  long as nobody has written the run since, what a command works on is what
  `CommandRules` makes of the *stored* state, admitted by the gates on that state, and
  that what it is about to save is an accepted answer of the engine to it. `RequestsOK`
  ties the command to what it was dispatched with. `HistoryOK` says that a version's
  writer is past its save: it is what tells a start's second save, which no gate admits,
  from a write by another.
* `ResultProofs!ResultInvariant`: `Spec => []ResultInv`. Everything a caller can notice
  beside the store is put in terms of `history`, who wrote which version: an answer or a
  remembered outcome was written by the command or by one with its key (`AnswersOK`);
  a key is remembered before its command releases the run, and while a command with a key
  is at work nothing is remembered for it (`CacheOK`); what a lock holder still has to
  announce is the version it wrote, which is not behind what was announced (`EventsOK`); an
  instruction is in what its command works on, and once persisted in the store
  (`InstructionsOK`); from version two on the holder of the lock is the only writer, which
  leaves an ended context as the one way to lose the save after a replay
  (`SuspensionsOK`, `ReplaysOK`). `AnswersArePersisted`, `InstructionsStay`,
  `EventsAreOrdered`, `WritesOnce` and `ReplaysOnce` follow from it, each for any number of
  commands, runs and command ids.
* `ResultProofs!SuspensionsAreResolvable`: what `validateEngineOutput` lets into the store
  can be resolved later. Nothing is assumed of the engine.
* `ResultProofs!ApprovalsReplay`: an approval that is written did replay its call. It has
  two hypotheses, and needs both. `EngineKinds = {"react"}`: under the retry wrapper it
  is false (finding 3), and an engine of another kind owes no replay. `IdsHaveOneOrigin`:
  the runner compares the id and kind of a requirement and not its origin, so two
  requirements of one id, one of a tool and one of a model, could be taken for each
  other. The code makes an id per origin (bash: `req-bash-policy-` and the call's id).
* `StreamProofs!StreamInvariant`: `Spec => []StreamInv`, with
  `StreamInv == BrokerInv /\ ReadersInv`. `StreamFollowsLog` is not inductive: an event
  in the second sink is last there, and must be last in the log as well. `StreamingOK` says
  that the event a locked publisher has logged and not streamed is behind those of all other
  locked publishers in the log; `PublishersOK` keeps two of them from holding one run.
  On the readers' side `WiresOK` says that the frames under way are those that follow the
  cursor, `CursorsOK` that the cursor is what was shown, `ChatOK` that the chat's loops have
  one run each, whose start was answered (so that a cursor of theirs is known to the
  server, also by a loop that is cancelled already), or the empty run id, and `EndsOK` what the end of a loop says of the log
  rather than of the history, which moves on.
* `HistoriesAreTails`, `StreamsFollowTheLog`, `OneLoopIsLive`, `CursorsAreShown` and
  `EndsAreAlwaysTold` follow from it. `StreamProofs!StreamIsEventLog`: `Spec => IsEventLog`.
  A frame that is read is the next event of the log by `WiresOK`, and every other step of
  broker, handler or client appends to the log, opens a reader or is a stutter. The lemmas on
  the way are about the operators: what `Kept` and `Appended` do to a tail of a log
  (`HistoryLimit` of any size), and that `After` is what follows a cursor in it.
  `RunsAssumption` (some run exists) is there because the map gives a reader that has not
  begun a place in some run.

* `SessionProofs!SessionInvariant`: `SessionSpec => []SessionInv`. `AnswersAreTrue` speaks of
  commands that were answered, so the invariant has to know what those that were not may
  have written: nothing, or version 1 for a start at work (`WorkOK`, with `VersionsOK` for
  the version a stored command is shown). That a status cannot come from another error is
  a fact about the table (`StatusTold`: the tiers of 401, 403, 404, 413, 429 and 409 have no
  error of an execution in them), and the reason why a new error in one of those tiers would
  break the theorem. `ProcessOK` gives `StopsAreClean`: the listener is closed before the
  drain is over, and requests come in through the listener only.
* `SessionProofs!ApprovalsReleaseWhatWasShown` has no hypothesis: requirements may share ids
  as a model pleases. The gates in `WorkOK` and `AsksOK` (a resolution names what its sender
  was shown) give the id and the kind. The rest is `ShownOK`, a second invariant beside
  `SessionInv`: what was shown of a run's version is that run's requirement as long as the
  run has that version. A run's version only grows, and a write that leaves it alone leaves
  the requirement alone (`Advances`), so it holds for what a client was shown (`DatedView`)
  and for what a command was sent with and is answered with (`DatedCall`).

* `ReactProofs!LoopInvariant`: `Spec => []LoopInv`, for any answers of the model, any tools,
  schemas and policy, and any number of executions. That a denied call needs an approval
  is not inductive, because the approval names a call by an id that the model chose and may
  have used before. `LatestCall` is what makes it work: every call still to execute,
  blocked or to be replayed is the last one in the transcript with its id. It holds when an
  answer is accepted (`validateToolCallShape` refuses an id twice in one answer), and
  stays because observations and user messages make no calls. `BlockedOK` carries it over a
  suspension, `ReplayOK` from the approval to the replay, and `ApprovalsOK` counts the
  approval of a call still to be replayed as not yet spent. `BudgetOK` keeps the step type
  right where a run is handed over with more steps than the new budget allows.
* `DeniedCallsRunOnApproval`, `ApprovalsAreRedeemed` and `LoopTypeCorrect` follow from it.
  `WhatRunsIsWellFormed` has the hypothesis `ClosedIsDescribed`: the validator looks for
  unknown fields only behind the test that a schema has properties, so a closed
  schema without properties lets every field through. No tool in the repository closes its
  schema; a tool of another program may.
* `ReactProofs!EffectsReachTranscript`: `EffectsAreRecorded` is inductive beside `LoopInv`:
  each action adds at most one effect and the observation that records it, or ends the run as
  cancelled. The counts are cardinalities of sets of places, and `Times` of a sequence with
  one more element is the lemma the proof keeps using.
* `ReactProofs!RetriedCallsRunOnApproval`: the same of `RetrySpec`. `RetryInv` adds that an
  attempt is given no resolution, so that an attempt from the state of an earlier one cannot
  spend an approval a second time.

* `TranscriptProofs` has the four results about the transcript as a whole. What they speak
  of are folds: the messages of a step, the calls of a transcript flattened, the payload of
  `normalize.go`. None of the library's induction theorems can be used for them (they take
  an operator as a parameter), so each fold is read as a function on positions, whose value
  at one place follows from the place before (`Concatenates`, `Normalizes`), and what is to
  hold of every sequence is proved from a least counterexample (`LeastNumber`, which is
  `NatLessThanWellFounded` of the library). After that every proof is about one message
  more. Each action of the loop is brought into one of a few shapes first: it begins an
  execution, appends what the model said, or what a tool did, or what a replay did, or ends.
* `EventsTellTheTranscript` (`EventsMirrorTranscript`): the invariant says which part of the
  transcript the events so far tell, and that they are cut off nowhere but where the
  context ended. Its hypothesis is `~SinkMayFail`: an event that a sink refuses for a
  reason of its own is missing among those that follow, and the loop goes on.
* `LoopImplementsContract` (`ImplementsContract`): `Spec => Contract!Spec`, the refinement
  of `EngineCall`. `ContractInv` says that only assistants make calls (`RolesOK`) and that
  the run at work begins with the run it was given and has its version (`Extends`). The
  rest is arithmetic on prefixes: what the loop returns passes `ValidEngineOutput`, a
  suspension with its provenance included.
* `CallsAreAnsweredInOrder` (`AnswersFollowCalls`): `AnswersInv` describes the last
  assistant's message, of which the first n calls are answered, in their order, and the
  loop has exactly the others to do (`Turn`, `Acts`); every message before it is closed,
  with all its calls answered or with a blocked one last (`Closed`); and a run suspended by
  a tool, or handed over for a replay, has its blocked call as the last answer (`Blocks`),
  which is why the replay answers the right message.
* `PayloadsAnswerCalls` (`PayloadAnswersCalls`): `PayloadInv` says that, if the tool call ids
  in the transcript are trimmed, the normalization has not refused it so far, and what it
  made of it (`Normal`): every call that
  was answered has one place in the payload, that of its latest observation (`Placed`), and
  every observation a call that was announced (`Announced`). If the ids of the calls are
  distinct, the answers to a message's calls also stand behind it, in order (`SentOK`): the
  next call's id has no place yet, so its answer goes to the end; a replayed one has, so its
  answer goes where it belongs, however much was said since.

Every safety property of a run is stated by a theorem: the invariants and action
properties, and the five refinements. Only model-checked are the five liveness properties
(`CommandsReturn`, `WaitersServed`, `ReadersCatchUp`, `ExecuteReturns`, `ServerStops`):
fairness and ENABLED are beyond the prover. `ResultInv` and `LocksInv` are properties of
runs; `LoopInv`, `StreamInv`, `SessionInv`, `AnswersInv` and `PayloadInv` were checked on
the instances of `react`, `retrying`, `stream` and `session` before they were proved, and
the runs keep the parts that say something to a user. No module declares a recursive
operator, so nothing is lost to that limit.

## 5. Abstractions

* Messages keep their role, calls, the call they answer and a requirement; their
  text does not matter to any property. In `Runner` a message also keeps the
  command that caused it, and one call id stands for an assistant's list.
* `Output` and `Error` of a run, ids (generated, unique), timestamps and the wording
  of errors are left out. An error is the sentinel a caller can test for.
* The arguments `Dispatch` refuses before it reads anything (nil commands, empty ids,
  invalid tool definitions, a nil context) are not modelled. `DefaultMaxSteps` is one
  budget among others.
* In `Session` the runner is `AtomicRuns`, so what can go wrong inside a `Dispatch` is
  checked in `Runner` and not again. Command ids are left out there (the client sends
  none), and so is the sink's refusal but for an ended context. After the process has
  exited nothing is left: a new process is a new system.
* `TrimSpace` is any function on the ids of calls. Requirement ids are taken as trimmed:
  the handler of continue trims the id of a resolution
  (`httpapi/handlers_run_command.go:230`) and nothing trims a requirement's, so that one
  that ends in blanks cannot be resolved over HTTP at all.
* In `ReactLoop` the events of a step see the context as it was before the step's model or
  tool call, while the code publishes with the context as it is afterwards
  (`agentreact/react_loop.go:169`, 201 and 273). A context that ends during a call that
  succeeds is thus taken to end right behind the step.
* In `EventReaders` a start that was overtaken may answer the empty id whenever a
  command that takes the mutex is at its run, a superset of what the store's
  versions allow; and one that is told the empty id need not have used up its budget.
* What is wrong with a request's body is one of the two errors it is answered with, and
  a schema whose own Go values cannot be read is just unreadable.
* Of the stream, the encoding and size of a frame (one over 1 MiB ends its reader),
  negative cursors, a terminal that cannot be printed to and the interruption of the
  events command are left out. A restart of the server is a new system: nothing is
  persisted, and ids and histories begin again.
* `inmem.Store` clones on load and save, so a stored run is a value.
* Go's memory model: every shared variable is behind a mutex; no race was found in
  the modelled code, so no read is nondeterministic.

## 6. Hazards

`PROJECT.json` lists them at their lines, each with the properties that catch it or
the reason there is none yet.

## 7. What does not hold

1. `lostrace` / `LostRaceIsConflict`: the handlers take every error that includes
   `ErrMaxStepsExceeded` for a result (`httpapi/response.go:171`), also one that a failed
   save was joined to (`agent/runner.go:561`, 664, 852). A start that uses up its budget
   and loses its run to a cancel is answered with 200 and an empty run, and the chat
   takes the empty id for its active run.
2. `retriedid` / `SameCommandIDReplaysOnce`: a context that ends between
   `sideEffectContext` and `Store.Save` loses the save of a continue whose approved
   call was replayed. Nothing is remembered for its command id, and the retry
   replays the call again, against the intent of
   `TestRunnerContinueSameCommandIDDoesNotReexecuteTools` and the server's
   `README.md:25`.
3. `retry` / `ApprovedCallIsReplayed`: the retry wrapper (`policy/retry/retry.go:42`)
   rebuilds the input without `Resolution` and `ResolvedRequirement`. The approval
   is consumed and the call never replayed.
4. `origin` / `ModelRequirementSuspends`: the example of `README.md:107` to 138 raises
   a requirement without an origin and prints "suspended"; the loop fails that run
   (`agentreact/react_loop.go:447`), and a conformance test agrees with the loop.
5. `zero` / `ZeroCursorOpens`: a cursor expires when the broker dropped the event
   behind it, and from then on cursor 0 is refused too (`runstream/broker.go:105`);
   the client's `README.md:138` says to restart from `--cursor 0`. The chat begins at
   0 when the start has returned, so it shows nothing of a run whose first execution
   published more than 32 events.

No run is spent on a smaller divergence: `dispatchSteer` (`agent/runner.go:782`) is the
only save that does not go through `normalizeCommandSaveError`, so a steer that loses
its race to a start reports `ErrRunVersionConflict` without `ErrCommandConflict`, against
`agent/errors.go:32`. The HTTP API maps both to 409.

Nor on ids with blanks around them. The adapter and the loop accept any tool call id that is
not empty; `NormalizeMessagesForProvider` looks the id of an observation up trimmed
(`modelprovider/preflight/normalize.go:28`) among the calls' ids, which it keeps as they
are (`normalize.go:25`). A call with the id `" k1"` is therefore answered in the
transcript, and every later request of that run is refused before it is sent.
`ReactLoop` reaches this, and `PayloadAnswersCalls` claims nothing of such a run; no
document says which ids a model may choose.

And none on an engine that changes a run's version, which `validateEngineOutput`
(`agent/runner.go:205`) does not look at: no document forbids it, the loop is proved not to
(`LoopImplementsContract`), and the rogue engine of the model does not either. With one that
raised the version as another command's save did, the store would take a stale state for a
new one, so this is what the theorems about the rogue engine take for granted.

## 8. Not modelled

Configuration, which is read once, and logging; the provider adapter's requests and the
decoding of its answers; the tool registry (a map behind a read-write lock); what the
file tools and bash do to files and processes, and which commands the policy denies;
rendering and flag parsing in the client; the encoding of answers and frames; the mocks.
They keep no state that two steps of the program share, or are I/O.

A restart of the server is not modelled: nothing is persisted and no component knows of
an earlier process. A stream frame over 1 MiB ends its reader, and so does the next one
from the same cursor; sizes are left out. `Output` and `Error` of an earlier execution
stay in a run's state; no document says when they are cleared.

## 9. Plan

Done, in this order: `RunLifecycle`, `EngineContract`, `Runner` with its proofs;
`CommandLocks` and `RunMutex` with theirs; `EngineCall` and `ReactLoop`; `EventLog`,
`StreamBroker` and `EventReaders`; `CommandRules` and `AtomicRuns`; `ToolArguments`,
`EventRules`, `ProviderPayload` and `RetryLoop`; `CommandAPI`, `ServerProcess` and
`Session`; `ResultProofs`, `StreamProofs`, `SessionProofs`, `ReactProofs` and
`TranscriptProofs`, and the mutexes of `Runner` as a `RunMutex`.

What could come next: an adapter's encoding of the payload as a module of its own, behind
`ProviderPayload`, and a composition of `Runner` with `ReactLoop` in place of the set of
outcomes. The two meet in `ValidEngineOutput` now, which both are proved against.

## 10. Running it

    tlc -workers 2 -config Runner_races.cfg MCRunner
    tlapm RunnerProofs.tla

Every `.cfg` starts with a line that says what it is for; `PROJECT.json` pairs it
with its module. The longest run (`session`) takes about three minutes, every proof
module about three or less but `ResultProofs` (five) and `TranscriptProofs` (eight).
