------------------------------- MODULE Runner -------------------------------
(***************************************************************************)
(* agent.Runner over runstore/inmem.Store: concurrent Dispatch calls on    *)
(* stored runs.                                                            *)
(*                                                                         *)
(* Every Dispatch call is a process.  continue, cancel, steer and          *)
(* follow_up take the run's mutex for their whole life; start takes none.  *)
(* A command loads (or builds) a run state, hands it to the engine or      *)
(* edits it itself, saves it under optimistic concurrency, publishes the   *)
(* events it owes, remembers its outcome under its command id and returns. *)
(*                                                                         *)
(* sideEffectContext(ctx) is the caller's context while that context is    *)
(* live and a detached one once it is done; the store and the sink look at *)
(* the context again.  A call can therefore only fail on its context when  *)
(* the context ends between the two looks: the step that fails is also the *)
(* step that ends the context (nothing else reads it in between).          *)
(***************************************************************************)
EXTENDS CommandRules

CONSTANTS CommandIDs,   \* command ids a client may send, "" for none
          IDsOf,        \* Cmds -> the command ids a continue may carry
          Free,         \* the holder of a mutex nobody holds
          CtxMayEnd,    \* the commands whose contexts may be cancelled
          SinkMayFail   \* the commands whose events the sink may refuse

ASSUME CallsAssumption ==
  /\ "" \in CommandIDs
  /\ IDsOf \in [Cmds -> SUBSET CommandIDs]
  /\ Free \notin Cmds

ASSUME SwitchesAssumption == CtxMayEnd \subseteq Cmds /\ SinkMayFail \subseteq Cmds

VARIABLES
  store,     \* run -> its persisted state, of version 0 while there is none
  lock,      \* run -> the command that holds its mutex
  outcomes,  \* run, command id -> the remembered outcome of a continue
  told,      \* run -> the version the sink last heard of from a holder of its mutex
  req,       \* command -> what was asked: kind, command id, resolution
  pc,        \* command -> where it is
  base,      \* command -> the state it works from (what the engine is given)
  resolved,  \* command -> the requirement its resolution resolved
  final,     \* command -> the state to save, and then the state to return
  todo,      \* command -> the events it still has to publish
  errs,      \* command -> the errors it joined so far
  ctxDone,   \* command -> whether its context is done
  history,   \* run -> the command that wrote version i, for each i (auxiliary)
  replays    \* command -> the version whose blocked call it replayed (auxiliary)

callVars == <<req, pc, base, resolved, final, todo, errs, ctxDone>>
vars == <<store, lock, outcomes, told, callVars, history, replays>>

-----------------------------------------------------------------------------
NoOutcome == [known |-> FALSE, by |-> Free, state |-> NoRun(CHOOSE r \in Runs : TRUE),
              errs |-> {}]

Event(type, c, version) == [type |-> type, by |-> c, version |-> version]

kind(c) == req[c].kind

Executes(k) == k \in {"start", "continue", "follow_up"}

\* continueIdempotencyKey: only a continue with a command id has a key.
HasKey(c) == kind(c) = "continue" /\ req[c].id # ""

Key(c) == <<run(c), req[c].id>>

-----------------------------------------------------------------------------
(***************************************************************************)
(* What a command makes of the state it loaded.                            *)
(***************************************************************************)

\* Why it refuses it ("" when it does not).
LoadError(k, st, s) == IF st.version = 0 THEN "not_found" ELSE GateError(k, st, s)

Prepared(c, st) ==
  CASE kind(c) = "continue" -> Resumed(st)
    [] kind(c) = "cancel"   -> Cancelled(st)
    [] OTHER                -> Instructed(c, st)

\* Defect: the requirement is copied after it was cleared.
ResolvedAfterClearing(c, st) == Prepared(c, st).requirement

\* dispatchContinue copies the requirement before it clears it.
Resolved(c, st) == IF kind(c) = "continue" THEN st.requirement ELSE NoRequirement

-----------------------------------------------------------------------------
(***************************************************************************)
(* Store.Save and the events a command owes once its state is saved.       *)
(***************************************************************************)

\* Defect: a save overwrites whatever version is stored.
SaveErrorUnversioned(st) == IF ValidRunState(st) THEN "" ELSE "invalid"

\* "" when inmem.Store.Save accepts st; a run that is not there has version 0,
\* which is also the only version a creating save may carry.
SaveError(st) ==
  LET current == store[st.id].version IN
  CASE ~ValidRunState(st)                        -> "invalid"
    [] ValidRunState(st) /\ st.version # current -> "version_conflict"
    [] OTHER                                     -> ""

\* normalizeCommandSaveError joins ErrCommandConflict; dispatchSteer does not call it.
SaveErrors(k, e) ==
  IF e = "version_conflict" /\ k # "steer" THEN {e, "command_conflict"} ELSE {e}

\* Defect: the returned state keeps the version it was saved from.
Unversioned(st) == st

\* The runner bumps the version of the state it returns.
Versioned(st) == [st EXCEPT !.version = @ + 1]

Written(c, st) ==
  /\ store' = [store EXCEPT ![st.id] = Stored(st)]
  /\ history' = [history EXCEPT ![st.id] = Append(@, c)]

Owed(c, st) ==
  LET ev(type) == Event(type, c, st.version + 1) IN
  CASE kind(c) = "cancel" -> <<ev("run_cancelled"), ev("command_applied")>>
    [] kind(c) # "cancel" /\ Executes(kind(c)) /\ st.status \in {"cancelled", "suspended"} ->
         <<ev(IF st.status = "cancelled" THEN "run_cancelled" ELSE "run_suspended"),
           ev("run_checkpoint"), ev("command_applied")>>
    [] OTHER -> <<ev("run_checkpoint"), ev("command_applied")>>

-----------------------------------------------------------------------------
(***************************************************************************)
(* The life of a command.                                                  *)
(***************************************************************************)

GoTo(c, l) == pc' = [pc EXCEPT ![c] = l]

Refuse(c, e, result) ==
  /\ errs' = [errs EXCEPT ![c] = @ \cup e]
  /\ final' = [final EXCEPT ![c] = result]
  /\ GoTo(c, "returning")

\* Dispatch routes a call: start runs on its own, the others queue for the run.
Dispatch(c) ==
  /\ pc[c] = "idle"
  /\ \E k \in KindsOf[c], i \in CommandIDs, s \in Resolutions :
       /\ IF k = "continue" THEN i \in IDsOf[c] ELSE i = "" /\ s = NoResolution
       /\ req' = [req EXCEPT ![c] = [kind |-> k, id |-> i, resolution |-> s]]
       /\ GoTo(c, IF k = "start" THEN "creating" ELSE "locking")
       /\ base' = IF k = "start" THEN [base EXCEPT ![c] = StartState(c)] ELSE base
  /\ UNCHANGED <<store, lock, outcomes, told, resolved, final, todo, errs, ctxDone,
                 history, replays>>

\* Defect: the mutex is taken from its holder.
LockRegardless(c) ==
  /\ pc[c] = "locking"
  /\ lock' = [lock EXCEPT ![run(c)] = c]
  /\ GoTo(c, "loading")
  /\ UNCHANGED <<store, outcomes, told, req, base, resolved, final, todo, errs, ctxDone,
                 history, replays>>

\* The command waits for its run's mutex, whatever becomes of its context.
Lock(c) ==
  /\ pc[c] = "locking"
  /\ lock[run(c)] = Free
  /\ lock' = [lock EXCEPT ![run(c)] = c]
  /\ GoTo(c, "loading")
  /\ UNCHANGED <<store, outcomes, told, req, base, resolved, final, todo, errs, ctxDone,
                 history, replays>>

\* A continue whose key is remembered returns the remembered outcome.
AnswerFromCache(c) ==
  /\ pc[c] = "loading"
  /\ HasKey(c)
  /\ outcomes[Key(c)].known
  /\ final' = [final EXCEPT ![c] = outcomes[Key(c)].state]
  /\ errs' = [errs EXCEPT ![c] = outcomes[Key(c)].errs]
  /\ GoTo(c, "returning")
  /\ UNCHANGED <<store, lock, outcomes, told, req, base, resolved, todo, ctxDone,
                 history, replays>>

NotCached(c) == ~(HasKey(c) /\ outcomes[Key(c)].known)

\* Store.Load, the command's gates on what was loaded, and its edit of it.
Load(c) ==
  LET st == store[run(c)]
      e  == LoadError(kind(c), st, req[c].resolution)
  IN
  /\ pc[c] = "loading"
  /\ NotCached(c)
  /\ IF e # ""
     THEN /\ Refuse(c, {e}, st)
          /\ UNCHANGED <<base, resolved>>
     ELSE /\ base' = [base EXCEPT ![c] = Prepared(c, st)]
          /\ resolved' = [resolved EXCEPT ![c] = Resolved(c, st)]
          /\ final' = [final EXCEPT ![c] = Prepared(c, st)]
          /\ GoTo(c, IF Executes(kind(c)) THEN "executing" ELSE "saving")
          /\ UNCHANGED errs
  /\ UNCHANGED <<store, lock, outcomes, told, req, todo, ctxDone, history, replays>>

\* The context ends between sideEffectContext and Store.Load.
LoadInterrupted(c) ==
  /\ c \in CtxMayEnd /\ ~ctxDone[c]
  /\ pc[c] = "loading"
  /\ NotCached(c)
  /\ ctxDone' = [ctxDone EXCEPT ![c] = TRUE]
  /\ Refuse(c, {"context"}, NoRun(run(c)))
  /\ UNCHANGED <<store, lock, outcomes, told, req, base, resolved, todo, history, replays>>

\* dispatchStart's first save makes the run visible before it executes.
Create(c) ==
  LET st == base[c]
      e  == SaveError(st)
  IN
  /\ pc[c] = "creating"
  /\ IF e # ""
     THEN /\ Refuse(c, SaveErrors("start", e), NoRun(run(c)))
          /\ UNCHANGED <<store, history, base, todo>>
     ELSE /\ Written(c, st)
          /\ base' = [base EXCEPT ![c] = Versioned(st)]
          /\ todo' = [todo EXCEPT ![c] = <<Event("run_started", c, 1)>>]
          /\ GoTo(c, "executing")
          /\ UNCHANGED <<final, errs>>
  /\ UNCHANGED <<lock, outcomes, told, req, resolved, ctxDone, replays>>

\* The sink refuses an event of its own accord, or because the context ended just
\* before the sink looked at it.
SinkRefuses(c) ==
  \/ c \in SinkMayFail /\ UNCHANGED ctxDone
  \/ c \in CtxMayEnd /\ ~ctxDone[c] /\ ctxDone' = [ctxDone EXCEPT ![c] = TRUE]

\* Engine.Execute and validateEngineOutput.  The engine's own events reach the sink
\* before anything is saved; one the sink refuses makes the call an error.
Execute(c) ==
  /\ pc[c] = "executing"
  /\ todo[c] = <<>>
  /\ \E out \in EngineOutcomes(c, base[c], req[c].resolution, resolved[c], ctxDone[c]),
        refused \in BOOLEAN :
       /\ IF refused THEN out.events # <<>> /\ SinkRefuses(c) ELSE UNCHANGED ctxDone
       /\ replays' = IF out.replayed
                     THEN [replays EXCEPT ![c] = base[c].version] ELSE replays
       /\ IF ValidEngineOutput(base[c], out.state)
          THEN /\ final' = [final EXCEPT ![c] = out.state]
               /\ errs' = IF out.failed \/ refused
                          THEN [errs EXCEPT ![c] = @ \cup {"engine"}] ELSE errs
               /\ GoTo(c, "saving")
          ELSE Refuse(c, {"contract"}, NoRun(run(c)))
  /\ UNCHANGED <<store, lock, outcomes, told, req, base, resolved, todo, history>>

\* The save of a command's new state.
Save(c) ==
  LET st == final[c]
      e  == SaveError(st)
  IN
  /\ pc[c] = "saving"
  /\ IF e # ""
     THEN /\ Refuse(c, SaveErrors(kind(c), e), NoRun(run(c)))
          /\ UNCHANGED <<store, history, todo>>
     ELSE /\ Written(c, st)
          /\ final' = [final EXCEPT ![c] = Versioned(st)]
          /\ todo' = [todo EXCEPT ![c] = Owed(c, st)]
          /\ GoTo(c, "publishing")
          /\ UNCHANGED errs
  /\ UNCHANGED <<lock, outcomes, told, req, base, resolved, ctxDone, replays>>

\* The context ends between sideEffectContext and Store.Save.
SaveInterrupted(c) ==
  /\ c \in CtxMayEnd /\ ~ctxDone[c]
  /\ pc[c] \in {"creating", "saving"}
  /\ ctxDone' = [ctxDone EXCEPT ![c] = TRUE]
  /\ Refuse(c, {"context"}, NoRun(run(c)))
  /\ UNCHANGED <<store, lock, outcomes, told, req, base, resolved, todo, history, replays>>

\* The sink accepts the next event a command owes.
Publish(c) ==
  /\ todo[c] # <<>>
  /\ told' = IF kind(c) = "start" THEN told
             ELSE [told EXCEPT ![run(c)] = Head(todo[c]).version]
  /\ todo' = [todo EXCEPT ![c] = Tail(@)]
  /\ UNCHANGED <<store, lock, outcomes, req, pc, base, resolved, final, errs, ctxDone,
                 history, replays>>

\* The sink refuses it: the command goes on with a joined error.
PublishFails(c) ==
  /\ todo[c] # <<>>
  /\ SinkRefuses(c)
  /\ todo' = [todo EXCEPT ![c] = Tail(@)]
  /\ errs' = [errs EXCEPT ![c] = @ \cup {"event"}]
  /\ UNCHANGED <<store, lock, outcomes, told, req, pc, base, resolved, final, history, replays>>

\* Defect: only an outcome without errors is remembered.
RemembersSuccess(c) == HasKey(c) /\ errs[c] = {}

Remembers(c) == HasKey(c)

\* The command has published all it owes; a continue with a key stores its outcome.
Conclude(c) ==
  /\ pc[c] = "publishing"
  /\ todo[c] = <<>>
  /\ outcomes' =
       IF Remembers(c)
       THEN [outcomes EXCEPT ![Key(c)] =
               [known |-> TRUE, by |-> c, state |-> final[c], errs |-> errs[c]]]
       ELSE outcomes
  /\ GoTo(c, "returning")
  /\ UNCHANGED <<store, lock, told, req, base, resolved, final, todo, errs, ctxDone,
                 history, replays>>

\* Defect: a command that failed keeps the mutex.
ReleasedOnSuccess(c) ==
  IF lock[run(c)] = c /\ errs[c] = {} THEN [lock EXCEPT ![run(c)] = Free] ELSE lock

Released(c) == IF lock[run(c)] = c THEN [lock EXCEPT ![run(c)] = Free] ELSE lock

\* Dispatch returns and runs its deferred unlock.
Return(c) ==
  /\ pc[c] = "returning"
  /\ lock' = Released(c)
  /\ GoTo(c, "done")
  /\ UNCHANGED <<store, outcomes, told, req, base, resolved, final, todo, errs, ctxDone,
                 history, replays>>

\* The caller's context ends; only the engine can notice, if it ended no later.
EndContext(c) ==
  /\ c \in CtxMayEnd /\ ~ctxDone[c]
  /\ pc[c] = "executing"
  /\ ctxDone' = [ctxDone EXCEPT ![c] = TRUE]
  /\ UNCHANGED <<store, lock, outcomes, told, req, pc, base, resolved, final, todo, errs,
                 history, replays>>

-----------------------------------------------------------------------------
Init ==
  /\ store = [r \in Runs |-> NoRun(r)]
  /\ lock = [r \in Runs |-> Free]
  /\ outcomes = [k \in Runs \X CommandIDs |-> NoOutcome]
  /\ told = [r \in Runs |-> 0]
  /\ req = [c \in Cmds |-> [kind |-> "start", id |-> "", resolution |-> NoResolution]]
  /\ pc = [c \in Cmds |-> "idle"]
  /\ base = [c \in Cmds |-> NoRun(run(c))]
  /\ resolved = [c \in Cmds |-> NoRequirement]
  /\ final = [c \in Cmds |-> NoRun(run(c))]
  /\ todo = [c \in Cmds |-> <<>>]
  /\ errs = [c \in Cmds |-> {}]
  /\ ctxDone = [c \in Cmds |-> FALSE]
  /\ history = [r \in Runs |-> <<>>]
  /\ replays = [c \in Cmds |-> 0]

\* The steps a command takes by itself once it was dispatched.
Step(c) ==
  \/ Lock(c) \/ AnswerFromCache(c) \/ Load(c) \/ LoadInterrupted(c)
  \/ Create(c) \/ Execute(c) \/ Save(c) \/ SaveInterrupted(c)
  \/ Publish(c) \/ PublishFails(c) \/ Conclude(c) \/ Return(c)

\* Every call has returned.
Quiet == (\A c \in Cmds : pc[c] = "done") /\ UNCHANGED vars

Next == (\E c \in Cmds : Dispatch(c) \/ Step(c) \/ EndContext(c)) \/ Quiet

Spec == Init /\ [][Next]_vars

\* A dispatched command keeps running: the engine returns, and Go's mutex hands
\* itself to a waiter once it is free.
FairSpec == Spec /\ \A c \in Cmds : WF_vars(Step(c))
-----------------------------------------------------------------------------
(***************************************************************************)
(* Types.                                                                  *)
(***************************************************************************)

PCs == {"idle", "creating", "locking", "loading", "executing", "saving",
        "publishing", "returning", "done"}

EventTypes == EngineEvents \cup {"run_started", "run_suspended", "run_checkpoint", "command_applied"}

Errors == {"not_found", "not_continuable", "not_cancellable", "resolution_required",
           "resolution_unexpected", "resolution_invalid", "invalid", "version_conflict",
           "command_conflict", "contract", "context", "engine", "event"}

EventType == [type : EventTypes, by : Cmds, version : Nat]

OutcomeType ==
  [known : BOOLEAN, by : Cmds \cup {Free}, state : StateType, errs : SUBSET Errors]

RequestType ==
  [kind : CommandKinds, id : CommandIDs, resolution : Resolutions \cup {NoResolution}]

\* Every variable has its type.
TypeOK ==
  /\ store \in [Runs -> StateType]
  /\ lock \in [Runs -> Cmds \cup {Free}]
  /\ outcomes \in [Runs \X CommandIDs -> OutcomeType]
  /\ told \in [Runs -> Nat]
  /\ req \in [Cmds -> RequestType]
  /\ pc \in [Cmds -> PCs]
  /\ base \in [Cmds -> StateType]
  /\ resolved \in [Cmds -> RequirementType]
  /\ final \in [Cmds -> StateType]
  /\ todo \in [Cmds -> Seq(EventType)]
  /\ errs \in [Cmds -> SUBSET Errors]
  /\ ctxDone \in [Cmds -> BOOLEAN]
  /\ history \in [Runs -> Seq(Cmds)]
  /\ replays \in [Cmds -> Nat]

-----------------------------------------------------------------------------
(***************************************************************************)
(* Safety.                                                                 *)
(***************************************************************************)

Persisted(c) == \E i \in DOMAIN history[run(c)] : history[run(c)][i] = c

\* The call returned, and no error says that its work was refused or not saved:
\* an engine error and a failed event leave the command applied.
Acknowledged(c) == pc[c] = "done" /\ errs[c] \subseteq {"engine", "event"}

\* A run that was completed, failed or cancelled is never written again, whichever
\* of the commands in flight had loaded it before it ended (agent/runner.go gates
\* on isTerminalRunStatus at load; only the store's version check covers the rest).
KeepsTerminal == \A r \in Runs : Terminated(store[r]) => store'[r] = store[r]

TerminalIsFinal == [][KeepsTerminal]_store

\* A save only ever extends what is stored: the next version, no smaller step, and
\* the stored transcript as a prefix, even when two commands load the same state
\* and when the engine returns a state that breaks its contract.
OnlyExtends ==
  \A r \in Runs : store'[r] # store[r] =>
    /\ store'[r].version = store[r].version + 1
    /\ store'[r].step >= store[r].step
    /\ IsPrefix(store[r].messages, store'[r].messages)

SavesExtend == [][OnlyExtends]_store

\* The instruction of an acknowledged steer or follow_up stays in the transcript.
NoLostInstruction ==
  \A c \in Cmds : Acknowledged(c) /\ kind(c) \in {"steer", "follow_up"} =>
    \E i \in DOMAIN store[run(c)].messages : store[run(c)].messages[i] = UserMessage(c)

\* An acknowledged result is a version the store really held, written by the
\* command itself or, for a continue answered from the cache, by one with its
\* command id; and it is the stored state while nobody has written since.
ResultsArePersisted ==
  \A c \in Cmds : Acknowledged(c) =>
    LET v == final[c].version
        h == history[run(c)]
    IN /\ v \in DOMAIN h
       /\ h[v] = c \/ (HasKey(c) /\ HasKey(h[v]) /\ req[h[v]].id = req[c].id)
       /\ v = store[run(c)].version => final[c] = store[run(c)]

\* However often a command id is retried, at most one continue that carries it is
\* persisted.
OneWritePerCommandID ==
  \A c, d \in Cmds :
    /\ c # d /\ run(c) = run(d)
    /\ HasKey(c) /\ HasKey(d) /\ req[c].id = req[d].id
    => ~(Persisted(c) /\ Persisted(d))

\* The blocked call of one suspension is replayed by a second continue only if the
\* first one told its caller that its context ended before it could save.
ReplayedOncePerSuspension ==
  \A c, d \in Cmds :
    /\ c # d /\ run(c) = run(d)
    /\ replays[c] # 0 /\ replays[c] = replays[d]
    => "context" \in errs[c] \cup errs[d]

\* A continue that approves a tool's requirement, and is persisted, did replay the
\* blocked call: the call is still in the transcript it continues from.
ApprovesToolCall(c) ==
  /\ kind(c) = "continue"
  /\ req[c].resolution.outcome = "approved"
  /\ \E q \in Requirements : q.origin = "tool" /\ q.id = req[c].resolution.req

ApprovedCallIsReplayed ==
  \A c \in Cmds :
    pc[c] = "done" /\ Persisted(c) /\ ApprovesToolCall(c) => replays[c] = base[c].version

\* A stored suspension can be resolved: its requirement is valid and the transcript
\* holds the message that raised it, so a later replay finds its call.
SuspensionIsResolvable ==
  \A r \in Runs : store[r].status = "suspended" =>
    LET q == store[r].requirement IN
    /\ ValidRequirement(q)
    /\ q.origin = "model" => AssistantRequired(store[r].messages, q)
    /\ q.origin = "tool" => Announced(store[r].messages, q.call)

\* The events of the commands that take the run's mutex reach the sink in the order
\* of the versions they announce.
EventsFollowVersions == [][\A r \in Runs : told'[r] >= told[r]]_vars

\* Retrying a continue with its command id does not replay the blocked call again
\* (agent/runner_continue_idempotency_test.go:15).
SameCommandIDReplaysOnce ==
  \A c, d \in Cmds :
    /\ c # d /\ run(c) = run(d)
    /\ HasKey(c) /\ HasKey(d) /\ req[c].id = req[d].id
    => ~(replays[c] # 0 /\ replays[d] # 0)

-----------------------------------------------------------------------------
(***************************************************************************)
(* The inductive invariant behind the action properties.                   *)
(***************************************************************************)

\* A run is in the store under its own id, and what is not there is NoRun.
StoreOK ==
  \A r \in Runs : /\ store[r].id = r
                  /\ store[r].version = 0 => store[r] = NoRun(r)

\* st was made from the stored state old or from an earlier version of it: if from
\* old itself, then it extends old and the run may still be written.
Extends(old, st) ==
  /\ st.id = old.id
  /\ st.version <= old.version
  /\ st.version = old.version =>
       /\ ~Terminated(old)
       /\ st.step >= old.step
       /\ IsPrefix(old.messages, st.messages)

\* Whatever a command is about to hand to the engine or to save extends the run,
\* unless the store has moved on, and then the version check will refuse it.
PendingWritesExtend ==
  \A c \in Cmds :
    /\ pc[c] = "creating" => base[c] = StartState(c)
    /\ pc[c] = "executing" => Extends(store[run(c)], base[c])
    /\ pc[c] = "saving" => Extends(store[run(c)], final[c])

Holding == {"loading", "executing", "saving", "publishing", "returning"}

\* Every command but start holds its run's mutex from the lock to the return.
LockHeld ==
  \A c \in Cmds :
    /\ pc[c] \in {"locking", "loading"} => kind(c) # "start"
    /\ pc[c] = "creating" => kind(c) = "start"
    /\ pc[c] \in Holding /\ kind(c) # "start" => lock[run(c)] = c

IInv == StoreOK /\ PendingWritesExtend /\ LockHeld

\* Two commands that take the run's mutex never work on the run together.
OneLockedCommandPerRun ==
  \A c, d \in Cmds :
    /\ pc[c] \in Holding /\ pc[d] \in Holding
    /\ kind(c) # "start" /\ kind(d) # "start"
    /\ run(c) = run(d)
    => c = d

-----------------------------------------------------------------------------
(***************************************************************************)
(* The inductive invariant behind what is stored and what is answered.     *)
(***************************************************************************)

\* What a command carries is what it was dispatched with.
RequestsOK ==
  \A c \in Cmds :
    /\ pc[c] # "idle" => kind(c) \in KindsOf[c]
    /\ IF kind(c) = "continue"
       THEN req[c].resolution \in Resolutions
       ELSE req[c].id = "" /\ req[c].resolution = NoResolution /\ resolved[c] = NoRequirement
    /\ pc[c] = "idle" => resolved[c] = NoRequirement /\ todo[c] = <<>>

\* c is past its first save.
PastSave(c) ==
  \/ pc[c] \in {"publishing", "returning", "done"}
  \/ kind(c) = "start" /\ pc[c] \in {"executing", "saving"}

\* The history of a run has the writer of each version, all of them past their save.
HistoryOK ==
  \A r \in Runs :
    /\ Len(history[r]) = store[r].version
    /\ \A i \in DOMAIN history[r] : run(history[r][i]) = r /\ PastSave(history[r][i])

\* Nobody has written c's run since c read or created it.
UpToDate(c) == base[c].version = store[run(c)].version

\* c works from what it makes of the stored state, or created itself.
WorksFromStored(c) ==
  LET st == store[run(c)] IN
  IF kind(c) = "start" THEN base[c] = st /\ history[run(c)] = <<c>>
  ELSE /\ LoadError(kind(c), st, req[c].resolution) = ""
       /\ base[c] = Prepared(c, st)
       /\ resolved[c] = Resolved(c, st)

\* What c is about to save is an answer of the engine to that, or its own edit.
SavesItsWork(c) ==
  IF Executes(kind(c))
  THEN \E done \in BOOLEAN :
       \E out \in EngineOutcomes(c, base[c], req[c].resolution, resolved[c], done) :
         ValidEngineOutput(base[c], out.state) /\ final[c] = out.state
  ELSE final[c] = base[c]

PendingEffects ==
  \A c \in Cmds :
    /\ pc[c] = "executing" => Executes(kind(c))
    /\ pc[c] \in {"executing", "saving"} /\ UpToDate(c) => WorksFromStored(c)
    /\ pc[c] = "saving" => SavesItsWork(c)

WorkInv == RequestsOK /\ HistoryOK /\ PendingEffects

\* st is what c wrote, and what is stored while nobody has written since.
WrittenBy(c, st) ==
  LET h == history[run(c)] IN
  /\ st.version \in DOMAIN h
  /\ h[st.version] = c
  /\ st.version = store[run(c)].version => st = store[run(c)]

SameKey(c, d) == HasKey(c) /\ HasKey(d) /\ Key(c) = Key(d)

\* What is answered or remembered was written, by the command or one with its key.
AnswersOK ==
  /\ \A c \in Cmds :
       /\ pc[c] = "publishing" => WrittenBy(c, final[c])
       /\ pc[c] \in {"returning", "done"} /\ errs[c] \subseteq {"engine", "event"} =>
            \E d \in Cmds : (d = c \/ SameKey(c, d)) /\ WrittenBy(d, final[c])
  /\ \A k \in Runs \X CommandIDs : outcomes[k].known =>
       \E d \in Cmds : HasKey(d) /\ Key(d) = k /\ WrittenBy(d, outcomes[k].state)

\* A key is remembered before its command lets go of the mutex, and never while
\* another command with it is at work.
CacheOK ==
  \A c \in Cmds : HasKey(c) =>
    /\ Persisted(c) => pc[c] = "publishing" \/ outcomes[Key(c)].known
    /\ pc[c] \in {"executing", "saving"} => ~outcomes[Key(c)].known

\* The events a holder of the mutex still owes announce the version it wrote, which
\* nothing that was announced is ahead of.
EventsOK ==
  /\ \A r \in Runs : told[r] <= store[r].version
  /\ \A c \in Cmds : todo[c] # <<>> =>
       \/ kind(c) = "start" /\ pc[c] # "idle"
       \/ /\ pc[c] = "publishing"
          /\ told[run(c)] <= final[c].version
          /\ \A i \in DOMAIN todo[c] : todo[c][i].version = final[c].version

Says(st, m) == \E i \in DOMAIN st.messages : st.messages[i] = m

\* An instruction is in what its command works on, and then in what is stored.
InstructionsOK ==
  \A c \in Cmds : kind(c) \in {"steer", "follow_up"} =>
    /\ pc[c] = "executing" => Says(base[c], UserMessage(c))
    /\ pc[c] = "saving" => Says(final[c], UserMessage(c))
    /\ Persisted(c) => Says(store[run(c)], UserMessage(c))

\* A requirement is only resolved from the second version on, where no start can come
\* between a command that holds the mutex and its save.
SuspensionsOK ==
  /\ \A r \in Runs :
       /\ store[r].version # 0 => ValidRunState(store[r])
       /\ store[r].version = 1 => store[r].status = "pending"
  /\ \A c \in Cmds : pc[c] \in {"executing", "saving"} =>
       /\ resolved[c] # NoRequirement => base[c].version > 1
       /\ kind(c) # "start" /\ base[c].version > 1 => UpToDate(c)

\* A command that replayed a call is about to save, and can; or its context ended; or
\* the run it replayed the call of is a version of the past.
ReplaysOK ==
  \A c \in Cmds : replays[c] # 0 =>
    /\ kind(c) = "continue"
    /\ \/ /\ pc[c] = "saving" /\ replays[c] = base[c].version
          /\ resolved[c] # NoRequirement /\ ValidRunState(final[c])
       \/ /\ pc[c] \in {"publishing", "returning", "done"}
          /\ "context" \in errs[c] \/ replays[c] < store[run(c)].version

ResultInv ==
  /\ WorkInv /\ AnswersOK /\ CacheOK /\ EventsOK
  /\ InstructionsOK /\ SuspensionsOK /\ ReplaysOK

\* An approval of a tool's requirement reaches the engine with its requirement and a
\* transcript that has the blocked call.
ApprovalsOK ==
  \A c \in Cmds : ApprovesToolCall(c) =>
    /\ pc[c] = "executing" =>
         /\ base[c].status = "running" /\ base[c].requirement = NoRequirement
         /\ ReplayRequested(req[c].resolution, resolved[c])
         /\ Announced(base[c].messages, resolved[c].call)
    /\ pc[c] = "saving" \/ Persisted(c) => replays[c] = base[c].version

-----------------------------------------------------------------------------
(***************************************************************************)
(* The abstract specification.                                             *)
(***************************************************************************)

Atomic == INSTANCE AtomicRuns WITH writers <- history

\* Dispatch is linearizable in what it stores: every write, of whichever of the
\* commands in flight (agent/runner.go:446), is the whole effect of one command on
\* the state it replaces, as if the others had waited.
RunsAreAtomic == Atomic!Spec

\* The commands that wait for the mutex of each run.
Waiting == [r \in Runs |-> {c \in Cmds : pc[c] = "locking" /\ run(c) = r}]

Mutex == INSTANCE RunMutex
         WITH Callers <- Cmds, Nobody <- Free, waiting <- Waiting, holder <- lock

\* A command asks for the mutex of its own run once, gets it when nobody has it and
\* gives it back when it returns, whether it failed or not; a start asks for none, and
\* no command waits for one run while it holds another (agent/runner.go:461).
LocksAreMutex == Mutex!Spec

-----------------------------------------------------------------------------
(***************************************************************************)
(* Liveness.                                                               *)
(***************************************************************************)

\* A dispatched command returns, also when it queued behind others for the run.
CommandsReturn == \A c \in Cmds : pc[c] \in {"locking", "creating"} ~> pc[c] = "done"
=============================================================================
