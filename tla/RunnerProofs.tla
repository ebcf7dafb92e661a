---------------------------- MODULE RunnerProofs ----------------------------
(***************************************************************************)
(* Proofs about Runner for every number of commands and runs and every     *)
(* engine of EngineContract: type correctness, the inductive invariant     *)
(* IInv, and what it carries: TerminalIsFinal, SavesExtend and             *)
(* OneLockedCommandPerRun; then WorkInv, and from it that Runner           *)
(* implements AtomicRuns; then who holds a mutex, and that the mutexes are *)
(* those of RunMutex.                                                      *)
(***************************************************************************)
EXTENDS Runner, EngineProofs

-----------------------------------------------------------------------------
(***************************************************************************)
(* Types of the helpers.                                                   *)
(***************************************************************************)

\* What a command makes of the state it loaded extends that state.
LEMMA PreparedExtends ==
  ASSUME NEW c \in Cmds, NEW st \in StateType
  PROVE  LET next == Prepared(c, st) IN
         /\ next \in StateType
         /\ next.id = st.id /\ next.version = st.version /\ next.step = st.step
         /\ IsPrefix(st.messages, next.messages)
         /\ Resolved(c, st) \in RequirementType
<1>1. Resolved(c, st) \in RequirementType
  BY DEF Resolved, StateType, RequirementType
<1>2. \/ Prepared(c, st) = Resumed(st)
      \/ Prepared(c, st) = Cancelled(st)
      \/ Prepared(c, st) = Instructed(c, st)
  BY DEF Prepared
<1>3. QED BY <1>1, <1>2, EditsExtend DEF EditOf

\* The version the store gives a saved state keeps its type.
LEMMA VersionedTyped ==
  ASSUME NEW st \in StateType
  PROVE  /\ Versioned(st) \in StateType
         /\ Stored(st) = Versioned(st)
         /\ Versioned(st).version = st.version + 1
         /\ Versioned(st).id = st.id /\ Versioned(st).step = st.step
         /\ Versioned(st).messages = st.messages
         /\ Versioned(st).status = st.status
<1>1. st.version + 1 \in Nat
  BY DEF StateType
<1>2. QED BY <1>1 DEF Versioned, Stored, StateType

\* The events a command owes after its save are typed.
LEMMA OwedTyped ==
  ASSUME NEW c \in Cmds, NEW st \in StateType
  PROVE  Owed(c, st) \in Seq(EventType)
<1>1. st.version + 1 \in Nat
  BY DEF StateType
<1>2. \A type \in EventTypes : Event(type, c, st.version + 1) \in EventType
  BY <1>1 DEF Event, EventType
<1>3. /\ "run_cancelled" \in EventTypes /\ "run_suspended" \in EventTypes
      /\ "run_checkpoint" \in EventTypes /\ "command_applied" \in EventTypes
  BY DEF EventTypes, EngineEvents
<1>4. QED BY <1>2, <1>3 DEF Owed

\* The errors of loads and saves are among the errors of a command.
LEMMA ErrorsTyped ==
  ASSUME NEW k, NEW st, NEW s
  PROVE  /\ LoadError(k, st, s) \in Errors \cup {""}
         /\ SaveError(st) \in {"", "invalid", "version_conflict"}
         /\ \A e \in {"invalid", "version_conflict"} : SaveErrors(k, e) \subseteq Errors
         /\ {"context"} \subseteq Errors /\ {"contract"} \subseteq Errors
         /\ "engine" \in Errors /\ "event" \in Errors
<1>1. LoadError(k, st, s) \in Errors \cup {""}
  BY DEF LoadError, GateError, ContinueError, CancelError, InstructionError, ResolutionError,
       Errors
<1>2. SaveError(st) \in {"", "invalid", "version_conflict"}
  BY DEF SaveError
<1>3. \A e \in {"invalid", "version_conflict"} : SaveErrors(k, e) \subseteq Errors
  BY DEF SaveErrors, Errors
<1>4. QED BY <1>1, <1>2, <1>3 DEF Errors

-----------------------------------------------------------------------------
(***************************************************************************)
(* Type correctness.                                                       *)
(***************************************************************************)

\* Every variable has its type before the first Dispatch.
LEMMA TypeInit == Init => TypeOK
<1> SUFFICES ASSUME Init PROVE TypeOK
  OBVIOUS
<1>1. \A c \in Cmds : run(c) \in Runs
  BY CommandsAssumption DEF run
<1>2. \A r \in Runs : NoRun(r) \in StateType
  BY NoRunTyped
<1>3. outcomes \in [Runs \X CommandIDs -> OutcomeType]
  <2>1. ASSUME NEW r \in Runs PROVE NoOutcome \in OutcomeType
    <3>1. (CHOOSE x \in Runs : TRUE) \in Runs
      OBVIOUS
    <3>2. NoRun(CHOOSE x \in Runs : TRUE) \in StateType
      BY <3>1, NoRunTyped
    <3>3. QED BY <3>2 DEF NoOutcome, OutcomeType
  <2>2. \A k \in Runs \X CommandIDs : NoOutcome \in OutcomeType
    BY <2>1
  <2>3. QED BY <2>2 DEF Init
<1>4. NoRequirement \in RequirementType
  BY DEF RequirementType
<1>5. req \in [Cmds -> RequestType]
  BY CallsAssumption DEF Init, RequestType, CommandKinds
<1>6. /\ store \in [Runs -> StateType]
      /\ base \in [Cmds -> StateType] /\ final \in [Cmds -> StateType]
  BY <1>1, <1>2 DEF Init
<1>7. /\ <<>> \in Seq(EventType) /\ <<>> \in Seq(Cmds) /\ {} \in SUBSET Errors
      /\ "idle" \in PCs
  BY DEF PCs
<1>8. /\ told \in [Runs -> Nat] /\ todo \in [Cmds -> Seq(EventType)]
      /\ history \in [Runs -> Seq(Cmds)] /\ errs \in [Cmds -> SUBSET Errors]
      /\ pc \in [Cmds -> PCs]
  BY <1>7 DEF Init
<1>9. /\ lock \in [Runs -> Cmds \cup {Free}]
      /\ resolved \in [Cmds -> RequirementType]
      /\ ctxDone \in [Cmds -> BOOLEAN]
      /\ replays \in [Cmds -> Nat]
  BY <1>4 DEF Init
<1>10. QED
  BY <1>3, <1>5, <1>6, <1>8, <1>9 DEF TypeOK

\* Every step of every command keeps the types.
LEMMA TypeStep == TypeOK /\ [Next]_vars => TypeOK'
<1> SUFFICES ASSUME TypeOK, [Next]_vars
             PROVE  TypeOK'
  OBVIOUS
<1> USE DEF TypeOK
<1>1. ASSUME NEW c \in Cmds
      PROVE  run(c) \in Runs
  BY CommandsAssumption DEF run
<1>2. ASSUME NEW c \in Cmds, HasKey(c)
      PROVE  Key(c) \in Runs \X CommandIDs
  BY <1>1 DEF Key, RequestType
<1>3. ASSUME NEW c \in Cmds, NEW l \in PCs, GoTo(c, l)
      PROVE  pc' \in [Cmds -> PCs]
  BY <1>3 DEF GoTo
<1>4. ASSUME NEW c \in Cmds, NEW e, e \subseteq Errors, NEW st \in StateType, Refuse(c, e, st)
      PROVE  /\ pc' \in [Cmds -> PCs]
             /\ errs' \in [Cmds -> SUBSET Errors]
             /\ final' \in [Cmds -> StateType]
  BY <1>4 DEF Refuse, GoTo, PCs
<1>5. ASSUME NEW c \in Cmds, NEW st \in StateType, Written(c, st)
      PROVE  store' \in [Runs -> StateType] /\ history' \in [Runs -> Seq(Cmds)]
  <2>1. st.id \in Runs /\ Stored(st) \in StateType
    BY VersionedTyped DEF StateType
  <2>2. Append(history[st.id], c) \in Seq(Cmds)
    BY <2>1
  <2>3. QED BY <1>5, <2>1, <2>2 DEF Written
<1>6. ASSUME NEW c \in Cmds, Dispatch(c) PROVE TypeOK'
  <2>1. PICK k \in KindsOf[c], i \in CommandIDs, s \in Resolutions :
          /\ req' = [req EXCEPT ![c] = [kind |-> k, id |-> i, resolution |-> s]]
          /\ GoTo(c, IF k = "start" THEN "creating" ELSE "locking")
          /\ base' = IF k = "start" THEN [base EXCEPT ![c] = StartState(c)] ELSE base
    BY <1>6 DEF Dispatch
  <2>2. k \in CommandKinds
    BY CommandsAssumption
  <2>3. req' \in [Cmds -> RequestType]
    BY <2>1, <2>2 DEF RequestType
  <2>4. base' \in [Cmds -> StateType]
    BY <2>1, StartStateTyped
  <2>5. pc' \in [Cmds -> PCs]
    BY <2>1 DEF GoTo, PCs
  <2>6. QED BY <1>6, <2>3, <2>4, <2>5 DEF Dispatch
<1>7. ASSUME NEW c \in Cmds, Lock(c) PROVE TypeOK'
  <2>1. pc' \in [Cmds -> PCs]
    BY <1>3, <1>7 DEF Lock, PCs
  <2>2. lock' \in [Runs -> Cmds \cup {Free}]
    BY <1>1, <1>7 DEF Lock
  <2>3. QED BY <1>7, <2>1, <2>2 DEF Lock
<1>8. ASSUME NEW c \in Cmds, AnswerFromCache(c) PROVE TypeOK'
  <2>1. outcomes[Key(c)] \in OutcomeType
    BY <1>2, <1>8 DEF AnswerFromCache
  <2>2. final' \in [Cmds -> StateType] /\ errs' \in [Cmds -> SUBSET Errors]
    BY <1>8, <2>1 DEF AnswerFromCache, OutcomeType
  <2>3. pc' \in [Cmds -> PCs]
    BY <1>3, <1>8 DEF AnswerFromCache, PCs
  <2>4. QED BY <1>8, <2>2, <2>3 DEF AnswerFromCache
<1>9. ASSUME NEW c \in Cmds, Load(c) PROVE TypeOK'
  <2> DEFINE st == store[run(c)]
             e == LoadError(kind(c), st, req[c].resolution)
  <2>1. st \in StateType
    BY <1>1
  <2>2. Prepared(c, st) \in StateType /\ Resolved(c, st) \in RequirementType
    BY <2>1, PreparedExtends
  <2>3. CASE e # ""
    <3>1. {e} \subseteq Errors
      BY <2>3, ErrorsTyped
    <3>2. Refuse(c, {e}, st) /\ UNCHANGED <<base, resolved>>
      BY <1>9, <2>3 DEF Load
    <3>3. QED BY <1>4, <1>9, <2>1, <3>1, <3>2 DEF Load
  <2>4. CASE e = ""
    <3>1. /\ base' \in [Cmds -> StateType]
          /\ resolved' \in [Cmds -> RequirementType]
          /\ final' \in [Cmds -> StateType]
      BY <1>9, <2>2, <2>4 DEF Load
    <3>2. pc' \in [Cmds -> PCs] /\ UNCHANGED errs
      BY <1>9, <2>4 DEF Load, GoTo, PCs
    <3>3. QED BY <1>9, <3>1, <3>2 DEF Load
  <2>5. QED BY <2>3, <2>4
<1>10. ASSUME NEW c \in Cmds, LoadInterrupted(c) PROVE TypeOK'
  <2>1. NoRun(run(c)) \in StateType /\ {"context"} \subseteq Errors
    BY <1>1, NoRunTyped, ErrorsTyped
  <2>2. ctxDone' \in [Cmds -> BOOLEAN]
    BY <1>10 DEF LoadInterrupted
  <2>3. QED BY <1>4, <1>10, <2>1, <2>2 DEF LoadInterrupted
<1>11. ASSUME NEW c \in Cmds, Create(c) PROVE TypeOK'
  <2> DEFINE st == base[c]
             e == SaveError(st)
  <2>1. st \in StateType /\ NoRun(run(c)) \in StateType
    BY <1>1, NoRunTyped
  <2>2. CASE e # ""
    <3>1. SaveErrors("start", e) \subseteq Errors
      BY <2>2, ErrorsTyped
    <3>2. /\ Refuse(c, SaveErrors("start", e), NoRun(run(c)))
          /\ UNCHANGED <<store, history, base, todo>>
      BY <1>11, <2>2 DEF Create
    <3>3. QED BY <1>4, <1>11, <2>1, <3>1, <3>2 DEF Create
  <2>3. CASE e = ""
    <3>1. store' \in [Runs -> StateType] /\ history' \in [Runs -> Seq(Cmds)]
      BY <1>5, <1>11, <2>1, <2>3 DEF Create
    <3>2. base' \in [Cmds -> StateType]
      BY <1>11, <2>1, <2>3, VersionedTyped DEF Create
    <3>3. <<Event("run_started", c, 1)>> \in Seq(EventType)
      BY DEF Event, EventType, EventTypes
    <3>4. todo' \in [Cmds -> Seq(EventType)]
      BY <1>11, <2>3, <3>3 DEF Create
    <3>5. pc' \in [Cmds -> PCs] /\ UNCHANGED <<final, errs>>
      BY <1>11, <2>3 DEF Create, GoTo, PCs
    <3>6. QED BY <1>11, <3>1, <3>2, <3>4, <3>5 DEF Create
  <2>4. QED BY <2>2, <2>3
<1>12. ASSUME NEW c \in Cmds, Execute(c) PROVE TypeOK'
  <2>1. PICK out \in EngineOutcomes(c, base[c], req[c].resolution, resolved[c], ctxDone[c]),
             refused \in BOOLEAN :
          /\ IF refused THEN out.events # <<>> /\ SinkRefuses(c) ELSE UNCHANGED ctxDone
          /\ replays' = IF out.replayed
                        THEN [replays EXCEPT ![c] = base[c].version] ELSE replays
          /\ IF ValidEngineOutput(base[c], out.state)
             THEN /\ final' = [final EXCEPT ![c] = out.state]
                  /\ errs' = IF out.failed \/ refused
                             THEN [errs EXCEPT ![c] = @ \cup {"engine"}] ELSE errs
                  /\ GoTo(c, "saving")
             ELSE Refuse(c, {"contract"}, NoRun(run(c)))
    BY <1>12 DEF Execute
  <2>2. base[c] \in StateType /\ resolved[c] \in RequirementType /\ ctxDone[c] \in BOOLEAN
    OBVIOUS
  <2>3. out \in OutcomeOf(base[c])
    BY <2>2, EngineTyped
  <2>4. ctxDone' \in [Cmds -> BOOLEAN]
    BY <2>1 DEF SinkRefuses
  <2>5. replays' \in [Cmds -> Nat]
    <3>1. base[c].version \in Nat
      BY <2>2 DEF StateType
    <3>2. QED BY <2>1, <3>1
  <2>6. /\ pc' \in [Cmds -> PCs] /\ errs' \in [Cmds -> SUBSET Errors]
        /\ final' \in [Cmds -> StateType]
    <3>1. CASE ValidEngineOutput(base[c], out.state)
      <4>1. base[c].step \in Nat /\ out.state.step >= base[c].step /\ out.state \in EngineStateType
        BY <2>2, <2>3, <3>1 DEF ValidEngineOutput, OutcomeOf, StateType
      <4>2. out.state.step \in Nat
        BY <4>1 DEF EngineStateType
      <4>3. out.state \in StateType
        BY <4>1, <4>2 DEF EngineStateType, StateType
      <4>4. final' \in [Cmds -> StateType]
        BY <2>1, <3>1, <4>3
      <4>5. errs' \in [Cmds -> SUBSET Errors]
        <5>1. errs' = errs \/ errs' = [errs EXCEPT ![c] = @ \cup {"engine"}]
          BY <2>1, <3>1
        <5>2. "engine" \in Errors
          BY DEF Errors
        <5>3. errs[c] \cup {"engine"} \in SUBSET Errors
          BY <5>2
        <5>4. QED BY <5>1, <5>3
      <4>6. pc' \in [Cmds -> PCs]
        BY <2>1, <3>1, <1>3 DEF PCs
      <4>7. QED BY <4>4, <4>5, <4>6
    <3>2. CASE ~ValidEngineOutput(base[c], out.state)
      <4>1. NoRun(run(c)) \in StateType /\ {"contract"} \subseteq Errors
        BY <1>1, NoRunTyped, ErrorsTyped
      <4>2. QED BY <1>4, <2>1, <3>2, <4>1
    <3>3. QED BY <3>1, <3>2
  <2>7. QED BY <1>12, <2>4, <2>5, <2>6 DEF Execute
<1>13. ASSUME NEW c \in Cmds, Save(c) PROVE TypeOK'
  <2> DEFINE st == final[c]
             e == SaveError(st)
  <2>1. st \in StateType /\ NoRun(run(c)) \in StateType
    BY <1>1, NoRunTyped
  <2>2. CASE e # ""
    <3>1. SaveErrors(kind(c), e) \subseteq Errors
      BY <2>2, ErrorsTyped
    <3>2. /\ Refuse(c, SaveErrors(kind(c), e), NoRun(run(c)))
          /\ UNCHANGED <<store, history, todo>>
      BY <1>13, <2>2 DEF Save
    <3>3. QED BY <1>4, <1>13, <2>1, <3>1, <3>2 DEF Save
  <2>3. CASE e = ""
    <3>1. store' \in [Runs -> StateType] /\ history' \in [Runs -> Seq(Cmds)]
      BY <1>5, <1>13, <2>1, <2>3 DEF Save
    <3>2. final' \in [Cmds -> StateType]
      BY <1>13, <2>1, <2>3, VersionedTyped DEF Save
    <3>3. todo' \in [Cmds -> Seq(EventType)]
      <4>1. Owed(c, st) \in Seq(EventType)
        BY <2>1, OwedTyped
      <4>2. todo' = [todo EXCEPT ![c] = Owed(c, st)]
        BY <1>13, <2>3 DEF Save
      <4>3. QED BY <4>1, <4>2
    <3>4. pc' \in [Cmds -> PCs] /\ UNCHANGED errs
      BY <1>13, <2>3 DEF Save, GoTo, PCs
    <3>5. QED BY <1>13, <3>1, <3>2, <3>3, <3>4 DEF Save
  <2>4. QED BY <2>2, <2>3
<1>14. ASSUME NEW c \in Cmds, SaveInterrupted(c) PROVE TypeOK'
  <2>1. NoRun(run(c)) \in StateType /\ {"context"} \subseteq Errors
    BY <1>1, NoRunTyped, ErrorsTyped
  <2>2. ctxDone' \in [Cmds -> BOOLEAN]
    BY <1>14 DEF SaveInterrupted
  <2>3. QED BY <1>4, <1>14, <2>1, <2>2 DEF SaveInterrupted
<1>15. ASSUME NEW c \in Cmds, todo[c] # <<>>
       PROVE  Head(todo[c]) \in EventType /\ Tail(todo[c]) \in Seq(EventType)
  BY <1>15, HeadTailProperties
<1>16. ASSUME NEW c \in Cmds, Publish(c) PROVE TypeOK'
  <2>1. Head(todo[c]).version \in Nat
    BY <1>15, <1>16 DEF Publish, EventType
  <2>2. told' \in [Runs -> Nat]
    BY <1>1, <1>16, <2>1 DEF Publish
  <2>3. todo' \in [Cmds -> Seq(EventType)]
    BY <1>15, <1>16 DEF Publish
  <2>4. QED BY <1>16, <2>2, <2>3 DEF Publish
<1>17. ASSUME NEW c \in Cmds, PublishFails(c) PROVE TypeOK'
  <2>1. todo' \in [Cmds -> Seq(EventType)]
    BY <1>15, <1>17 DEF PublishFails
  <2>2. errs' \in [Cmds -> SUBSET Errors]
    BY <1>17 DEF PublishFails, Errors
  <2>3. ctxDone' \in [Cmds -> BOOLEAN]
    BY <1>17 DEF PublishFails, SinkRefuses
  <2>4. QED BY <1>17, <2>1, <2>2, <2>3 DEF PublishFails
<1>18. ASSUME NEW c \in Cmds, Conclude(c) PROVE TypeOK'
  <2> DEFINE o == [known |-> TRUE, by |-> c, state |-> final[c], errs |-> errs[c]]
  <2>1. o \in OutcomeType
    BY DEF OutcomeType
  <2> HIDE DEF o
  <2>2. outcomes' \in [Runs \X CommandIDs -> OutcomeType]
    BY <1>2, <1>18, <2>1 DEF Conclude, Remembers, o
  <2>3. pc' \in [Cmds -> PCs]
    BY <1>3, <1>18 DEF Conclude, PCs
  <2>4. QED BY <1>18, <2>2, <2>3 DEF Conclude
<1>19. ASSUME NEW c \in Cmds, Return(c) PROVE TypeOK'
  <2>1. pc' \in [Cmds -> PCs]
    BY <1>3, <1>19 DEF Return, PCs
  <2>2. lock' \in [Runs -> Cmds \cup {Free}]
    BY <1>1, <1>19 DEF Return, Released
  <2>3. QED BY <1>19, <2>1, <2>2 DEF Return
<1>20. ASSUME NEW c \in Cmds, EndContext(c) PROVE TypeOK'
  BY <1>20 DEF EndContext
<1>21. CASE UNCHANGED vars
  BY <1>21 DEF vars, callVars
<1>22. QED
  BY <1>6, <1>7, <1>8, <1>9, <1>10, <1>11, <1>12, <1>13, <1>14, <1>16, <1>17, <1>18,
     <1>19, <1>20, <1>21 DEF Next, Step, Quiet

\* Every variable always has its type, whatever the engine returns: the states it
\* sets back, shortens or renames are refused before they reach the store.
THEOREM TypeCorrect == Spec => []TypeOK
BY TypeInit, TypeStep, PTL DEF Spec

-----------------------------------------------------------------------------
(***************************************************************************)
(* The inductive invariant.                                                *)
(***************************************************************************)

\* Once a version is written, whatever was made from an older one stays behind it.
LEMMA WritingLeavesBehind ==
  ASSUME NEW old \in StateType, NEW st \in StateType, NEW x \in StateType,
         Extends(old, x), st.version = old.version, st.id = old.id
  PROVE  Extends(Stored(st), x)
<1>1. /\ Stored(st).version = old.version + 1
      /\ Stored(st).id = old.id
  BY VersionedTyped
<1>2. x.version <= old.version /\ x.id = old.id
  BY DEF Extends
<1>3. x.version \in Nat /\ old.version \in Nat
  BY DEF StateType
<1>4. x.version <= Stored(st).version /\ x.version # Stored(st).version
  BY <1>1, <1>2, <1>3
<1>5. QED BY <1>1, <1>2, <1>4 DEF Extends

\* What extends a state that extends the run extends the run.
LEMMA ExtendsFurther ==
  ASSUME NEW old \in StateType, NEW st \in StateType, NEW next \in StateType,
         Extends(old, st), next.id = st.id, next.version = st.version,
         next.step >= st.step, IsPrefix(st.messages, next.messages)
  PROVE  Extends(old, next)
<1>1. /\ old.messages \in Seq(MessageType) /\ st.messages \in Seq(MessageType)
      /\ next.messages \in Seq(MessageType)
      /\ old.step \in Nat /\ st.step \in Nat /\ next.step \in Nat
  BY DEF StateType
<1>2. CASE st.version = old.version
  <2>1. ~Terminated(old) /\ st.step >= old.step /\ IsPrefix(old.messages, st.messages)
    BY <1>2 DEF Extends
  <2>2. IsPrefix(old.messages, next.messages)
    BY <1>1, <2>1, PrefixTransitive
  <2>3. next.step >= old.step
    BY <1>1, <2>1
  <2>4. QED BY <1>2, <2>1, <2>2, <2>3 DEF Extends
<1>3. CASE st.version # old.version
  BY <1>3 DEF Extends
<1>4. QED BY <1>2, <1>3

\* A stored run that has not ended may be written from itself.
LEMMA ExtendsItself ==
  ASSUME NEW st \in StateType, ~Terminated(st)
  PROVE  Extends(st, st)
<1>1. st.messages \in Seq(MessageType) /\ st.step \in Nat /\ st.version \in Nat
  BY DEF StateType
<1>2. IsPrefix(st.messages, st.messages)
  BY <1>1, PrefixReflexive
<1>3. QED BY <1>1, <1>2 DEF Extends

\* A command that may go on loaded a run that is there and has not ended.
LEMMA LoadedIsOpen ==
  ASSUME NEW k, NEW st, NEW s, LoadError(k, st, s) = ""
  PROVE  st.version # 0 /\ ~Terminated(st)
<1>1. st.version # 0 /\ GateError(k, st, s) = ""
  <2>1. "not_found" # ""
    OBVIOUS
  <2>2. QED BY <2>1 DEF LoadError
<1>2. CASE k = "continue"
  <2>1. ContinueError(st, s) = ""
    BY <1>1, <1>2 DEF GateError
  <2>2. QED BY <1>1, <2>1 DEF ContinueError
<1>3. CASE k = "cancel"
  <2>1. CancelError(st) = ""
    BY <1>1, <1>3 DEF GateError
  <2>2. QED BY <1>1, <2>1 DEF CancelError
<1>4. CASE k # "continue" /\ k # "cancel"
  <2>1. InstructionError(st) = ""
    BY <1>1, <1>4 DEF GateError
  <2>2. QED BY <1>1, <2>1 DEF InstructionError
<1>5. QED BY <1>1, <1>2, <1>3, <1>4

\* The state a start creates extends whatever is stored: nothing, or a run whose
\* version it cannot match.
LEMMA StartExtends ==
  ASSUME NEW c \in Cmds, store[run(c)] \in StateType, StoreOK
  PROVE  Extends(store[run(c)], StartState(c))
<1> DEFINE old == store[run(c)]
           st == StartState(c)
<1>1. /\ st \in StateType /\ st.id = run(c) /\ st.version = 0 /\ st.step = 0
  BY StartStateTyped
<1>2. run(c) \in Runs
  BY CommandsAssumption DEF run
<1>3. old.id = run(c) /\ (old.version = 0 => old = NoRun(run(c)))
  BY <1>2 DEF StoreOK
<1> SUFFICES Extends(old, st)
  OBVIOUS
<1> HIDE DEF st, old
<1>4. CASE old.version = 0
  <2>1. /\ old.step = 0 /\ old.status = "" /\ old.messages = <<>>
    BY <1>2, <1>3, <1>4, NoRunTyped
  <2>2. ~Terminated(old)
    BY <2>1 DEF Terminated, Terminal
  <2>3. IsPrefix(<<>>, st.messages)
    <3>1. st.messages \in Seq(MessageType)
      BY <1>1 DEF StateType
    <3>2. <<>> \in Seq(MessageType) /\ <<>> \o st.messages = st.messages
      BY <3>1, ConcatEmptySeq
    <3>3. QED BY <3>1, <3>2, PrefixConcat
  <2>4. st.step >= old.step /\ st.version <= old.version
    <3>1. st.step = 0 /\ old.step = 0 /\ st.version = 0 /\ old.version = 0
      BY <1>1, <1>4, <2>1
    <3>2. 0 >= 0 /\ 0 <= 0
      OBVIOUS
    <3>3. QED BY <3>1, <3>2
  <2>5. QED BY <1>1, <1>3, <2>1, <2>2, <2>3, <2>4 DEF Extends
<1>5. CASE old.version # 0
  <2>1. old.version \in Nat
    BY DEF StateType, old
  <2>2. 0 <= old.version
    BY <2>1
  <2>3. QED BY <1>1, <1>3, <1>5, <2>2 DEF Extends
<1>6. QED BY <1>4, <1>5

\* The version after a save is never that of a run that is not stored.
LEMMA NextVersion == \A n \in Nat : n + 1 # 0
OBVIOUS

\* A write that the store accepts, of a state that extends what is stored, extends
\* the run and leaves every other command's state an extension of it.
LEMMA WriteExtends ==
  ASSUME TypeOK, StoreOK, NEW c \in Cmds, NEW st \in StateType, st.id = run(c),
         Extends(store[run(c)], st), SaveError(st) = "", Written(c, st)
  PROVE  /\ store'[run(c)] = Versioned(st)
         /\ StoreOK'
         /\ KeepsTerminal /\ OnlyExtends
         /\ \A r \in Runs, x \in StateType : Extends(store[r], x) => Extends(store'[r], x)
<1> DEFINE old == store[run(c)]
<1>1. run(c) \in Runs
  BY CommandsAssumption DEF run
<1>2. /\ old \in StateType /\ old.version \in Nat
      /\ st.version \in Nat
  BY <1>1 DEF TypeOK, StateType
<1>3. st.version = old.version
  <2>1. ValidRunState(st)
    BY DEF SaveError
  <2>2. CASE st.version # old.version
    BY <2>1, <2>2 DEF SaveError
  <2>3. QED BY <2>2
<1>4. /\ store' = [store EXCEPT ![run(c)] = Stored(st)]
      /\ Stored(st) = Versioned(st)
  BY VersionedTyped DEF Written
<1>5. /\ store'[run(c)] = Versioned(st)
      /\ \A r \in Runs : r # run(c) => store'[r] = store[r]
  BY <1>1, <1>4 DEF TypeOK
<1>6. /\ Versioned(st).version = old.version + 1
      /\ Versioned(st).id = run(c) /\ Versioned(st).step = st.step
      /\ Versioned(st).messages = st.messages
  BY <1>3, VersionedTyped
<1>7. /\ ~Terminated(old) /\ st.step >= old.step
      /\ IsPrefix(old.messages, st.messages)
  BY <1>3 DEF Extends
<1> HIDE DEF old
<1>8. old.version + 1 # 0
  BY <1>2, NextVersion
<1>9. StoreOK'
  <2>1. ASSUME NEW r \in Runs
        PROVE  store'[r].id = r /\ (store'[r].version = 0 => store'[r] = NoRun(r))
    <3>1. CASE r = run(c)
      BY <1>5, <1>6, <1>8, <3>1
    <3>2. CASE r # run(c)
      BY <1>5, <3>2 DEF StoreOK
    <3>3. QED BY <3>1, <3>2
  <2>2. QED BY <2>1 DEF StoreOK
<1>10. KeepsTerminal
  BY <1>5, <1>7 DEF KeepsTerminal, old
<1>11. OnlyExtends
  <2>1. ASSUME NEW r \in Runs, store'[r] # store[r]
        PROVE  r = run(c)
    BY <1>5, <2>1
  <2>2. QED BY <1>5, <1>6, <1>7, <2>1 DEF OnlyExtends, old
<1>12. ASSUME NEW r \in Runs, NEW x \in StateType, Extends(store[r], x)
       PROVE  Extends(store'[r], x)
  <2>1. CASE r = run(c)
    <3>1. Extends(old, x) /\ st.id = old.id
      BY <1>1, <1>12, <2>1 DEF old, StoreOK
    <3>2. Extends(Stored(st), x)
      BY <1>2, <1>3, <3>1, WritingLeavesBehind
    <3>3. QED BY <1>4, <1>5, <2>1, <3>2
  <2>2. CASE r # run(c)
    BY <1>5, <1>12, <2>2
  <2>3. QED BY <2>1, <2>2
<1>13. QED BY <1>5, <1>9, <1>10, <1>11, <1>12

\* The invariant holds of the empty store.
LEMMA InvInit == Init => IInv
<1> SUFFICES ASSUME Init PROVE IInv
  OBVIOUS
<1>1. StoreOK
  BY NoRunTyped DEF Init, StoreOK
<1>2. PendingWritesExtend
  BY DEF Init, PendingWritesExtend
<1>3. LockHeld
  BY DEF Init, LockHeld, Holding
<1>4. QED BY <1>1, <1>2, <1>3 DEF IInv

\* The mutex protocol: Lock takes a free mutex and only its holder frees it.
LEMMA LockStep == TypeOK /\ LockHeld /\ [Next]_vars => LockHeld'
<1> SUFFICES ASSUME TypeOK, LockHeld, [Next]_vars
             PROVE  LockHeld'
  OBVIOUS
<1>1. ASSUME NEW c \in Cmds PROVE run(c) \in Runs
  BY CommandsAssumption DEF run
<1>2. /\ pc \in [Cmds -> PCs] /\ lock \in [Runs -> Cmds \cup {Free}]
      /\ req \in [Cmds -> RequestType]
  BY DEF TypeOK
<1>3. ASSUME NEW c \in Cmds, NEW l \in {"executing", "saving", "publishing", "returning"},
             UNCHANGED <<req, lock>>, GoTo(c, l), pc[c] \in Holding \cup {"creating"}
      PROVE  LockHeld'
  BY <1>2, <1>3 DEF LockHeld, GoTo, Holding, kind, run
<1>4. ASSUME UNCHANGED <<req, lock, pc>> PROVE LockHeld'
  BY <1>4 DEF LockHeld, Holding, kind, run
<1>5. ASSUME NEW c \in Cmds, Dispatch(c) PROVE LockHeld'
  <2>1. PICK k \in KindsOf[c], i \in CommandIDs, s \in Resolutions :
          /\ req' = [req EXCEPT ![c] = [kind |-> k, id |-> i, resolution |-> s]]
          /\ GoTo(c, IF k = "start" THEN "creating" ELSE "locking")
    BY <1>5 DEF Dispatch
  <2>2. /\ lock' = lock
        /\ \A d \in Cmds : d # c => pc'[d] = pc[d] /\ req'[d] = req[d]
        /\ req'[c].kind = k
        /\ pc'[c] = IF k = "start" THEN "creating" ELSE "locking"
    BY <1>2, <1>5, <2>1 DEF Dispatch, GoTo
  <2>3. QED BY <2>2 DEF LockHeld, Holding, kind, run
<1>6. ASSUME NEW c \in Cmds, Lock(c) PROVE LockHeld'
  <2>1. /\ lock[run(c)] = Free /\ Free \notin Cmds /\ run(c) \in Runs
        /\ pc[c] = "locking" /\ kind(c) # "start"
    BY <1>1, <1>6, CommandsAssumption, CallsAssumption DEF Lock, LockHeld
  <2>2. /\ lock' = [lock EXCEPT ![run(c)] = c]
        /\ pc' = [pc EXCEPT ![c] = "loading"]
        /\ req' = req
    BY <1>6 DEF Lock, GoTo
  <2>3. QED BY <1>1, <1>2, <2>1, <2>2 DEF LockHeld, Holding, kind, run
<1>7. ASSUME NEW c \in Cmds, Return(c) PROVE LockHeld'
  <2>1. /\ pc' = [pc EXCEPT ![c] = "done"]
        /\ req' = req
        /\ lock' = lock \/ (lock[run(c)] = c /\ lock' = [lock EXCEPT ![run(c)] = Free])
    BY <1>7 DEF Return, Released, GoTo
  <2>2. QED BY <1>1, <1>2, <2>1 DEF LockHeld, Holding, kind, run
<1>8. ASSUME NEW c \in Cmds, AnswerFromCache(c) \/ LoadInterrupted(c) \/ Conclude(c) PROVE LockHeld'
  BY <1>3, <1>8 DEF AnswerFromCache, LoadInterrupted, Conclude, Refuse, Holding
<1>9. ASSUME NEW c \in Cmds, SaveInterrupted(c) PROVE LockHeld'
  BY <1>3, <1>9 DEF SaveInterrupted, Refuse, Holding
<1>10. ASSUME NEW c \in Cmds, Load(c) PROVE LockHeld'
  BY <1>3, <1>10 DEF Load, Refuse, Holding
<1>11. ASSUME NEW c \in Cmds, Create(c) PROVE LockHeld'
  BY <1>3, <1>11 DEF Create, Refuse, Holding
<1>12. ASSUME NEW c \in Cmds, Execute(c) PROVE LockHeld'
  <2>1. GoTo(c, "saving") \/ GoTo(c, "returning")
    BY <1>12 DEF Execute, Refuse
  <2>2. pc[c] \in Holding /\ UNCHANGED <<req, lock>>
    BY <1>12 DEF Execute, Holding
  <2>3. QED BY <1>3, <2>1, <2>2
<1>13. ASSUME NEW c \in Cmds, Save(c) PROVE LockHeld'
  BY <1>3, <1>13 DEF Save, Refuse, Holding
<1>14. ASSUME NEW c \in Cmds, Publish(c) \/ PublishFails(c) \/ EndContext(c) PROVE LockHeld'
  BY <1>4, <1>14 DEF Publish, PublishFails, EndContext
<1>15. CASE UNCHANGED vars
  BY <1>4, <1>15 DEF vars, callVars
<1>16. QED
  BY <1>5, <1>6, <1>7, <1>8, <1>9, <1>10, <1>11, <1>12, <1>13, <1>14, <1>15
     DEF Next, Step, Quiet

\* A step that writes nothing keeps the pending writes of the commands that go on.
LEMMA NothingWritten ==
  ASSUME StoreOK, PendingWritesExtend, TypeOK, NEW c \in Cmds, UNCHANGED store,
         NEW l \in PCs, GoTo(c, l),
         \A d \in Cmds : d # c => base'[d] = base[d] /\ final'[d] = final[d],
         l = "creating" => base'[c] = StartState(c),
         l = "executing" => Extends(store[run(c)], base'[c]),
         l = "saving" => Extends(store[run(c)], final'[c])
  PROVE  /\ StoreOK' /\ PendingWritesExtend'
         /\ KeepsTerminal /\ OnlyExtends
<1>1. /\ pc'[c] = l
      /\ \A d \in Cmds : d # c => pc'[d] = pc[d]
  BY DEF GoTo, TypeOK
<1>2. StoreOK'
  BY DEF StoreOK
<1>3. KeepsTerminal /\ OnlyExtends
  BY DEF KeepsTerminal, OnlyExtends
<1>4. PendingWritesExtend'
  <2>1. ASSUME NEW d \in Cmds
        PROVE  /\ pc'[d] = "creating" => base'[d] = StartState(d)
               /\ pc'[d] = "executing" => Extends(store'[run(d)], base'[d])
               /\ pc'[d] = "saving" => Extends(store'[run(d)], final'[d])
    <3>1. CASE d = c
      BY <1>1, <3>1
    <3>2. CASE d # c
      BY <1>1, <3>2 DEF PendingWritesExtend
    <3>3. QED BY <3>1, <3>2
  <2>2. QED BY <2>1 DEF PendingWritesExtend, run
<1>5. QED BY <1>2, <1>3, <1>4

\* Every step keeps the store in order and the pending writes extending it, and
\* makes only writes that extend.
LEMMA StoreStep ==
  TypeOK /\ StoreOK /\ PendingWritesExtend /\ [Next]_vars
    => StoreOK' /\ PendingWritesExtend' /\ KeepsTerminal /\ OnlyExtends
<1> DEFINE Goal == StoreOK' /\ PendingWritesExtend' /\ KeepsTerminal /\ OnlyExtends
<1> SUFFICES ASSUME TypeOK, StoreOK, PendingWritesExtend, [Next]_vars
             PROVE  Goal
  OBVIOUS
<1>1. ASSUME NEW c \in Cmds PROVE run(c) \in Runs /\ store[run(c)] \in StateType
  BY CommandsAssumption DEF run, TypeOK
<1>2. /\ base \in [Cmds -> StateType] /\ final \in [Cmds -> StateType]
      /\ req \in [Cmds -> RequestType] /\ pc \in [Cmds -> PCs]
  BY DEF TypeOK
<1>3. ASSUME UNCHANGED <<store, pc, base, final>> PROVE Goal
  BY <1>3 DEF StoreOK, PendingWritesExtend, KeepsTerminal, OnlyExtends, run
<1>4. ASSUME NEW c \in Cmds, NEW e, NEW st, UNCHANGED <<store, base>>, Refuse(c, e, st)
      PROVE  Goal
  <2>1. GoTo(c, "returning") /\ \A d \in Cmds : d # c => final'[d] = final[d]
    BY <1>2, <1>4 DEF Refuse
  <2>2. QED BY <1>4, <2>1, NothingWritten DEF PCs
<1>5. ASSUME NEW c \in Cmds, Dispatch(c) PROVE Goal
  <2>1. PICK k \in KindsOf[c] :
          /\ GoTo(c, IF k = "start" THEN "creating" ELSE "locking")
          /\ base' = IF k = "start" THEN [base EXCEPT ![c] = StartState(c)] ELSE base
    BY <1>5 DEF Dispatch
  <2>2. UNCHANGED <<store, final>>
    BY <1>5 DEF Dispatch
  <2>3. CASE k = "start"
    <3>1. GoTo(c, "creating") /\ base'[c] = StartState(c)
      BY <1>2, <2>1, <2>3
    <3>2. \A d \in Cmds : d # c => base'[d] = base[d]
      BY <1>2, <2>1, <2>3
    <3>3. QED BY <2>2, <3>1, <3>2, NothingWritten DEF PCs
  <2>4. CASE k # "start"
    <3>1. GoTo(c, "locking") /\ base' = base
      BY <2>1, <2>4
    <3>2. QED BY <2>2, <3>1, NothingWritten DEF PCs
  <2>5. QED BY <2>3, <2>4
<1>6. ASSUME NEW c \in Cmds, Lock(c) PROVE Goal
  <2>1. GoTo(c, "loading") /\ UNCHANGED <<store, base, final>>
    BY <1>6 DEF Lock
  <2>2. QED BY <2>1, NothingWritten DEF PCs
<1>7. ASSUME NEW c \in Cmds, AnswerFromCache(c) PROVE Goal
  <2>1. GoTo(c, "returning") /\ UNCHANGED <<store, base>>
    BY <1>7 DEF AnswerFromCache
  <2>2. \A d \in Cmds : d # c => final'[d] = final[d]
    BY <1>2, <1>7 DEF AnswerFromCache
  <2>3. QED BY <2>1, <2>2, NothingWritten DEF PCs
<1>8. ASSUME NEW c \in Cmds, Conclude(c) \/ Return(c) PROVE Goal
  <2>1. PICK l \in {"returning", "done"} : GoTo(c, l) /\ UNCHANGED <<store, base, final>>
    BY <1>8 DEF Conclude, Return
  <2>2. QED BY <2>1, NothingWritten DEF PCs
<1>9. ASSUME NEW c \in Cmds, LoadInterrupted(c) \/ SaveInterrupted(c) PROVE Goal
  <2>1. Refuse(c, {"context"}, NoRun(run(c))) /\ UNCHANGED <<store, base>>
    BY <1>9 DEF LoadInterrupted, SaveInterrupted
  <2>2. QED BY <1>4, <2>1
<1>10. ASSUME NEW c \in Cmds, Publish(c) \/ PublishFails(c) \/ EndContext(c) PROVE Goal
  <2>1. UNCHANGED <<store, pc, base, final>>
    BY <1>10 DEF Publish, PublishFails, EndContext
  <2>2. QED BY <1>3, <2>1
<1>11. ASSUME NEW c \in Cmds, Load(c) PROVE Goal
  <2> DEFINE st == store[run(c)]
             e == LoadError(kind(c), st, req[c].resolution)
             next == Prepared(c, st)
  <2>1. CASE e # ""
    <3>1. Refuse(c, {e}, st) /\ UNCHANGED <<store, base>>
      BY <1>11, <2>1 DEF Load
    <3>2. QED BY <1>4, <3>1
  <2>2. CASE e = ""
    <3>1. ~Terminated(st) /\ st \in StateType
      BY <1>1, <2>2, LoadedIsOpen
    <3>2. /\ next \in StateType /\ next.id = st.id /\ next.version = st.version
          /\ next.step = st.step /\ IsPrefix(st.messages, next.messages)
      BY <3>1, PreparedExtends
    <3>3. /\ base'[c] = next /\ final'[c] = next
          /\ \A d \in Cmds : d # c => base'[d] = base[d] /\ final'[d] = final[d]
      BY <1>2, <1>11, <2>2 DEF Load
    <3>4. PICK l \in {"executing", "saving"} : GoTo(c, l)
      BY <1>11, <2>2 DEF Load
    <3>5. store' = store
      BY <1>11 DEF Load
    <3> HIDE DEF st, e, next
    <3>6. next.step >= st.step
      BY <3>1, <3>2 DEF StateType
    <3>7. Extends(st, next)
      BY <3>1, <3>2, <3>6, ExtendsItself, ExtendsFurther
    <3>8. QED BY <3>3, <3>4, <3>5, <3>7, NothingWritten DEF PCs, st
  <2>3. QED BY <2>1, <2>2
<1>12. ASSUME NEW c \in Cmds, Execute(c) PROVE Goal
  <2>1. PICK out \in EngineOutcomes(c, base[c], req[c].resolution, resolved[c], ctxDone[c]) :
          IF ValidEngineOutput(base[c], out.state)
          THEN final' = [final EXCEPT ![c] = out.state] /\ GoTo(c, "saving")
          ELSE Refuse(c, {"contract"}, NoRun(run(c)))
    BY <1>12 DEF Execute
  <2>2. UNCHANGED <<store, base>> /\ pc[c] = "executing"
    BY <1>12 DEF Execute
  <2>3. CASE ValidEngineOutput(base[c], out.state)
    <3>1. base[c] \in StateType /\ out \in OutcomeOf(base[c])
      <4>1. resolved[c] \in RequirementType /\ ctxDone[c] \in BOOLEAN /\ base[c] \in StateType
        BY DEF TypeOK
      <4>2. QED BY <4>1, EngineTyped
    <3>2. /\ out.state \in EngineStateType /\ out.state.version = base[c].version
          /\ out.state.id = base[c].id /\ out.state.step >= base[c].step
          /\ IsPrefix(base[c].messages, out.state.messages)
      BY <2>3, <3>1 DEF OutcomeOf, ValidEngineOutput
    <3>3. out.state \in StateType
      <4>1. base[c].step \in Nat
        BY <3>1 DEF StateType
      <4>2. out.state.step \in Nat
        BY <3>2, <4>1 DEF EngineStateType
      <4>3. QED BY <3>2, <4>2 DEF EngineStateType, StateType
    <3>4. Extends(store[run(c)], base[c])
      BY <2>2 DEF PendingWritesExtend
    <3>5. Extends(store[run(c)], out.state)
      BY <1>1, <3>1, <3>2, <3>3, <3>4, ExtendsFurther
    <3>6. /\ GoTo(c, "saving") /\ final'[c] = out.state
          /\ \A d \in Cmds : d # c => final'[d] = final[d]
      BY <1>2, <2>1, <2>3
    <3>7. QED BY <2>2, <3>5, <3>6, NothingWritten DEF PCs
  <2>4. CASE ~ValidEngineOutput(base[c], out.state)
    BY <1>4, <2>1, <2>2, <2>4
  <2>5. QED BY <2>3, <2>4
<1>13. ASSUME NEW c \in Cmds, NEW st \in StateType, st.id = run(c),
              Extends(store[run(c)], st), SaveError(st) = "", Written(c, st),
              \A d \in Cmds : d # c =>
                pc'[d] = pc[d] /\ base'[d] = base[d] /\ final'[d] = final[d],
              pc'[c] \notin {"creating", "saving"},
              pc'[c] = "executing" => base'[c] = Versioned(st) /\ ~Terminated(st)
       PROVE  Goal
  <2>1. /\ store'[run(c)] = Versioned(st)
        /\ StoreOK' /\ KeepsTerminal /\ OnlyExtends
        /\ \A r \in Runs, x \in StateType : Extends(store[r], x) => Extends(store'[r], x)
    BY <1>13, WriteExtends
  <2>2. ASSUME NEW d \in Cmds
        PROVE  /\ pc'[d] = "creating" => base'[d] = StartState(d)
               /\ pc'[d] = "executing" => Extends(store'[run(d)], base'[d])
               /\ pc'[d] = "saving" => Extends(store'[run(d)], final'[d])
    <3>1. CASE d = c
      <4>1. ~Terminated(st) => Extends(Versioned(st), Versioned(st))
        BY VersionedTyped, ExtendsItself DEF Terminated
      <4>2. QED BY <1>13, <2>1, <3>1, <4>1
    <3>2. CASE d # c
      <4>1. /\ pc[d] = "creating" => base[d] = StartState(d)
            /\ pc[d] = "executing" => Extends(store[run(d)], base[d])
            /\ pc[d] = "saving" => Extends(store[run(d)], final[d])
        BY DEF PendingWritesExtend
      <4>2. run(d) \in Runs /\ base[d] \in StateType /\ final[d] \in StateType
        BY <1>1, <1>2
      <4>3. pc'[d] = pc[d] /\ base'[d] = base[d] /\ final'[d] = final[d]
        BY <1>13, <3>2
      <4>4. QED BY <2>1, <4>1, <4>2, <4>3
    <3>3. QED BY <3>1, <3>2
  <2>3. PendingWritesExtend'
    BY <2>2 DEF PendingWritesExtend, run
  <2>4. QED BY <2>1, <2>3
<1>14. ASSUME NEW c \in Cmds, Create(c) PROVE Goal
  <2> DEFINE st == base[c]
             e == SaveError(st)
  <2>1. CASE e # ""
    <3>1. Refuse(c, SaveErrors("start", e), NoRun(run(c))) /\ UNCHANGED <<store, base>>
      BY <1>14, <2>1 DEF Create
    <3>2. QED BY <1>4, <3>1
  <2>2. CASE e = ""
    <3>1. st = StartState(c)
      BY <1>14 DEF Create, PendingWritesExtend
    <3>2. st \in StateType /\ st.id = run(c) /\ Extends(store[run(c)], st) /\ ~Terminated(st)
      <4>1. StartState(c).status = "pending"
        BY DEF StartState, NoRun
      <4>2. ~Terminated(StartState(c))
        BY <4>1 DEF Terminated, Terminal
      <4>3. QED BY <1>1, <3>1, <4>2, StartStateTyped, StartExtends
    <3>3. Written(c, st) /\ SaveError(st) = ""
      BY <1>14, <2>2 DEF Create
    <3>4. /\ pc'[c] = "executing" /\ base'[c] = Versioned(st)
          /\ \A d \in Cmds : d # c =>
               pc'[d] = pc[d] /\ base'[d] = base[d] /\ final'[d] = final[d]
      BY <1>2, <1>14, <2>2 DEF Create, GoTo
    <3> HIDE DEF st
    <3>5. QED BY <1>13, <3>2, <3>3, <3>4
  <2>3. QED BY <2>1, <2>2
<1>15. ASSUME NEW c \in Cmds, Save(c) PROVE Goal
  <2> DEFINE st == final[c]
             e == SaveError(st)
  <2>1. CASE e # ""
    <3>1. Refuse(c, SaveErrors(kind(c), e), NoRun(run(c))) /\ UNCHANGED <<store, base>>
      BY <1>15, <2>1 DEF Save
    <3>2. QED BY <1>4, <3>1
  <2>2. CASE e = ""
    <3>1. /\ st \in StateType /\ Extends(store[run(c)], st)
          /\ st.id = run(c)
      BY <1>1, <1>2, <1>15 DEF Save, PendingWritesExtend, Extends, StoreOK
    <3>2. Written(c, st) /\ SaveError(st) = ""
      BY <1>15, <2>2 DEF Save
    <3>3. /\ pc'[c] = "publishing"
          /\ \A d \in Cmds : d # c =>
               pc'[d] = pc[d] /\ base'[d] = base[d] /\ final'[d] = final[d]
      BY <1>2, <1>15, <2>2 DEF Save, GoTo
    <3> HIDE DEF st
    <3>4. QED BY <1>13, <3>1, <3>2, <3>3
  <2>3. QED BY <2>1, <2>2
<1>16. CASE UNCHANGED vars
  BY <1>3, <1>16 DEF vars, callVars
<1>17. QED
  BY <1>5, <1>6, <1>7, <1>8, <1>9, <1>10, <1>11, <1>12, <1>14, <1>15, <1>16
     DEF Next, Step, Quiet

-----------------------------------------------------------------------------
(***************************************************************************)
(* The theorems.                                                           *)
(***************************************************************************)

\* The store holds every run under its own id; every state on its way to the store
\* extends what is stored or is older than it; every command but start holds its
\* run's mutex while it works.
THEOREM Invariant == Spec => []IInv
<1>1. TypeOK /\ IInv /\ [Next]_vars => IInv'
  BY StoreStep, LockStep DEF IInv
<1>2. QED BY <1>1, InvInit, TypeCorrect, PTL DEF Spec

\* No command, whichever state it loaded and whatever its engine did, writes a run
\* that was completed, failed or cancelled meanwhile.
THEOREM EndedRunsStay == Spec => TerminalIsFinal
<1>1. TypeOK /\ IInv /\ [Next]_vars => [KeepsTerminal]_store
  BY StoreStep DEF IInv
<1>2. QED BY <1>1, Invariant, TypeCorrect, PTL DEF Spec, TerminalIsFinal

\* Every write is the next version, moves the step forward and keeps the stored
\* transcript as a prefix, also with engines that break their contract.
THEOREM WritesExtend == Spec => SavesExtend
<1>1. TypeOK /\ IInv /\ [Next]_vars => [OnlyExtends]_store
  BY StoreStep DEF IInv
<1>2. QED BY <1>1, Invariant, TypeCorrect, PTL DEF Spec, SavesExtend

\* The mutex admits one continue, cancel, steer or follow_up at a time to a run.
THEOREM OneAtATime == Spec => []OneLockedCommandPerRun
<1>1. IInv => OneLockedCommandPerRun
  BY DEF IInv, LockHeld, OneLockedCommandPerRun
<1>2. QED BY <1>1, Invariant, PTL

-----------------------------------------------------------------------------
(***************************************************************************)
(* What a step leaves alone, and the two steps that write.                 *)
(***************************************************************************)

Moves(c) == Dispatch(c) \/ Step(c) \/ EndContext(c)

Undisturbed(d) ==
  /\ pc'[d] = pc[d] /\ req'[d] = req[d] /\ base'[d] = base[d] /\ final'[d] = final[d]
  /\ resolved'[d] = resolved[d] /\ todo'[d] = todo[d] /\ errs'[d] = errs[d]
  /\ replays'[d] = replays[d]

\* The store accepts st as the next version of c's run.
Commits(c, st) ==
  /\ st \in StateType
  /\ ValidRunState(st)
  /\ st.id = run(c)
  /\ st.version = store[run(c)].version
  /\ store' = [store EXCEPT ![run(c)] = Versioned(st)]
  /\ history' = [history EXCEPT ![run(c)] = Append(@, c)]

\* A step of one command leaves what the others carry as it is.
LEMMA OthersUndisturbed ==
  ASSUME TypeOK, NEW c \in Cmds, Moves(c), NEW d \in Cmds, d # c
  PROVE  Undisturbed(d)
<1>1. /\ pc \in [Cmds -> PCs] /\ req \in [Cmds -> RequestType]
      /\ base \in [Cmds -> StateType] /\ final \in [Cmds -> StateType]
      /\ resolved \in [Cmds -> RequirementType] /\ todo \in [Cmds -> Seq(EventType)]
      /\ errs \in [Cmds -> SUBSET Errors] /\ replays \in [Cmds -> Nat]
  BY DEF TypeOK
<1>2. CASE Dispatch(c)
  BY <1>1, <1>2 DEF Dispatch, GoTo, Undisturbed
<1>3. CASE Lock(c) \/ Return(c) \/ Conclude(c)
  BY <1>1, <1>3 DEF Lock, Return, Conclude, GoTo, Undisturbed
<1>4. CASE AnswerFromCache(c) \/ Load(c) \/ LoadInterrupted(c) \/ SaveInterrupted(c)
  BY <1>1, <1>4 DEF AnswerFromCache, Load, LoadInterrupted, SaveInterrupted, Refuse, GoTo,
     Undisturbed
<1>5. CASE Create(c) \/ Save(c)
  BY <1>1, <1>5 DEF Create, Save, Refuse, GoTo, Undisturbed
<1>6. CASE Execute(c)
  BY <1>1, <1>6 DEF Execute, Refuse, GoTo, Undisturbed
<1>7. CASE Publish(c) \/ PublishFails(c) \/ EndContext(c)
  BY <1>1, <1>7 DEF Publish, PublishFails, EndContext, Undisturbed
<1>8. QED BY <1>2, <1>3, <1>4, <1>5, <1>6, <1>7 DEF Moves, Step

\* A write that SaveError lets through commits.
LEMMA AcceptedCommits ==
  ASSUME NEW c \in Cmds, NEW st \in StateType, st.id = run(c),
         SaveError(st) = "", Written(c, st)
  PROVE  Commits(c, st)
<1>1. ValidRunState(st)
  BY DEF SaveError
<1>2. st.version = store[run(c)].version
  <2>1. CASE st.version # store[run(c)].version
    BY <1>1, <2>1 DEF SaveError
  <2>2. QED BY <2>1
<1>3. Stored(st) = Versioned(st)
  BY DEF Stored, Versioned
<1>4. QED BY <1>1, <1>2, <1>3 DEF Commits, Written

\* Only Create and Save write.
LEMMA StepsWrite ==
  ASSUME TypeOK, IInv, NEW c \in Cmds, Moves(c)
  PROVE  \/ UNCHANGED <<store, history>>
         \/ Create(c) /\ base[c] = StartState(c) /\ Commits(c, base[c])
         \/ Save(c) /\ Commits(c, final[c])
<1>1. base[c] \in StateType /\ final[c] \in StateType /\ run(c) \in Runs
  BY CommandsAssumption DEF TypeOK, run
<1>2. CASE Create(c)
  <2>1. base[c] = StartState(c)
    BY <1>2 DEF Create, IInv, PendingWritesExtend
  <2>2. base[c].id = run(c)
    BY <2>1, StartStateTyped
  <2>3. CASE SaveError(base[c]) = ""
    <3>1. Written(c, base[c])
      BY <1>2, <2>3 DEF Create
    <3>2. QED BY <1>1, <1>2, <2>1, <2>2, <2>3, <3>1, AcceptedCommits
  <2>4. CASE SaveError(base[c]) # ""
    BY <1>2, <2>4 DEF Create
  <2>5. QED BY <2>3, <2>4
<1>3. CASE Save(c)
  <2>1. final[c].id = run(c)
    BY <1>1, <1>3 DEF Save, IInv, PendingWritesExtend, Extends, StoreOK
  <2>2. CASE SaveError(final[c]) = ""
    <3>1. Written(c, final[c])
      BY <1>3, <2>2 DEF Save
    <3>2. QED BY <1>1, <1>3, <2>1, <2>2, <3>1, AcceptedCommits
  <2>3. CASE SaveError(final[c]) # ""
    BY <1>3, <2>3 DEF Save
  <2>4. QED BY <2>2, <2>3
<1>4. CASE ~Create(c) /\ ~Save(c)
  BY <1>4 DEF Moves, Step, Dispatch, Lock, AnswerFromCache, Load, LoadInterrupted, Execute,
     SaveInterrupted, Publish, PublishFails, Conclude, Return, EndContext
<1>5. QED BY <1>2, <1>3, <1>4

\* A commit is the next version of one run, and c is appended to its history.
LEMMA CommitAppends ==
  ASSUME TypeOK, NEW c \in Cmds, NEW st, Commits(c, st)
  PROVE  /\ run(c) \in Runs
         /\ store'[run(c)] = Versioned(st)
         /\ store'[run(c)].version = store[run(c)].version + 1
         /\ store'[run(c)].messages = st.messages
         /\ history'[run(c)] = Append(history[run(c)], c)
         /\ \A r \in Runs : r # run(c) => store'[r] = store[r] /\ history'[r] = history[r]
<1>1. run(c) \in Runs
  BY CommandsAssumption DEF run
<1>2. st \in StateType /\ store \in [Runs -> StateType] /\ history \in [Runs -> Seq(Cmds)]
  BY DEF Commits, TypeOK
<1>3. Versioned(st).version = st.version + 1 /\ Versioned(st).messages = st.messages
  BY <1>2, VersionedTyped
<1>4. QED BY <1>1, <1>2, <1>3 DEF Commits

-----------------------------------------------------------------------------
(***************************************************************************)
(* WorkInv.                                                                *)
(***************************************************************************)

\* A command keeps its request once it was dispatched, and is never idle again.
LEMMA RequestStays ==
  ASSUME TypeOK, RequestsOK, NEW c \in Cmds, Moves(c), ~Dispatch(c)
  PROVE  req' = req /\ pc[c] # "idle" /\ pc'[c] # "idle"
<1>1. pc \in [Cmds -> PCs]
  BY DEF TypeOK
<1>2. CASE EndContext(c)
  BY <1>1, <1>2 DEF EndContext
<1>3. CASE Lock(c) \/ Return(c) \/ Conclude(c)
  BY <1>1, <1>3 DEF Lock, Return, Conclude, GoTo
<1>4. CASE AnswerFromCache(c) \/ Load(c) \/ LoadInterrupted(c) \/ SaveInterrupted(c)
  BY <1>1, <1>4 DEF AnswerFromCache, Load, LoadInterrupted, SaveInterrupted, Refuse, GoTo
<1>5. CASE Create(c) \/ Save(c)
  BY <1>1, <1>5 DEF Create, Save, Refuse, GoTo
<1>6. CASE Execute(c)
  BY <1>1, <1>6 DEF Execute, Refuse, GoTo
<1>7. CASE Publish(c) \/ PublishFails(c)
  BY <1>1, <1>7 DEF Publish, PublishFails, RequestsOK
<1>8. QED BY <1>2, <1>3, <1>4, <1>5, <1>6, <1>7 DEF Moves, Step

\* The request a command was dispatched with stays as it was.
LEMMA RequestsStep == TypeOK /\ RequestsOK /\ [Next]_vars => RequestsOK'
<1> SUFFICES ASSUME TypeOK, RequestsOK, [Next]_vars
             PROVE  RequestsOK'
  OBVIOUS
<1>1. /\ pc \in [Cmds -> PCs] /\ req \in [Cmds -> RequestType]
      /\ resolved \in [Cmds -> RequirementType] /\ todo \in [Cmds -> Seq(EventType)]
  BY DEF TypeOK
<1> DEFINE OK(d) ==
      /\ pc[d] # "idle" => kind(d) \in KindsOf[d]
      /\ IF kind(d) = "continue"
         THEN req[d].resolution \in Resolutions
         ELSE req[d].id = "" /\ req[d].resolution = NoResolution /\ resolved[d] = NoRequirement
      /\ pc[d] = "idle" => resolved[d] = NoRequirement /\ todo[d] = <<>>
<1>2. ASSUME NEW c \in Cmds, Moves(c) PROVE OK(c)'
  <2>1. CASE Dispatch(c)
    <3>1. PICK k \in KindsOf[c], i \in CommandIDs, s \in Resolutions :
            /\ IF k = "continue" THEN i \in IDsOf[c] ELSE i = "" /\ s = NoResolution
            /\ req' = [req EXCEPT ![c] = [kind |-> k, id |-> i, resolution |-> s]]
            /\ GoTo(c, IF k = "start" THEN "creating" ELSE "locking")
      BY <2>1 DEF Dispatch
    <3>2. /\ req'[c].kind = k /\ req'[c].id = i /\ req'[c].resolution = s
          /\ pc'[c] # "idle"
      BY <1>1, <3>1 DEF GoTo
    <3>3. resolved'[c] = NoRequirement
      BY <2>1 DEF Dispatch, RequestsOK
    <3>4. QED BY <3>1, <3>2, <3>3 DEF kind
  <2>2. CASE ~Dispatch(c)
    <3>1. req' = req /\ pc[c] # "idle" /\ pc'[c] # "idle"
      BY <1>2, <2>2, RequestStays
    <3>2. resolved' = resolved \/ resolved'[c] = Resolved(c, store[run(c)])
      BY <1>1, <1>2, <2>2 DEF Moves, Step, Lock, AnswerFromCache, Load, LoadInterrupted, Create,
         Execute, Save, SaveInterrupted, Publish, PublishFails, Conclude, Return, EndContext
    <3>3. QED BY <3>1, <3>2 DEF RequestsOK, Resolved, kind
  <2>3. QED BY <2>1, <2>2
<1>3. ASSUME NEW c \in Cmds, Moves(c), NEW d \in Cmds, d # c PROVE OK(d)'
  BY <1>3, OthersUndisturbed DEF Undisturbed, RequestsOK, kind
<1>4. CASE \E c \in Cmds : Moves(c)
  BY <1>2, <1>3, <1>4 DEF RequestsOK, kind
<1>5. CASE UNCHANGED vars
  BY <1>5 DEF vars, callVars, RequestsOK, kind
<1>6. QED BY <1>4, <1>5 DEF Next, Quiet, Moves

\* Who is past its save stays past it.
LEMMA PastSaveStays ==
  ASSUME TypeOK, RequestsOK, NEW c \in Cmds, Moves(c), NEW d \in Cmds, PastSave(d)
  PROVE  PastSave(d)'
<1>1. /\ pc \in [Cmds -> PCs] /\ req \in [Cmds -> RequestType]
  BY DEF TypeOK
<1>2. CASE d # c
  BY <1>2, OthersUndisturbed DEF Undisturbed, PastSave, kind
<1>3. CASE d = c
  <2>1. ~Dispatch(c)
    BY <1>3 DEF Dispatch, PastSave
  <2>2. req' = req
    BY <2>1, RequestStays
  <2>3. CASE Execute(c) \/ Save(c) \/ SaveInterrupted(c)
    BY <1>1, <1>3, <2>2, <2>3 DEF Execute, Save, SaveInterrupted, Refuse, GoTo, PastSave, kind
  <2>4. CASE Conclude(c) \/ Return(c)
    BY <1>1, <1>3, <2>4 DEF Conclude, Return, GoTo, PastSave
  <2>5. CASE Publish(c) \/ PublishFails(c) \/ EndContext(c)
    BY <1>1, <1>3, <2>2, <2>5 DEF Publish, PublishFails, EndContext, PastSave, kind
  <2>6. QED
    BY <1>3, <2>1, <2>3, <2>4, <2>5
       DEF Moves, Step, Lock, AnswerFromCache, Load, LoadInterrupted, Create, PastSave
<1>4. QED BY <1>2, <1>3

\* Each write adds its writer to the history, and the writer is past its save then.
LEMMA HistoryStep ==
  TypeOK /\ IInv /\ RequestsOK /\ HistoryOK /\ [Next]_vars => HistoryOK'
<1> SUFFICES ASSUME TypeOK, IInv, RequestsOK, HistoryOK, [Next]_vars
             PROVE  HistoryOK'
  OBVIOUS
<1>1. /\ history \in [Runs -> Seq(Cmds)] /\ store \in [Runs -> StateType]
      /\ pc \in [Cmds -> PCs] /\ req \in [Cmds -> RequestType]
  BY DEF TypeOK
<1>2. ASSUME NEW c \in Cmds, Moves(c), UNCHANGED <<store, history>> PROVE HistoryOK'
  <2> DEFINE Past == {d \in Cmds : PastSave(d)'}
  <2>1. \A d \in Cmds : PastSave(d) => d \in Past
    BY <1>2, PastSaveStays
  <2>2. \A r \in Runs : \A i \in DOMAIN history[r] :
          history[r][i] \in Past /\ run(history[r][i]) = r
    BY <1>1, <2>1 DEF HistoryOK
  <2>3. QED BY <1>2, <2>2 DEF HistoryOK, PastSave, kind, run
<1>3. ASSUME NEW c \in Cmds, NEW st, Moves(c), Commits(c, st), PastSave(c)' PROVE HistoryOK'
  <2> DEFINE old(r) == history[r]
             new(r) == history'[r]
             Past == {d \in Cmds : PastSave(d)'}
  <2>1. /\ run(c) \in Runs
        /\ store'[run(c)].version = store[run(c)].version + 1
        /\ new(run(c)) = Append(old(run(c)), c)
        /\ \A r \in Runs : r # run(c) => store'[r] = store[r] /\ new(r) = old(r)
    BY <1>3, CommitAppends
  <2>2. c \in Past /\ \A d \in Cmds : PastSave(d) => d \in Past
    BY <1>3, PastSaveStays
  <2>3. ASSUME NEW r \in Runs
        PROVE  /\ old(r) \in Seq(Cmds) /\ Len(old(r)) = store[r].version
               /\ \A i \in 1..Len(old(r)) : run(old(r)[i]) = r /\ old(r)[i] \in Past
    BY <1>1, <2>2 DEF HistoryOK
  <2> SUFFICES ASSUME NEW r \in Runs
               PROVE  /\ Len(new(r)) = store'[r].version
                      /\ \A i \in DOMAIN new(r) : run(new(r)[i]) = r /\ new(r)[i] \in Past
    BY DEF HistoryOK, PastSave, kind, run
  <2> HIDE DEF old, new, Past
  <2>4. CASE r # run(c)
    BY <2>1, <2>3, <2>4
  <2>5. CASE r = run(c)
    BY <2>1, <2>2, <2>3, <2>5
  <2>6. QED BY <2>4, <2>5
<1>4. ASSUME NEW c \in Cmds, Moves(c) PROVE HistoryOK'
  <2>1. CASE UNCHANGED <<store, history>>
    BY <1>2, <1>4, <2>1
  <2>2. CASE Create(c) /\ Commits(c, base[c])
    <3>1. kind(c) = "start" /\ pc[c] = "creating"
      BY <2>2 DEF Create, IInv, LockHeld
    <3>2. store'[run(c)] # store[run(c)]
      <4>1. store[run(c)].version \in Nat
        BY <1>1, CommandsAssumption DEF StateType, run
      <4>2. QED BY <2>2, <4>1, CommitAppends
    <3>3. SaveError(base[c]) = ""
      BY <2>2, <3>2 DEF Create
    <3>4. pc'[c] = "executing" /\ req' = req
      BY <1>1, <2>2, <3>3 DEF Create, GoTo
    <3>5. PastSave(c)'
      BY <3>1, <3>4 DEF PastSave, kind
    <3>6. QED BY <1>3, <1>4, <2>2, <3>5
  <2>3. CASE Save(c) /\ Commits(c, final[c])
    <3>1. pc'[c] \in {"publishing", "returning"}
      BY <1>1, <2>3 DEF Save, Refuse, GoTo
    <3>2. PastSave(c)'
      BY <3>1 DEF PastSave
    <3>3. QED BY <1>3, <1>4, <2>3, <3>2
  <2>4. QED BY <1>4, <2>1, <2>2, <2>3, StepsWrite
<1>5. CASE UNCHANGED vars
  BY <1>5 DEF vars, callVars, HistoryOK, PastSave, kind, run
<1>6. QED BY <1>4, <1>5 DEF Next, Quiet, Moves

\* What a command is about to save carries the version it works from.
LEMMA WorkKeepsVersion ==
  ASSUME TypeOK, NEW c \in Cmds, SavesItsWork(c)
  PROVE  final[c].version = base[c].version
<1>1. base[c] \in StateType /\ resolved[c] \in RequirementType
  BY DEF TypeOK
<1>2. CASE Executes(kind(c))
  <2>1. PICK done \in BOOLEAN :
        \E out \in EngineOutcomes(c, base[c], req[c].resolution, resolved[c], done) :
          final[c] = out.state
    BY <1>2 DEF SavesItsWork
  <2>2. PICK out \in EngineOutcomes(c, base[c], req[c].resolution, resolved[c], done) :
          final[c] = out.state
    BY <2>1
  <2>3. out \in OutcomeOf(base[c])
    BY <1>1, EngineTyped
  <2>4. QED BY <2>2, <2>3 DEF OutcomeOf
<1>3. CASE ~Executes(kind(c))
  BY <1>3 DEF SavesItsWork
<1>4. QED BY <1>2, <1>3

\* No command works from a version that is not written yet.
LEMMA BaseIsBehind ==
  ASSUME TypeOK, IInv, PendingEffects, NEW c \in Cmds, pc[c] \in {"executing", "saving"}
  PROVE  base[c].version <= store[run(c)].version
<1>1. CASE pc[c] = "executing"
  BY <1>1 DEF IInv, PendingWritesExtend, Extends
<1>2. CASE pc[c] = "saving"
  <2>1. final[c].version <= store[run(c)].version
    BY <1>2 DEF IInv, PendingWritesExtend, Extends
  <2>2. final[c].version = base[c].version
    BY <1>2, WorkKeepsVersion DEF PendingEffects
  <2>3. QED BY <2>1, <2>2
<1>3. QED BY <1>1, <1>2

\* The work in hand of a command stays what it is while neither it nor its run changes.
LEMMA WorkStays ==
  ASSUME NEW d \in Cmds, PendingEffects, req'[d] = req[d], resolved'[d] = resolved[d],
         base'[d] = base[d], pc'[d] \in {"executing", "saving"} => pc'[d] = pc[d],
         pc'[d] = "saving" => final'[d] = final[d],
         store'[run(d)] = store[run(d)], history'[run(d)] = history[run(d)]
  PROVE  /\ pc'[d] = "executing" => Executes(kind(d)')
         /\ pc'[d] \in {"executing", "saving"} /\ UpToDate(d)' => WorksFromStored(d)'
         /\ pc'[d] = "saving" => SavesItsWork(d)'
<1>1. UpToDate(d)' <=> UpToDate(d)
  BY DEF UpToDate, run
<1>2. WorksFromStored(d) => WorksFromStored(d)'
  BY DEF WorksFromStored, Prepared, Resolved, kind, run
<1>3. pc'[d] = "saving" /\ SavesItsWork(d) => SavesItsWork(d)'
  BY DEF SavesItsWork, kind
<1>4. kind(d)' = kind(d)
  BY DEF kind
<1>5. QED BY <1>1, <1>2, <1>3, <1>4 DEF PendingEffects

\* A write leaves whoever else was at work on the run behind.
LEMMA OthersFallBehind ==
  ASSUME TypeOK, IInv, PendingEffects, NEW c \in Cmds, Moves(c), NEW d \in Cmds, d # c
  PROVE  /\ pc'[d] = "executing" => Executes(kind(d)')
         /\ pc'[d] \in {"executing", "saving"} /\ UpToDate(d)' => WorksFromStored(d)'
         /\ pc'[d] = "saving" => SavesItsWork(d)'
<1>1. Undisturbed(d)
  BY OthersUndisturbed
<1>2. CASE store'[run(d)] = store[run(d)] /\ history'[run(d)] = history[run(d)]
  BY <1>1, <1>2, WorkStays DEF Undisturbed
<1>3. CASE ~(store'[run(d)] = store[run(d)] /\ history'[run(d)] = history[run(d)])
  <2>1. run(d) \in Runs /\ base[d] \in StateType /\ store[run(d)] \in StateType
    BY CommandsAssumption DEF run, TypeOK
  <2>2. store'[run(d)].version = store[run(d)].version + 1
    <3>1. PICK st : Commits(c, st)
      BY <1>3, StepsWrite
    <3>2. run(d) = run(c)
      BY <1>3, <2>1, <3>1, CommitAppends
    <3>3. QED BY <3>1, <3>2, CommitAppends
  <2>3. pc'[d] = pc[d] /\ base'[d] = base[d]
    BY <1>1 DEF Undisturbed
  <2>4. base[d].version \in Nat /\ store[run(d)].version \in Nat
    BY <2>1 DEF StateType
  <2>5. pc[d] \in {"executing", "saving"} => ~UpToDate(d)'
    <3>1. ASSUME pc[d] \in {"executing", "saving"}
          PROVE  base'[d].version # store'[run(d)].version
      BY <2>2, <2>3, <2>4, <3>1, BaseIsBehind
    <3>2. QED BY <3>1 DEF UpToDate, run
  <2>6. SavesItsWork(d) => SavesItsWork(d)'
    BY <1>1 DEF Undisturbed, SavesItsWork, kind
  <2>7. QED BY <1>1, <2>3, <2>5, <2>6 DEF PendingEffects, Undisturbed, kind
<1>4. QED BY <1>2, <1>3

\* Every command works from the stored state until somebody writes the run.
LEMMA EffectsStep ==
  TypeOK /\ IInv /\ WorkInv /\ [Next]_vars => PendingEffects'
<1> SUFFICES ASSUME TypeOK, IInv, WorkInv, [Next]_vars
             PROVE  PendingEffects'
  OBVIOUS
<1> DEFINE OK(d) ==
      /\ pc'[d] = "executing" => Executes(kind(d)')
      /\ pc'[d] \in {"executing", "saving"} /\ UpToDate(d)' => WorksFromStored(d)'
      /\ pc'[d] = "saving" => SavesItsWork(d)'
<1>1. /\ pc \in [Cmds -> PCs] /\ req \in [Cmds -> RequestType]
      /\ base \in [Cmds -> StateType] /\ final \in [Cmds -> StateType]
      /\ store \in [Runs -> StateType] /\ history \in [Runs -> Seq(Cmds)]
      /\ resolved \in [Cmds -> RequirementType]
  BY DEF TypeOK
<1>2. RequestsOK /\ HistoryOK /\ PendingEffects
  BY DEF WorkInv
<1>3. ASSUME NEW c \in Cmds PROVE run(c) \in Runs
  BY CommandsAssumption DEF run
<1>4. ASSUME NEW c \in Cmds, pc'[c] \notin {"executing", "saving"} PROVE OK(c)
  BY <1>4
<1>5. ASSUME NEW c \in Cmds, Load(c) PROVE OK(c)
  <2> DEFINE st == store[run(c)]
  <2>1. kind(c) # "start" /\ req' = req /\ store' = store
    BY <1>5 DEF Load, IInv, LockHeld
  <2>2. CASE LoadError(kind(c), st, req[c].resolution) # ""
    <3>1. pc'[c] = "returning"
      BY <1>1, <1>5, <2>2 DEF Load, Refuse, GoTo
    <3>2. QED BY <1>4, <3>1
  <2>3. CASE LoadError(kind(c), st, req[c].resolution) = ""
    <3>1. /\ base'[c] = Prepared(c, st) /\ final'[c] = base'[c]
          /\ resolved'[c] = Resolved(c, st)
          /\ pc'[c] = IF Executes(kind(c)) THEN "executing" ELSE "saving"
      BY <1>1, <1>5, <2>3 DEF Load, GoTo
    <3>2. WorksFromStored(c)'
      BY <2>1, <2>3, <3>1 DEF WorksFromStored, Prepared, Resolved, kind, run
    <3>3. pc'[c] = "saving" => SavesItsWork(c)'
      BY <2>1, <3>1 DEF SavesItsWork, kind
    <3>4. QED BY <2>1, <3>1, <3>2, <3>3 DEF kind
  <2>4. QED BY <2>2, <2>3
<1>6. ASSUME NEW c \in Cmds, Create(c) PROVE OK(c)
  <2>1. CASE SaveError(base[c]) # ""
    <3>1. pc'[c] = "returning"
      BY <1>1, <1>6, <2>1 DEF Create, Refuse, GoTo
    <3>2. QED BY <1>4, <3>1
  <2>2. CASE SaveError(base[c]) = ""
    <3>1. /\ kind(c) = "start" /\ req' = req /\ base[c] = StartState(c)
          /\ base'[c] = Versioned(base[c]) /\ pc'[c] = "executing"
      BY <1>1, <1>6, <2>2 DEF Create, GoTo, IInv, LockHeld, PendingWritesExtend
    <3>2. Commits(c, base[c])
      <4>1. base[c].id = run(c)
        BY <3>1, StartStateTyped
      <4>2. Written(c, base[c])
        BY <1>6, <2>2 DEF Create
      <4>3. QED BY <1>1, <2>2, <4>1, <4>2, AcceptedCommits
    <3>3. store[run(c)].version = 0
      BY <3>1, <3>2, StartStateTyped DEF Commits
    <3>4. history[run(c)] = <<>>
      <4>1. history[run(c)] \in Seq(Cmds) /\ Len(history[run(c)]) = 0
        BY <1>1, <1>2, <1>3, <3>3 DEF HistoryOK
      <4>2. QED BY <4>1, EmptySeq
    <3>5. store'[run(c)] = base'[c] /\ history'[run(c)] = <<c>>
      BY <3>1, <3>2, <3>4, CommitAppends
    <3>6. WorksFromStored(c)'
      BY <3>1, <3>5 DEF WorksFromStored, kind, run
    <3>7. QED BY <3>1, <3>6 DEF Executes, kind
  <2>3. QED BY <2>1, <2>2
<1>7. ASSUME NEW c \in Cmds, Execute(c) PROVE OK(c)
  <2>1. PICK out \in EngineOutcomes(c, base[c], req[c].resolution, resolved[c], ctxDone[c]) :
          IF ValidEngineOutput(base[c], out.state)
          THEN final' = [final EXCEPT ![c] = out.state] /\ GoTo(c, "saving")
          ELSE Refuse(c, {"contract"}, NoRun(run(c)))
    BY <1>7 DEF Execute
  <2>2. pc[c] = "executing" /\ UNCHANGED <<req, base, resolved, store, history>>
    BY <1>7 DEF Execute
  <2>3. CASE ~ValidEngineOutput(base[c], out.state)
    <3>1. pc'[c] = "returning"
      BY <1>1, <2>1, <2>3 DEF Refuse, GoTo
    <3>2. QED BY <1>4, <3>1
  <2>4. CASE ValidEngineOutput(base[c], out.state)
    <3>1. final'[c] = out.state /\ pc'[c] = "saving"
      BY <1>1, <2>1, <2>4 DEF GoTo
    <3>2. Executes(kind(c)) /\ ctxDone[c] \in BOOLEAN
      BY <1>2, <2>2 DEF PendingEffects, TypeOK
    <3>3. SavesItsWork(c)'
      BY <2>1, <2>2, <2>4, <3>1, <3>2 DEF SavesItsWork, kind
    <3>4. UpToDate(c)' => WorksFromStored(c)'
      BY <1>2, <2>2 DEF PendingEffects, UpToDate, WorksFromStored, Prepared, Resolved, kind, run
    <3>5. QED BY <3>1, <3>3, <3>4
  <2>5. QED BY <2>3, <2>4
<1>8. ASSUME NEW c \in Cmds,
             Publish(c) \/ PublishFails(c) \/ EndContext(c)
      PROVE  OK(c)
  <2>1. UNCHANGED <<req, resolved, base, pc, final, store, history>>
    BY <1>8 DEF Publish, PublishFails, EndContext
  <2>2. QED BY <1>2, <2>1, WorkStays
<1>9. ASSUME NEW c \in Cmds, Moves(c) PROVE OK(c)
  <2>1. CASE Dispatch(c)
    <3>1. pc'[c] \in {"creating", "locking"}
      BY <1>1, <2>1 DEF Dispatch, GoTo
    <3>2. QED BY <1>4, <3>1
  <2>2. CASE Lock(c) \/ Return(c) \/ Conclude(c) \/ AnswerFromCache(c) \/ Save(c)
    <3>1. pc'[c] \in {"loading", "done", "returning", "publishing"}
      BY <1>1, <2>2 DEF Lock, Return, Conclude, AnswerFromCache, Save, Refuse, GoTo
    <3>2. QED BY <1>4, <3>1
  <2>3. CASE LoadInterrupted(c) \/ SaveInterrupted(c)
    <3>1. pc'[c] = "returning"
      BY <1>1, <2>3 DEF LoadInterrupted, SaveInterrupted, Refuse, GoTo
    <3>2. QED BY <1>4, <3>1
  <2>4. QED BY <1>5, <1>6, <1>7, <1>8, <1>9, <2>1, <2>2, <2>3 DEF Moves, Step
<1>10. ASSUME NEW c \in Cmds, Moves(c) PROVE PendingEffects'
  <2>1. \A d \in Cmds : OK(d)
    BY <1>2, <1>9, <1>10, OthersFallBehind
  <2>2. QED BY <2>1 DEF PendingEffects
<1>11. CASE UNCHANGED vars
  <2>1. UNCHANGED <<req, resolved, base, pc, final, store, history>>
    BY <1>11 DEF vars, callVars
  <2>2. \A d \in Cmds : OK(d)
    BY <1>2, <2>1, WorkStays
  <2>3. QED BY <2>2 DEF PendingEffects
<1>12. QED BY <1>10, <1>11 DEF Next, Quiet, Moves

\* The inductive invariant of what is stored.
THEOREM WorkInvariant == Spec => []WorkInv
<1>1. Init => WorkInv
  <2> SUFFICES ASSUME Init PROVE WorkInv
    OBVIOUS
  <2>1. RequestsOK
    BY DEF Init, RequestsOK, kind
  <2>2. HistoryOK
    <3>1. \A r \in Runs : history[r] = <<>> /\ store[r].version = 0
      BY NoRunTyped DEF Init
    <3>2. QED BY <3>1 DEF HistoryOK
  <2>3. PendingEffects
    BY DEF Init, PendingEffects
  <2>4. QED BY <2>1, <2>2, <2>3 DEF WorkInv
<1>2. TypeOK /\ IInv /\ WorkInv /\ [Next]_vars => WorkInv'
  BY RequestsStep, HistoryStep, EffectsStep DEF WorkInv
<1>3. QED BY <1>1, <1>2, TypeCorrect, Invariant, PTL DEF Spec

-----------------------------------------------------------------------------
(***************************************************************************)
(* The rules of AtomicRuns are those of Runner: the instance has its own   *)
(* copies of the operators of CommandRules, which say the same.            *)
(***************************************************************************)

\* The gates, the edits and the stored form of a state.
LEMMA SameEdits ==
  ASSUME NEW c, NEW k, NEW st, NEW s
  PROVE  /\ Atomic!run(c) = run(c)
         /\ Atomic!NoRun(c) = NoRun(c)
         /\ Atomic!StartState(c) = StartState(c)
         /\ Atomic!Resumed(st) = Resumed(st)
         /\ Atomic!Instructed(c, st) = Instructed(c, st)
         /\ Atomic!Cancelled(st) = Cancelled(st)
         /\ Atomic!Stored(st) = Stored(st)
         /\ Atomic!NoRequirement = NoRequirement /\ Atomic!NoResolution = NoResolution
BY DEF run, NoRun, StartState, Resumed, Instructed, Cancelled, Stored, Transition,
       NoRequirement, NoResolution, UserMessage, Answer, AssistantRequires,
       AssistantCalls, Observation, Message, Outcome, Advance, Atomic!run, Atomic!NoRun,
       Atomic!StartState, Atomic!Resumed, Atomic!Instructed, Atomic!Cancelled,
       Atomic!Stored, Atomic!Transition, Atomic!NoRequirement, Atomic!NoResolution,
       Atomic!UserMessage, Atomic!Answer, Atomic!AssistantRequires,
       Atomic!AssistantCalls, Atomic!Observation, Atomic!Message, Atomic!Outcome,
       Atomic!Advance

\* Why a command is refused.
LEMMA SameGates ==
  ASSUME NEW k, NEW st, NEW s
  PROVE  Atomic!GateError(k, st, s) = GateError(k, st, s)
BY DEF GateError, ContinueError, CancelError, InstructionError, ResolutionError,
       Terminated, Terminal, Resolves, ValidResolution, OutcomesOf, NoResolution,
       ValidRequirement, RequirementKinds, RequirementOrigins, SuspensionInvariant,
       Atomic!GateError, Atomic!ContinueError, Atomic!CancelError,
       Atomic!InstructionError, Atomic!ResolutionError, Atomic!Terminated,
       Atomic!Terminal, Atomic!Resolves, Atomic!ValidResolution, Atomic!OutcomesOf,
       Atomic!NoResolution, Atomic!ValidRequirement, Atomic!RequirementKinds,
       Atomic!RequirementOrigins, Atomic!SuspensionInvariant

\* Which states the store accepts.
LEMMA SameValidity ==
  ASSUME NEW st
  PROVE  Atomic!ValidRunState(st) = ValidRunState(st)
BY DEF ValidRunState, KnownStatuses, Statuses, NoRequirement, ValidRequirement,
       RequirementKinds, RequirementOrigins, SuspensionInvariant, Atomic!ValidRunState,
       Atomic!KnownStatuses, Atomic!Statuses, Atomic!NoRequirement,
       Atomic!ValidRequirement, Atomic!RequirementKinds, Atomic!RequirementOrigins,
       Atomic!SuspensionInvariant

\* Which states the runner takes from an engine.
LEMMA SameContract ==
  ASSUME NEW prev, NEW next
  PROVE  Atomic!ValidEngineOutput(prev, next) = ValidEngineOutput(prev, next)
BY DEF ValidEngineOutput, Provenance, AssistantRequired, Additions, SameRequirement,
       Observed, Announced, IsPrefix, NoRequirement, Atomic!ValidEngineOutput,
       Atomic!Provenance, Atomic!AssistantRequired, Atomic!Additions,
       Atomic!SameRequirement, Atomic!Observed, Atomic!Announced, Atomic!IsPrefix,
       Atomic!NoRequirement

\* What the React loop may answer.
LEMMA SameReactOutcomes ==
  ASSUME NEW c, NEW prev, NEW s, NEW q, NEW done
  PROVE  Atomic!ReactOutcomes(c, prev, s, q, done) = ReactOutcomes(c, prev, s, q, done)
BY DEF ReactOutcomes, LoopOutcomes, Ends, Suspends, Answered, Replayed, Raising,
       ReplayRequested, Announced, TransitionOK, CanTransition, AllowedTransitions,
       ValidRequirement, RequirementKinds, RequirementOrigins, SuspensionInvariant,
       NoRequirement, NoResolution, UserMessage, Answer, AssistantRequires,
       AssistantCalls, Observation, Message, Outcome, Advance, Atomic!ReactOutcomes,
       Atomic!LoopOutcomes, Atomic!Ends, Atomic!Suspends, Atomic!Answered,
       Atomic!Replayed, Atomic!Raising, Atomic!ReplayRequested, Atomic!Announced,
       Atomic!TransitionOK, Atomic!CanTransition, Atomic!AllowedTransitions,
       Atomic!ValidRequirement, Atomic!RequirementKinds, Atomic!RequirementOrigins,
       Atomic!SuspensionInvariant, Atomic!NoRequirement, Atomic!NoResolution,
       Atomic!UserMessage, Atomic!Answer, Atomic!AssistantRequires,
       Atomic!AssistantCalls, Atomic!Observation, Atomic!Message, Atomic!Outcome,
       Atomic!Advance

\* What any engine may answer.
LEMMA SameOutcomes ==
  ASSUME NEW c, NEW prev, NEW s, NEW q, NEW done
  PROVE  Atomic!EngineOutcomes(c, prev, s, q, done) = EngineOutcomes(c, prev, s, q, done)
<1>1. Atomic!RogueOutcomes(c, prev) = RogueOutcomes(c, prev)
  BY DEF RogueOutcomes, NoRequirement, NoResolution, UserMessage, Answer,
         AssistantRequires, AssistantCalls, Observation, Message, Outcome, Advance,
         Atomic!RogueOutcomes, Atomic!NoRequirement, Atomic!NoResolution,
         Atomic!UserMessage, Atomic!Answer, Atomic!AssistantRequires,
         Atomic!AssistantCalls, Atomic!Observation, Atomic!Message, Atomic!Outcome,
         Atomic!Advance
<1>2. Atomic!RetryOutcomes(c, prev, done) = RetryOutcomes(c, prev, done)
  BY SameReactOutcomes
     DEF RetryOutcomes, Outcome, NoRequirement, NoResolution,
         Atomic!RetryOutcomes, Atomic!Outcome, Atomic!NoRequirement, Atomic!NoResolution
<1>3. QED BY <1>1, <1>2, SameReactOutcomes DEF EngineOutcomes, Atomic!EngineOutcomes

-----------------------------------------------------------------------------
(***************************************************************************)
(* The refinement.                                                         *)
(***************************************************************************)

\* A commit is a write of the abstract specification.
LEMMA CommitsWrite ==
  ASSUME NEW c, NEW st, Commits(c, st)
  PROVE  /\ Atomic!Writes(c, st)
         /\ history' = [history EXCEPT ![Atomic!run(c)] = Append(@, c)]
<1>1. Versioned(st) = Stored(st)
  BY DEF Versioned, Stored
<1>2. QED BY <1>1, SameEdits, SameValidity DEF Commits, Atomic!Writes

\* So is the write of an answer of the engine.
LEMMA CommitsExecuted ==
  ASSUME NEW c \in Cmds, NEW prev, Commits(c, final[c]), Executes(kind(c)), SavesItsWork(c),
         base[c] = prev
  PROVE  Atomic!Executed(c, prev, req[c].resolution, resolved[c])
<1>1. PICK done \in BOOLEAN :
      \E out \in EngineOutcomes(c, prev, req[c].resolution, resolved[c], done) :
        ValidEngineOutput(prev, out.state) /\ final[c] = out.state
  BY DEF SavesItsWork
<1>2. PICK out \in EngineOutcomes(c, prev, req[c].resolution, resolved[c], done) :
        ValidEngineOutput(prev, out.state) /\ final[c] = out.state
  BY <1>1
<1>3. /\ out \in Atomic!EngineOutcomes(c, prev, req[c].resolution, resolved[c], done)
      /\ Atomic!ValidEngineOutput(prev, out.state)
  BY <1>2, SameOutcomes, SameContract
<1>4. Atomic!Writes(c, out.state)
  BY <1>2, CommitsWrite
<1>5. QED BY <1>3, <1>4 DEF Atomic!Executed

\* The first save of a start creates the run.
LEMMA CreateRefines ==
  ASSUME TypeOK, IInv, WorkInv, NEW c \in Cmds, Create(c), base[c] = StartState(c),
         Commits(c, base[c])
  PROVE  Atomic!Create(c)
<1>1. kind(c) = "start" /\ kind(c) \in KindsOf[c]
  BY DEF Create, IInv, LockHeld, WorkInv, RequestsOK
<1>2. run(c) \in Runs /\ history[run(c)] \in Seq(Cmds)
  BY CommandsAssumption DEF run, TypeOK
<1>3. Len(history[run(c)]) = 0
  BY <1>2, StartStateTyped DEF Commits, WorkInv, HistoryOK
<1>4. history[run(c)] = <<>>
  BY <1>2, <1>3, EmptySeq
<1>5. Atomic!Writes(c, StartState(c))
  BY CommitsWrite
<1>6. QED BY <1>1, <1>4, <1>5, SameEdits DEF Atomic!Create

\* Every other save is the whole effect of its command on what is stored.
LEMMA SaveRefines ==
  ASSUME TypeOK, IInv, WorkInv, NEW c \in Cmds, Save(c), Commits(c, final[c])
  PROVE  \/ Atomic!Start(c) \/ Atomic!Continue(c) \/ Atomic!FollowUp(c)
         \/ Atomic!Cancel(c) \/ Atomic!Steer(c)
<1> DEFINE st == store[run(c)]
           s == req[c].resolution
<1>1. pc[c] = "saving" /\ RequestsOK /\ HistoryOK /\ PendingEffects
  BY DEF Save, WorkInv
<1>2. run(c) \in Runs /\ history[run(c)] \in Seq(Cmds)
  BY CommandsAssumption DEF run, TypeOK
<1>3. SavesItsWork(c) /\ kind(c) \in KindsOf[c] /\ kind(c) \in CommandKinds
  BY <1>1, CommandsAssumption DEF PendingEffects, RequestsOK
<1>4. WorksFromStored(c)
  <2>1. base[c].version = st.version
    BY <1>3, WorkKeepsVersion DEF Commits
  <2>2. QED BY <1>1, <2>1 DEF PendingEffects, UpToDate
<1>5. CASE kind(c) = "start"
  <2>1. base[c] = st /\ history[run(c)] = <<c>>
    BY <1>4, <1>5 DEF WorksFromStored
  <2>2. s = NoResolution /\ resolved[c] = NoRequirement
    BY <1>1, <1>5 DEF RequestsOK
  <2>3. Atomic!Executed(c, st, s, resolved[c])
    BY <1>3, <1>5, <2>1, CommitsExecuted DEF Executes
  <2>4. Atomic!Start(c)
    BY <1>3, <1>5, <2>1, <2>2, <2>3, SameEdits DEF Atomic!Start
  <2>5. QED BY <2>4
<1>6. CASE kind(c) # "start"
  <2>1. /\ LoadError(kind(c), st, s) = "" /\ base[c] = Prepared(c, st)
        /\ resolved[c] = Resolved(c, st)
    BY <1>4, <1>6 DEF WorksFromStored
  <2>2. GateError(kind(c), st, s) = "" /\ st.version # 0
    <3>1. st.version # 0
      BY <2>1, LoadedIsOpen
    <3>2. QED BY <2>1, <3>1 DEF LoadError
  <2>3. history[run(c)] # <<>> /\ c \notin ToSet(history[run(c)])
    <3>1. Len(history[run(c)]) # 0
      BY <1>1, <1>2, <2>2 DEF HistoryOK
    <3>2. ~PastSave(c)
      BY <1>1, <1>6 DEF PastSave
    <3>3. \A i \in DOMAIN history[run(c)] : history[run(c)][i] # c
      BY <1>1, <1>2, <3>2 DEF HistoryOK
    <3>4. QED BY <3>1, <3>3 DEF ToSet
  <2>4. Atomic!Admitted(c, kind(c), s)
    <3>1. ToSet(history[run(c)]) = Atomic!ToSet(history[run(c)])
      BY DEF ToSet, Atomic!ToSet
    <3>2. QED BY <1>3, <2>2, <2>3, <3>1, SameEdits, SameGates DEF Atomic!Admitted
  <2>5. kind(c) # "continue" => s = NoResolution /\ resolved[c] = NoRequirement
    BY <1>1 DEF RequestsOK
  <2>6. CASE kind(c) = "continue"
    <3>1. s \in Resolutions
      BY <1>1, <2>6 DEF RequestsOK
    <3>2. base[c] = Resumed(st) /\ resolved[c] = st.requirement
      BY <2>1, <2>6 DEF Prepared, Resolved
    <3>3. Atomic!Executed(c, Resumed(st), s, st.requirement)
      BY <1>3, <2>6, <3>2, CommitsExecuted DEF Executes
    <3>4. QED BY <2>4, <2>6, <3>1, <3>3, SameEdits DEF Atomic!Continue
  <2>7. CASE kind(c) = "follow_up"
    <3>1. base[c] = Instructed(c, st)
      BY <2>1, <2>7 DEF Prepared
    <3>2. Atomic!Executed(c, Instructed(c, st), s, resolved[c])
      BY <1>3, <2>7, <3>1, CommitsExecuted DEF Executes
    <3>3. QED BY <2>4, <2>5, <2>7, <3>2, SameEdits DEF Atomic!FollowUp
  <2>8. CASE kind(c) \in {"cancel", "steer"}
    <3>1. final[c] = Prepared(c, st)
      BY <1>3, <2>1, <2>8 DEF SavesItsWork, Executes
    <3>2. Atomic!Writes(c, Prepared(c, st))
      BY <3>1, CommitsWrite
    <3>3. CASE kind(c) = "cancel"
      BY <2>4, <2>5, <3>2, <3>3, SameEdits DEF Prepared, Atomic!Cancel
    <3>4. CASE kind(c) = "steer"
      BY <2>4, <2>5, <3>2, <3>4, SameEdits DEF Prepared, Atomic!Steer
    <3>5. QED BY <2>8, <3>3, <3>4
  <2>9. QED BY <1>3, <1>6, <2>6, <2>7, <2>8 DEF CommandKinds
<1>7. QED BY <1>5, <1>6

\* Dispatch is linearizable in what it stores: whichever commands are in flight, the
\* sequence of stored states is one that commands which take effect one at a time
\* could have produced.
THEOREM RunnerIsAtomic == Spec => RunsAreAtomic
<1>1. Init => Atomic!Init
  BY SameEdits DEF Init, Atomic!Init
<1>2. TypeOK /\ IInv /\ WorkInv /\ [Next]_vars => [Atomic!Next]_<<store, history>>
  <2> SUFFICES ASSUME TypeOK, IInv, WorkInv, [Next]_vars
               PROVE  [Atomic!Next]_<<store, history>>
    OBVIOUS
  <2>1. ASSUME NEW c \in Cmds, Moves(c) PROVE [Atomic!Next]_<<store, history>>
    <3>1. CASE UNCHANGED <<store, history>>
      BY <3>1
    <3>2. CASE Create(c) /\ base[c] = StartState(c) /\ Commits(c, base[c])
      BY <3>2, CreateRefines, CommitsWrite DEF Atomic!Next
    <3>3. CASE Save(c) /\ Commits(c, final[c])
      BY <3>3, SaveRefines, CommitsWrite DEF Atomic!Next
    <3>4. QED BY <2>1, <3>1, <3>2, <3>3, StepsWrite
  <2>2. CASE UNCHANGED vars
    BY <2>2 DEF vars
  <2>3. QED BY <2>1, <2>2 DEF Next, Quiet, Moves
<1>3. QED
  BY <1>1, <1>2, TypeCorrect, Invariant, WorkInvariant, PTL
     DEF Spec, RunsAreAtomic, Atomic!Spec

-----------------------------------------------------------------------------
(***************************************************************************)
(* The runs' mutexes.                                                      *)
(***************************************************************************)

\* Whoever has a mutex has that of its own run, and still has to give it back.
LocksAreOwned ==
  \A r \in Runs : lock[r] # Free => run(lock[r]) = r /\ pc[lock[r]] \in Holding

\* c asks for its mutex.
Asks(c) == pc[c] = "idle" /\ lock' = lock /\ pc' = [pc EXCEPT ![c] = "locking"]

\* c goes on with the mutex it has, if it has one.
GoesOn(c) ==
  /\ lock' = lock
  /\ pc[c] # "locking"
  /\ \E l \in PCs \ {"locking"} :
       pc' = [pc EXCEPT ![c] = l] /\ (pc[c] \in Holding => l \in Holding)

\* What a step of a command is to the mutexes.
LEMMA MutexSteps ==
  ASSUME TypeOK, NEW c \in Cmds, Moves(c)
  PROVE  Asks(c) \/ Lock(c) \/ Return(c) \/ GoesOn(c) \/ UNCHANGED <<lock, pc>>
<1>1. pc \in [Cmds -> PCs]
  BY DEF TypeOK
<1>2. CASE Dispatch(c)
  <2>1. /\ pc[c] = "idle" /\ lock' = lock
        /\ \/ pc' = [pc EXCEPT ![c] = "creating"]
           \/ pc' = [pc EXCEPT ![c] = "locking"]
    BY <1>2 DEF Dispatch, GoTo
  <2>2. QED BY <2>1 DEF Asks, GoesOn, Holding, PCs
<1>3. ASSUME NEW l \in Holding, lock' = lock, pc' = [pc EXCEPT ![c] = l], pc[c] # "locking"
      PROVE  GoesOn(c)
  <2>1. l \in PCs \ {"locking"}
    BY <1>3 DEF Holding, PCs
  <2>2. QED BY <1>3, <2>1 DEF GoesOn
<1>4. ASSUME lock' = lock, pc' = [pc EXCEPT ![c] = "executing"]
                           \/ pc' = [pc EXCEPT ![c] = "saving"]
                           \/ pc' = [pc EXCEPT ![c] = "publishing"]
                           \/ pc' = [pc EXCEPT ![c] = "returning"],
             pc[c] # "locking"
      PROVE  GoesOn(c)
  BY <1>3, <1>4 DEF Holding
<1>5. CASE AnswerFromCache(c) \/ LoadInterrupted(c) \/ SaveInterrupted(c) \/ Conclude(c)
  BY <1>4, <1>5 DEF AnswerFromCache, LoadInterrupted, SaveInterrupted, Conclude, Refuse, GoTo
<1>6. CASE Load(c)
  <2>1. /\ lock' = lock /\ pc[c] # "locking"
        /\ \/ pc' = [pc EXCEPT ![c] = "executing"]
           \/ pc' = [pc EXCEPT ![c] = "saving"]
           \/ pc' = [pc EXCEPT ![c] = "returning"]
    BY <1>6 DEF Load, Refuse, GoTo
  <2>2. QED BY <1>4, <2>1
<1>7. CASE Create(c) \/ Execute(c) \/ Save(c)
  <2>1. /\ lock' = lock /\ pc[c] # "locking"
        /\ \/ pc' = [pc EXCEPT ![c] = "executing"]
           \/ pc' = [pc EXCEPT ![c] = "saving"]
           \/ pc' = [pc EXCEPT ![c] = "publishing"]
           \/ pc' = [pc EXCEPT ![c] = "returning"]
    BY <1>7 DEF Create, Execute, Save, Refuse, GoTo
  <2>2. QED BY <1>4, <2>1
<1>8. CASE Publish(c) \/ PublishFails(c) \/ EndContext(c)
  BY <1>8 DEF Publish, PublishFails, EndContext
<1>9. QED BY <1>2, <1>5, <1>6, <1>7, <1>8 DEF Moves, Step

\* Only the command that has a mutex gives it back.
LEMMA OwnedStep == TypeOK /\ LockHeld /\ LocksAreOwned /\ [Next]_vars => LocksAreOwned'
<1> SUFFICES ASSUME TypeOK, LockHeld, LocksAreOwned, [Next]_vars PROVE LocksAreOwned'
  OBVIOUS
<1> DEFINE Owned(r) == lock'[r] # Free => run(lock'[r]) = r /\ pc'[lock'[r]] \in Holding
<1>1. /\ pc \in [Cmds -> PCs] /\ lock \in [Runs -> Cmds \cup {Free}] /\ Free \notin Cmds
      /\ \A d \in Cmds : run(d) \in Runs
  BY CallsAssumption, CommandsAssumption DEF TypeOK, run
<1>2. \A r \in Runs : lock[r] # Free =>
        lock[r] \in Cmds /\ run(lock[r]) = r /\ pc[lock[r]] \in Holding
  BY <1>1 DEF LocksAreOwned
<1>3. ASSUME UNCHANGED <<lock, pc>> PROVE \A r \in Runs : Owned(r)
  BY <1>2, <1>3
<1>4. ASSUME NEW c \in Cmds, NEW l, pc' = [pc EXCEPT ![c] = l], lock' = lock,
             pc[c] \in Holding => l \in Holding
      PROVE  \A r \in Runs : Owned(r)
  BY <1>1, <1>2, <1>4
<1>5. ASSUME NEW c \in Cmds, Lock(c) PROVE \A r \in Runs : Owned(r)
  <2>1. lock' = [lock EXCEPT ![run(c)] = c] /\ pc' = [pc EXCEPT ![c] = "loading"]
    BY <1>5 DEF Lock, GoTo
  <2>2. QED BY <1>1, <1>2, <2>1 DEF Holding
<1>6. ASSUME NEW c \in Cmds, Return(c) PROVE \A r \in Runs : Owned(r)
  <2>1. /\ pc' = [pc EXCEPT ![c] = "done"]
        /\ lock' = IF lock[run(c)] = c THEN [lock EXCEPT ![run(c)] = Free] ELSE lock
    BY <1>6 DEF Return, Released, GoTo
  <2>2. \A r \in Runs : lock'[r] # Free => lock'[r] = lock[r] /\ lock[r] # c
    BY <1>1, <1>2, <2>1
  <2>3. QED BY <1>1, <1>2, <2>1, <2>2
<1>7. ASSUME NEW c \in Cmds, Moves(c) PROVE \A r \in Runs : Owned(r)
  <2>1. CASE Asks(c)
    BY <1>4, <2>1 DEF Asks, Holding
  <2>2. CASE GoesOn(c)
    BY <1>4, <2>2 DEF GoesOn
  <2>3. QED BY <1>3, <1>5, <1>6, <1>7, <2>1, <2>2, MutexSteps
<1>8. \A r \in Runs : Owned(r)
  <2>1. CASE UNCHANGED vars
    BY <1>3, <2>1 DEF vars, callVars
  <2>2. QED BY <1>7, <2>1 DEF Next, Quiet, Moves
<1>9. QED BY <1>8 DEF LocksAreOwned, run

\* What a step of a command is to the abstract mutexes.
LEMMA MutexRefines ==
  ASSUME TypeOK, LocksAreOwned, NEW c \in Cmds, Moves(c)
  PROVE  [Mutex!Next]_<<Waiting, lock>>
<1>1. /\ pc \in [Cmds -> PCs] /\ lock \in [Runs -> Cmds \cup {Free}] /\ Free \notin Cmds
      /\ run(c) \in Runs
  BY CallsAssumption, CommandsAssumption DEF TypeOK, run
<1>2. \A r \in Runs : lock[r] # Free => run(lock[r]) = r /\ pc[lock[r]] \in Holding
  BY DEF LocksAreOwned
<1>3. CASE Asks(c)
  <2>1. pc[c] = "idle" /\ lock' = lock /\ pc' = [pc EXCEPT ![c] = "locking"]
    BY <1>3 DEF Asks
  <2>2. \A q \in Runs : c \notin Waiting[q] /\ lock[q] # c
    BY <1>1, <1>2, <2>1 DEF Waiting, Holding
  <2>3. Waiting' = [Waiting EXCEPT ![run(c)] = @ \cup {c}]
    BY <1>1, <2>1 DEF Waiting, run
  <2>4. Mutex!Request(c, run(c))
    BY <2>1, <2>2, <2>3 DEF Mutex!Request
  <2>5. QED BY <1>1, <2>4 DEF Mutex!Next
<1>4. CASE Lock(c)
  <2>1. /\ pc[c] = "locking" /\ lock[run(c)] = Free
        /\ lock' = [lock EXCEPT ![run(c)] = c] /\ pc' = [pc EXCEPT ![c] = "loading"]
    BY <1>4 DEF Lock, GoTo
  <2>2. c \in Waiting[run(c)]
    BY <1>1, <2>1 DEF Waiting
  <2>3. Waiting' = [Waiting EXCEPT ![run(c)] = @ \ {c}]
    BY <1>1, <2>1 DEF Waiting, run
  <2>4. Mutex!Acquire(c, run(c))
    BY <2>1, <2>2, <2>3 DEF Mutex!Acquire
  <2>5. QED BY <1>1, <2>4 DEF Mutex!Next
<1>5. ASSUME NEW l, pc' = [pc EXCEPT ![c] = l], pc[c] # "locking", l # "locking"
      PROVE  Waiting' = Waiting
  <2>1. \A d \in Cmds : pc'[d] = "locking" <=> pc[d] = "locking"
    BY <1>1, <1>5
  <2>2. QED BY <2>1 DEF Waiting, run
<1>6. CASE Return(c)
  <2>1. /\ pc[c] = "returning" /\ pc' = [pc EXCEPT ![c] = "done"]
        /\ lock' = IF lock[run(c)] = c THEN [lock EXCEPT ![run(c)] = Free] ELSE lock
    BY <1>6 DEF Return, Released, GoTo
  <2>2. Waiting' = Waiting
    BY <1>5, <2>1
  <2>3. CASE lock[run(c)] # c
    BY <2>1, <2>2, <2>3
  <2>4. CASE lock[run(c)] = c
    <3>1. Mutex!Release(c, run(c))
      BY <2>1, <2>2, <2>4 DEF Mutex!Release
    <3>2. QED BY <1>1, <3>1 DEF Mutex!Next
  <2>5. QED BY <2>3, <2>4
<1>7. CASE GoesOn(c)
  <2>1. lock' = lock /\ Waiting' = Waiting
    BY <1>5, <1>7 DEF GoesOn
  <2>2. QED BY <2>1
<1>8. CASE UNCHANGED <<lock, pc>>
  BY <1>8 DEF Waiting, run
<1>9. QED BY <1>3, <1>4, <1>6, <1>7, <1>8, MutexSteps

\* The mutexes inside Dispatch are the abstract ones: whatever else a command does, and
\* however it fails, it asks for its run's mutex, gets it and gives it back as the
\* specification that runCommandLocks implements says.
THEOREM LocksAreAMutex == Spec => LocksAreMutex
<1>1. Init => LocksAreOwned
  BY DEF Init, LocksAreOwned
<1>2. Spec => []LocksAreOwned
  <2>1. IInv => LockHeld
    BY DEF IInv
  <2>2. QED BY <1>1, <2>1, OwnedStep, TypeCorrect, Invariant, PTL DEF Spec
<1>3. Init => Mutex!Init
  BY DEF Init, Mutex!Init, Waiting
<1>4. TypeOK /\ LocksAreOwned /\ [Next]_vars => [Mutex!Next]_<<Waiting, lock>>
  <2> SUFFICES ASSUME TypeOK, LocksAreOwned, [Next]_vars
               PROVE  [Mutex!Next]_<<Waiting, lock>>
    OBVIOUS
  <2>1. CASE UNCHANGED vars
    BY <2>1 DEF vars, callVars, Waiting, run
  <2>2. QED BY <2>1, MutexRefines DEF Next, Quiet, Moves
<1>5. QED
  BY <1>2, <1>3, <1>4, TypeCorrect, PTL
     DEF Spec, LocksAreMutex, Mutex!Spec, Mutex!mutexVars
=============================================================================
