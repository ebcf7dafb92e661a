---------------------------- MODULE ResultProofs ----------------------------
(***************************************************************************)
(* What Dispatch answers, remembers, announces and replays, for any        *)
(* commands, runs and engines: the proof of ResultInv, and from it the     *)
(* safety properties of Runner that relate an answer to what is stored.    *)
(***************************************************************************)
EXTENDS RunnerProofs

-----------------------------------------------------------------------------
(***************************************************************************)
(* What a step keeps of the past.                                          *)
(***************************************************************************)

\* A dispatched command keeps its request.
LEMMA AskedStays ==
  ASSUME TypeOK, RequestsOK, NEW c \in Cmds, Moves(c), NEW d \in Cmds, pc[d] # "idle"
  PROVE  req'[d] = req[d] /\ pc'[d] # "idle"
<1>1. CASE d # c
  BY <1>1, OthersUndisturbed DEF Undisturbed
<1>2. CASE d = c
  <2>1. ~Dispatch(c)
    BY <1>2 DEF Dispatch
  <2>2. QED BY <1>2, <2>1, RequestStays
<1>3. QED BY <1>1, <1>2

\* The history of a run keeps its entries; a new one is the command that moves, and
\* goes with a new version.
LEMMA HistoryGrows ==
  ASSUME TypeOK, IInv, HistoryOK, NEW c \in Cmds, Moves(c), NEW r \in Runs
  PROVE  /\ store[r].version \in Nat
         /\ DOMAIN history[r] = 1..store[r].version
         /\ DOMAIN history'[r] = 1..store'[r].version
         /\ \A i \in DOMAIN history[r] :
              i \in DOMAIN history'[r] /\ history'[r][i] = history[r][i]
         /\ \A i \in DOMAIN history'[r] : i \in DOMAIN history[r] \/ history'[r][i] = c
         /\ store'[r] = store[r] \/ store'[r].version = store[r].version + 1
<1>1. /\ history[r] \in Seq(Cmds) /\ store[r].version \in Nat
      /\ Len(history[r]) = store[r].version
  BY DEF TypeOK, StateType, HistoryOK
<1>2. CASE store'[r] = store[r] /\ history'[r] = history[r]
  BY <1>1, <1>2
<1>3. CASE ~(store'[r] = store[r] /\ history'[r] = history[r])
  <2>1. PICK st : Commits(c, st)
    BY <1>3, StepsWrite
  <2>2. r = run(c)
    BY <1>3, <2>1, CommitAppends
  <2>3. store'[r].version = store[r].version + 1 /\ history'[r] = Append(history[r], c)
    BY <2>1, <2>2, CommitAppends
  <2> DEFINE old == history[r]
             new == history'[r]
             v == store[r].version
             w == store'[r].version
  <2>4. old \in Seq(Cmds) /\ v \in Nat /\ Len(old) = v /\ w = v + 1 /\ new = Append(old, c)
    BY <1>1, <2>3
  <2> HIDE DEF old, new, v, w
  <2>5. /\ DOMAIN old = 1..v /\ DOMAIN new = 1..w
        /\ \A i \in DOMAIN old : i \in DOMAIN new /\ new[i] = old[i]
        /\ \A i \in DOMAIN new : i \in DOMAIN old \/ new[i] = c
    BY <2>4
  <2>6. QED BY <2>4, <2>5 DEF old, new, v, w
<1>4. QED BY <1>2, <1>3

\* Who wrote is past its save, and was dispatched.
LEMMA PersistedIsPast ==
  ASSUME HistoryOK, NEW c \in Cmds, Persisted(c)
  PROVE  PastSave(c) /\ pc[c] # "idle"
<1>1. run(c) \in Runs
  BY CommandsAssumption DEF run
<1>2. PastSave(c)
  BY <1>1 DEF Persisted, HistoryOK
<1>3. QED BY <1>2 DEF PastSave

\* What was written stays written, and only the command that moves adds to it.
LEMMA PersistedStep ==
  ASSUME TypeOK, IInv, HistoryOK, NEW c \in Cmds, Moves(c), NEW d \in Cmds
  PROVE  /\ Persisted(d) => Persisted(d)'
         /\ Persisted(d)' /\ d # c => Persisted(d)
<1>1. run(d) \in Runs
  BY CommandsAssumption DEF run
<1>2. \A i \in DOMAIN history[run(d)] :
        i \in DOMAIN history'[run(d)] /\ history'[run(d)][i] = history[run(d)][i]
  BY <1>1, HistoryGrows
<1>3. \A i \in DOMAIN history'[run(d)] :
        i \in DOMAIN history[run(d)] \/ history'[run(d)][i] = c
  BY <1>1, HistoryGrows
<1>4. QED BY <1>2, <1>3 DEF Persisted, run

\* So does each version.
LEMMA WrittenStays ==
  ASSUME TypeOK, IInv, HistoryOK, NEW c \in Cmds, Moves(c), NEW d \in Cmds, NEW st,
         WrittenBy(d, st)
  PROVE  /\ st.version \in DOMAIN history'[run(d)]
         /\ history'[run(d)][st.version] = d
         /\ st.version = store'[run(d)].version => st = store'[run(d)]
<1>1. run(d) \in Runs
  BY CommandsAssumption DEF run
<1>2. /\ store[run(d)].version \in Nat
      /\ DOMAIN history[run(d)] = 1..store[run(d)].version
      /\ store'[run(d)] = store[run(d)] \/ store'[run(d)].version = store[run(d)].version + 1
  BY <1>1, HistoryGrows
<1>3. /\ st.version \in DOMAIN history[run(d)] /\ history[run(d)][st.version] = d
      /\ st.version = store[run(d)].version => st = store[run(d)]
  BY DEF WrittenBy
<1>4. st.version \in DOMAIN history'[run(d)] /\ history'[run(d)][st.version] = d
  BY <1>1, <1>3, HistoryGrows
<1>5. store'[run(d)].version = store[run(d)].version + 1 => st.version # store'[run(d)].version
  BY <1>2, <1>3
<1>6. QED BY <1>2, <1>3, <1>4, <1>5

\* A version that is written is no later than the stored one, and its writer was
\* dispatched.
LEMMA WrittenIsPast ==
  ASSUME TypeOK, HistoryOK, NEW d \in Cmds, NEW st, WrittenBy(d, st)
  PROVE  /\ Persisted(d) /\ PastSave(d) /\ pc[d] # "idle"
         /\ st.version \in Nat /\ st.version # 0
         /\ st.version <= store[run(d)].version
<1>1. run(d) \in Runs
  BY CommandsAssumption DEF run
<1>2. /\ history[run(d)] \in Seq(Cmds) /\ store[run(d)].version \in Nat
      /\ Len(history[run(d)]) = store[run(d)].version
  BY <1>1 DEF TypeOK, StateType, HistoryOK
<1>3. st.version \in DOMAIN history[run(d)] /\ history[run(d)][st.version] = d
  BY DEF WrittenBy
<1>4. Persisted(d)
  BY <1>3 DEF Persisted
<1>5. st.version \in Nat /\ st.version # 0 /\ st.version <= store[run(d)].version
  BY <1>2, <1>3
<1>6. QED BY <1>4, <1>5, PersistedIsPast

-----------------------------------------------------------------------------
(***************************************************************************)
(* Answers.                                                                *)
(***************************************************************************)

\* No error that refuses a command is one that an applied command may return.
LEMMA RefusalsTell ==
  ASSUME NEW k, NEW st, NEW s
  PROVE  /\ LoadError(k, st, s) \notin {"engine", "event"}
         /\ \A e \in {"invalid", "version_conflict"} : e \in SaveErrors(k, e)
         /\ SaveError(st) \in {"", "invalid", "version_conflict"}
<1>1. LoadError(k, st, s) \notin {"engine", "event"}
  BY DEF LoadError, GateError, ContinueError, CancelError, InstructionError, ResolutionError
<1>2. \A e \in {"invalid", "version_conflict"} : e \in SaveErrors(k, e)
  BY DEF SaveErrors
<1>3. QED BY <1>1, <1>2, ErrorsTyped

\* A command reaches its answer by concluding, from the cache, or with an error that
\* tells it was not applied.
LEMMA AnswerArrives ==
  ASSUME TypeOK, RequestsOK, NEW c \in Cmds, Moves(c),
         pc'[c] \in {"returning", "done"}, errs'[c] \subseteq {"engine", "event"}
  PROVE  \/ Conclude(c) /\ final'[c] = final[c]
         \/ AnswerFromCache(c) /\ final'[c] = outcomes[Key(c)].state
         \/ /\ pc[c] \in {"returning", "done"} /\ errs[c] \subseteq {"engine", "event"}
            /\ final'[c] = final[c]
<1>1. /\ pc \in [Cmds -> PCs] /\ final \in [Cmds -> StateType]
      /\ errs \in [Cmds -> SUBSET Errors]
  BY DEF TypeOK
<1>2. ASSUME NEW e, NEW st, Refuse(c, e, st) PROVE e \subseteq {"engine", "event"}
  <2>1. errs'[c] = errs[c] \cup e
    BY <1>1, <1>2 DEF Refuse
  <2>2. QED BY <2>1
<1>3. CASE Dispatch(c) \/ Lock(c) \/ EndContext(c)
  <2>1. pc'[c] \in {"creating", "locking", "loading", "executing"}
    BY <1>1, <1>3 DEF Dispatch, Lock, EndContext, GoTo
  <2>2. QED BY <2>1
<1>4. CASE AnswerFromCache(c)
  BY <1>1, <1>4 DEF AnswerFromCache
<1>5. CASE Load(c)
  <2> DEFINE e == LoadError(kind(c), store[run(c)], req[c].resolution)
  <2>1. CASE e # ""
    <3>1. {e} \subseteq {"engine", "event"}
      BY <1>2, <1>5, <2>1 DEF Load
    <3>2. QED BY <3>1, RefusalsTell
  <2>2. CASE e = ""
    <3>1. pc'[c] \in {"executing", "saving"}
      BY <1>1, <1>5, <2>2 DEF Load, GoTo
    <3>2. QED BY <3>1
  <2>3. QED BY <2>1, <2>2
<1>6. CASE LoadInterrupted(c) \/ SaveInterrupted(c)
  <2>1. {"context"} \subseteq {"engine", "event"}
    BY <1>2, <1>6 DEF LoadInterrupted, SaveInterrupted
  <2>2. QED BY <2>1
<1>7. CASE Create(c) \/ Save(c)
  <2>1. PICK st, k :
          \/ SaveError(st) # "" /\ Refuse(c, SaveErrors(k, SaveError(st)), NoRun(run(c)))
          \/ GoTo(c, "executing")
          \/ GoTo(c, "publishing")
    BY <1>7 DEF Create, Save
  <2>2. CASE SaveError(st) # "" /\ Refuse(c, SaveErrors(k, SaveError(st)), NoRun(run(c)))
    <3>1. SaveErrors(k, SaveError(st)) \subseteq {"engine", "event"}
      BY <1>2, <2>2
    <3>2. QED BY <2>2, <3>1, RefusalsTell
  <2>3. CASE GoTo(c, "executing") \/ GoTo(c, "publishing")
    BY <1>1, <2>3 DEF GoTo
  <2>4. QED BY <2>1, <2>2, <2>3
<1>8. CASE Execute(c)
  <2>1. GoTo(c, "saving") \/ Refuse(c, {"contract"}, NoRun(run(c)))
    BY <1>8 DEF Execute
  <2>2. CASE Refuse(c, {"contract"}, NoRun(run(c)))
    <3>1. {"contract"} \subseteq {"engine", "event"}
      BY <1>2, <2>2
    <3>2. QED BY <3>1
  <2>3. CASE GoTo(c, "saving")
    BY <1>1, <2>3 DEF GoTo
  <2>4. QED BY <2>1, <2>2, <2>3
<1>9. CASE Publish(c) \/ PublishFails(c)
  BY <1>1, <1>9 DEF Publish, PublishFails
<1>10. CASE Conclude(c) \/ Return(c)
  BY <1>1, <1>10 DEF Conclude, Return
<1>11. QED BY <1>3, <1>4, <1>5, <1>6, <1>7, <1>8, <1>9, <1>10 DEF Moves, Step

\* Who publishes has just written what it will return.
LEMMA PublisherArrives ==
  ASSUME TypeOK, IInv, WorkInv, NEW c \in Cmds, Moves(c), pc'[c] = "publishing"
  PROVE  \/ pc[c] = "publishing" /\ final'[c] = final[c]
         \/ /\ Save(c) /\ Commits(c, final[c])
            /\ final'[c] = store'[run(c)]
            /\ final'[c].version \in DOMAIN history'[run(c)]
            /\ history'[run(c)][final'[c].version] = c
<1>1. /\ pc \in [Cmds -> PCs] /\ final \in [Cmds -> StateType]
  BY DEF TypeOK
<1>2. CASE Save(c)
  <2>1. SaveError(final[c]) = ""
    BY <1>1, <1>2 DEF Save, Refuse, GoTo
  <2>2. final'[c] = Versioned(final[c]) /\ Written(c, final[c])
    BY <1>1, <1>2, <2>1 DEF Save
  <2>3. final[c].id = run(c)
    BY <1>2, CommandsAssumption DEF Save, IInv, PendingWritesExtend, Extends, StoreOK, run
  <2>4. Commits(c, final[c])
    BY <1>1, <2>1, <2>2, <2>3, AcceptedCommits
  <2>5. /\ run(c) \in Runs /\ store'[run(c)] = final'[c]
        /\ store'[run(c)].version = store[run(c)].version + 1
        /\ history'[run(c)] = Append(history[run(c)], c)
    BY <2>2, <2>4, CommitAppends
  <2>6. /\ history[run(c)] \in Seq(Cmds) /\ store[run(c)].version \in Nat
        /\ Len(history[run(c)]) = store[run(c)].version
    BY <2>5 DEF TypeOK, StateType, WorkInv, HistoryOK
  <2> DEFINE h == history[run(c)]
             v == store[run(c)].version
  <2>7. h \in Seq(Cmds) /\ v \in Nat /\ Len(h) = v
    BY <2>6
  <2> HIDE DEF h, v
  <2>8. v + 1 \in DOMAIN Append(h, c) /\ Append(h, c)[v + 1] = c
    BY <2>7
  <2>9. QED BY <1>2, <2>4, <2>5, <2>8 DEF h, v
<1>3. CASE Publish(c) \/ PublishFails(c)
  BY <1>1, <1>3 DEF Publish, PublishFails
<1>4. CASE ~Save(c) /\ ~Publish(c) /\ ~PublishFails(c)
  <2>1. pc'[c] # "publishing"
    <3>1. CASE Execute(c)
      BY <1>1, <3>1 DEF Execute, Refuse, GoTo
    <3>2. CASE Load(c) \/ Create(c)
      BY <1>1, <3>2 DEF Load, Create, Refuse, GoTo
    <3>3. CASE ~Execute(c) /\ ~Load(c) /\ ~Create(c)
      BY <1>1, <1>4, <3>3
         DEF Moves, Step, Dispatch, Lock, AnswerFromCache, LoadInterrupted, SaveInterrupted,
             Conclude, Return, EndContext, Refuse, GoTo
    <3>4. QED BY <3>1, <3>2, <3>3
  <2>2. QED BY <2>1
<1>5. QED BY <1>2, <1>3, <1>4

\* A key is remembered when its command concludes, and then for good.
LEMMA CacheGrows ==
  ASSUME TypeOK, NEW c \in Cmds, Moves(c), NEW k \in Runs \X CommandIDs
  PROVE  \/ outcomes'[k] = outcomes[k]
         \/ /\ Conclude(c) /\ HasKey(c) /\ Key(c) = k
            /\ outcomes'[k] = [known |-> TRUE, by |-> c, state |-> final[c], errs |-> errs[c]]
<1>1. outcomes \in [Runs \X CommandIDs -> OutcomeType]
  BY DEF TypeOK
<1>2. CASE Conclude(c)
  BY <1>1, <1>2 DEF Conclude, Remembers
<1>3. CASE ~Conclude(c)
  BY <1>3 DEF Moves, Step, Dispatch, Lock, AnswerFromCache, Load, LoadInterrupted, Create,
     Execute, Save, SaveInterrupted, Publish, PublishFails, Return, EndContext
<1>4. QED BY <1>2, <1>3

\* A continue's key is one of the cache's.
LEMMA KeysTyped ==
  ASSUME TypeOK, NEW c \in Cmds, HasKey(c)
  PROVE  Key(c) \in Runs \X CommandIDs
BY CommandsAssumption DEF TypeOK, RequestType, Key, run

\* Every answer is a version that its command, or one with its key, has written.
LEMMA AnswersStep ==
  TypeOK /\ IInv /\ WorkInv /\ AnswersOK /\ [Next]_vars => AnswersOK'
<1> SUFFICES ASSUME TypeOK, IInv, WorkInv, AnswersOK, [Next]_vars
             PROVE  AnswersOK'
  OBVIOUS
<1> DEFINE W(d, st) == /\ st.version \in DOMAIN history'[run(d)]
                       /\ history'[run(d)][st.version] = d
                       /\ st.version = store'[run(d)].version => st = store'[run(d)]
           Published(d) == pc'[d] = "publishing" => W(d, final'[d])
           Returned(d) ==
             pc'[d] \in {"returning", "done"} /\ errs'[d] \subseteq {"engine", "event"} =>
               \E e \in Cmds : (e = d \/ SameKey(d, e)') /\ W(e, final'[d])
           Remembered(k) == outcomes'[k].known =>
             \E e \in Cmds : HasKey(e)' /\ Key(e)' = k /\ W(e, outcomes'[k].state)
<1>1. /\ pc \in [Cmds -> PCs] /\ req \in [Cmds -> RequestType]
      /\ RequestsOK /\ HistoryOK
  BY DEF TypeOK, WorkInv
<1>2. ASSUME NEW c \in Cmds, Moves(c), NEW d \in Cmds, NEW st, WrittenBy(d, st)
      PROVE  W(d, st)
  BY <1>1, <1>2, WrittenStays
<1>3. ASSUME NEW c \in Cmds, Moves(c), NEW d \in Cmds, NEW e \in Cmds,
             pc[d] # "idle", pc[e] # "idle", SameKey(d, e)
      PROVE  SameKey(d, e)'
  <2>1. req'[d] = req[d] /\ req'[e] = req[e]
    BY <1>1, <1>3, AskedStays
  <2>2. QED BY <1>3, <2>1 DEF SameKey, HasKey, Key, kind, run
<1>4. ASSUME NEW c \in Cmds, Moves(c), NEW d \in Cmds, NEW e \in Cmds,
             pc[d] # "idle", e = d \/ SameKey(d, e), NEW st, WrittenBy(e, st)
      PROVE  (e = d \/ SameKey(d, e)') /\ W(e, st)
  <2>1. pc[e] # "idle"
    BY <1>1, <1>4, WrittenIsPast
  <2>2. QED BY <1>2, <1>3, <1>4, <2>1
<1>5. ASSUME NEW c \in Cmds, Moves(c), NEW d \in Cmds PROVE Published(d)
  <2> SUFFICES ASSUME pc'[d] = "publishing" PROVE W(d, final'[d])
    OBVIOUS
  <2>1. CASE pc[d] = "publishing" /\ final'[d] = final[d]
    <3>1. WrittenBy(d, final[d])
      BY <2>1 DEF AnswersOK
    <3>2. QED BY <1>2, <1>5, <2>1, <3>1
  <2>2. CASE d # c
    BY <1>5, <2>1, <2>2, OthersUndisturbed DEF Undisturbed
  <2>3. CASE d = c
    BY <1>5, <2>1, <2>3, PublisherArrives
  <2>4. QED BY <2>2, <2>3
<1>6. ASSUME NEW c \in Cmds, Moves(c), NEW d \in Cmds PROVE Returned(d)
  <2> SUFFICES ASSUME pc'[d] \in {"returning", "done"}, errs'[d] \subseteq {"engine", "event"}
               PROVE  \E e \in Cmds : (e = d \/ SameKey(d, e)') /\ W(e, final'[d])
    OBVIOUS
  <2>1. CASE /\ pc[d] \in {"returning", "done"} /\ errs[d] \subseteq {"engine", "event"}
             /\ final'[d] = final[d]
    <3>1. PICK e \in Cmds : (e = d \/ SameKey(d, e)) /\ WrittenBy(e, final[d])
      BY <2>1 DEF AnswersOK
    <3>2. (e = d \/ SameKey(d, e)') /\ W(e, final[d])
      BY <1>4, <1>6, <2>1, <3>1
    <3>3. QED BY <2>1, <3>2
  <2>2. CASE d # c
    BY <1>6, <2>1, <2>2, OthersUndisturbed DEF Undisturbed
  <2>3. CASE d = c /\ Conclude(c) /\ final'[c] = final[c]
    <3>1. WrittenBy(c, final[c])
      BY <2>3 DEF Conclude, AnswersOK
    <3>2. W(c, final[c])
      BY <1>2, <1>6, <3>1
    <3>3. QED BY <2>3, <3>2
  <2>4. CASE d = c /\ AnswerFromCache(c) /\ final'[c] = outcomes[Key(c)].state
    <3>1. HasKey(c) /\ outcomes[Key(c)].known /\ pc[c] # "idle"
      BY <2>4 DEF AnswerFromCache
    <3>2. Key(c) \in Runs \X CommandIDs
      BY <3>1, KeysTyped
    <3>3. PICK e \in Cmds : HasKey(e) /\ Key(e) = Key(c) /\ WrittenBy(e, outcomes[Key(c)].state)
      BY <3>1, <3>2 DEF AnswersOK
    <3>4. SameKey(c, e)
      BY <3>1, <3>3 DEF SameKey
    <3>5. (e = c \/ SameKey(c, e)') /\ W(e, outcomes[Key(c)].state)
      BY <1>4, <1>6, <3>1, <3>3, <3>4
    <3>6. QED BY <2>4, <3>5
  <2>5. CASE d = c
    BY <1>1, <1>6, <2>1, <2>3, <2>4, <2>5, AnswerArrives
  <2>6. QED BY <2>2, <2>5
<1>7. ASSUME NEW c \in Cmds, Moves(c), NEW k \in Runs \X CommandIDs PROVE Remembered(k)
  <2>1. ASSUME NEW e \in Cmds, HasKey(e), Key(e) = k, NEW st, WrittenBy(e, st)
        PROVE  HasKey(e)' /\ Key(e)' = k /\ W(e, st)
    <3>1. req'[e] = req[e]
      BY <1>1, <1>7, <2>1, AskedStays, WrittenIsPast
    <3>2. QED BY <1>2, <1>7, <2>1, <3>1 DEF HasKey, Key, kind, run
  <2>2. CASE outcomes'[k] = outcomes[k]
    <3> SUFFICES ASSUME outcomes[k].known
                 PROVE  \E e \in Cmds : HasKey(e)' /\ Key(e)' = k /\ W(e, outcomes[k].state)
      BY <2>2
    <3>1. PICK e \in Cmds : HasKey(e) /\ Key(e) = k /\ WrittenBy(e, outcomes[k].state)
      BY DEF AnswersOK
    <3>2. QED BY <2>1, <3>1
  <2>3. CASE /\ Conclude(c) /\ HasKey(c) /\ Key(c) = k
             /\ outcomes'[k] =
                  [known |-> TRUE, by |-> c, state |-> final[c], errs |-> errs[c]]
    <3>1. WrittenBy(c, final[c])
      BY <2>3 DEF Conclude, AnswersOK
    <3>2. QED BY <2>1, <2>3, <3>1
  <2>4. QED BY <1>7, <2>2, <2>3, CacheGrows
<1>8. ASSUME NEW c \in Cmds, Moves(c) PROVE AnswersOK'
  <2>1. \A d \in Cmds : Published(d)
    BY <1>5, <1>8
  <2>2. \A d \in Cmds : Returned(d)
    BY <1>6, <1>8
  <2>3. \A k \in Runs \X CommandIDs : Remembered(k)
    BY <1>7, <1>8
  <2>4. \A d \in Cmds : (pc[d] = "publishing" => WrittenBy(d, final[d]))'
    BY <2>1 DEF WrittenBy, run
  <2>5. \A d \in Cmds :
          (pc[d] \in {"returning", "done"} /\ errs[d] \subseteq {"engine", "event"} =>
            \E e \in Cmds : (e = d \/ SameKey(d, e)) /\ WrittenBy(e, final[d]))'
    BY <2>2 DEF WrittenBy, SameKey, HasKey, Key, kind, run
  <2>6. \A k \in Runs \X CommandIDs :
          (outcomes[k].known =>
             \E d \in Cmds : HasKey(d) /\ Key(d) = k /\ WrittenBy(d, outcomes[k].state))'
    <3> SUFFICES ASSUME NEW k \in Runs \X CommandIDs, outcomes'[k].known
                 PROVE  \E d \in Cmds :
                          HasKey(d)' /\ Key(d)' = k /\ WrittenBy(d, outcomes[k].state)'
      OBVIOUS
    <3>1. PICK e \in Cmds : HasKey(e)' /\ Key(e)' = k /\ W(e, outcomes'[k].state)
      BY <2>3
    <3>2. WrittenBy(e, outcomes[k].state)'
      BY <3>1 DEF WrittenBy, run
    <3>3. QED BY <3>1, <3>2
  <2>7. QED BY <2>4, <2>5, <2>6 DEF AnswersOK
<1>9. CASE UNCHANGED vars
  <2>1. UNCHANGED <<store, outcomes, req, pc, final, errs, history>>
    BY <1>9 DEF vars, callVars
  <2>2. \A d \in Cmds : (pc[d] = "publishing" => WrittenBy(d, final[d]))'
    BY <2>1 DEF AnswersOK, WrittenBy, run
  <2>3. \A d \in Cmds :
          (pc[d] \in {"returning", "done"} /\ errs[d] \subseteq {"engine", "event"} =>
            \E e \in Cmds : (e = d \/ SameKey(d, e)) /\ WrittenBy(e, final[d]))'
    <3> SUFFICES ASSUME NEW d \in Cmds, pc[d] \in {"returning", "done"},
                        errs[d] \subseteq {"engine", "event"}
                 PROVE  \E e \in Cmds : (e = d \/ SameKey(d, e)') /\ WrittenBy(e, final[d])'
      BY <2>1
    <3>1. PICK e \in Cmds : (e = d \/ SameKey(d, e)) /\ WrittenBy(e, final[d])
      BY DEF AnswersOK
    <3>2. SameKey(d, e) => SameKey(d, e)'
      BY <2>1 DEF SameKey, HasKey, Key, kind, run
    <3>3. WrittenBy(e, final[d])'
      BY <2>1, <3>1 DEF WrittenBy, run
    <3>4. QED BY <3>1, <3>2, <3>3
  <2>4. \A k \in Runs \X CommandIDs :
          (outcomes[k].known =>
             \E d \in Cmds : HasKey(d) /\ Key(d) = k /\ WrittenBy(d, outcomes[k].state))'
    BY <2>1 DEF AnswersOK, WrittenBy, HasKey, Key, kind, run
  <2>5. QED BY <2>2, <2>3, <2>4 DEF AnswersOK
<1>10. QED BY <1>8, <1>9 DEF Next, Quiet, Moves

-----------------------------------------------------------------------------
(***************************************************************************)
(* The cache.                                                              *)
(***************************************************************************)

\* Two commands that hold the mutex of one run are one.
LEMMA LockedAlone ==
  ASSUME IInv, NEW c \in Cmds, NEW d \in Cmds, run(c) = run(d),
         pc[c] \in Holding, pc[d] \in Holding, kind(c) # "start", kind(d) # "start"
  PROVE  c = d
BY DEF IInv, LockHeld

\* What a save does when it commits.
LEMMA SaveCommits ==
  ASSUME TypeOK, NEW c \in Cmds, Save(c), Commits(c, final[c])
  PROVE  /\ SaveError(final[c]) = "" /\ pc'[c] = "publishing"
         /\ final'[c] = Versioned(final[c]) /\ todo'[c] = Owed(c, final[c])
<1>1. /\ pc \in [Cmds -> PCs] /\ final \in [Cmds -> StateType]
      /\ todo \in [Cmds -> Seq(EventType)] /\ store \in [Runs -> StateType]
  BY DEF TypeOK
<1>2. store'[run(c)] # store[run(c)]
  <2>1. store[run(c)].version \in Nat
    BY <1>1, CommandsAssumption DEF StateType, run
  <2>2. QED BY <2>1, CommitAppends
<1>3. SaveError(final[c]) = ""
  BY <1>2 DEF Save
<1>4. QED BY <1>1, <1>3 DEF Save, GoTo

\* Who publishes goes on until it has concluded.
LEMMA PublisherStays ==
  ASSUME TypeOK, NEW c \in Cmds, Moves(c), pc[c] = "publishing"
  PROVE  pc'[c] = "publishing" \/ Conclude(c)
<1>1. CASE Publish(c) \/ PublishFails(c)
  BY <1>1 DEF Publish, PublishFails
<1>2. CASE ~Publish(c) /\ ~PublishFails(c)
  BY <1>2 DEF Moves, Step, Dispatch, Lock, AnswerFromCache, Load, LoadInterrupted, Create,
     Execute, Save, SaveInterrupted, Return, EndContext
<1>3. QED BY <1>1, <1>2

\* Who is at work has loaded the run or created it.
LEMMA WorkBegins ==
  ASSUME TypeOK, NEW c \in Cmds, Moves(c), pc'[c] \in {"executing", "saving"}
  PROVE  pc[c] \in {"executing", "saving"} \/ Load(c) \/ Create(c)
<1>1. pc \in [Cmds -> PCs]
  BY DEF TypeOK
<1>2. CASE Dispatch(c) \/ Lock(c) \/ AnswerFromCache(c) \/ Conclude(c) \/ Return(c)
  BY <1>1, <1>2 DEF Dispatch, Lock, AnswerFromCache, Conclude, Return, GoTo
<1>3. CASE LoadInterrupted(c) \/ SaveInterrupted(c)
  BY <1>1, <1>3 DEF LoadInterrupted, SaveInterrupted, Refuse, GoTo
<1>4. CASE Publish(c) \/ PublishFails(c) \/ EndContext(c)
  BY <1>4 DEF Publish, PublishFails, EndContext
<1>5. CASE Execute(c) \/ Save(c)
  BY <1>5 DEF Execute, Save
<1>6. QED BY <1>2, <1>3, <1>4, <1>5 DEF Moves, Step

\* A command is persisted by its own save, if it is no start.
LEMMA PersistedNow ==
  ASSUME TypeOK, IInv, HistoryOK, NEW c \in Cmds, Moves(c), NEW d \in Cmds,
         kind(d) # "start", Persisted(d)'
  PROVE  Persisted(d) \/ (d = c /\ Save(c) /\ Commits(c, final[c]))
<1>1. CASE d # c
  BY <1>1, PersistedStep
<1>2. CASE d = c /\ UNCHANGED <<store, history>>
  BY <1>2 DEF Persisted, run
<1>3. CASE d = c /\ Create(c)
  BY <1>3 DEF Create, IInv, LockHeld
<1>4. QED BY <1>1, <1>2, <1>3, StepsWrite

\* A key is remembered from the conclusion of its command on.
LEMMA CacheStep ==
  TypeOK /\ IInv /\ WorkInv /\ CacheOK /\ [Next]_vars => CacheOK'
<1> SUFFICES ASSUME TypeOK, IInv, WorkInv, CacheOK, [Next]_vars
             PROVE  CacheOK'
  OBVIOUS
<1> DEFINE Kept(d) ==
      HasKey(d)' =>
        /\ Persisted(d)' => pc'[d] = "publishing" \/ outcomes'[Key(d)'].known
        /\ pc'[d] \in {"executing", "saving"} => ~outcomes'[Key(d)'].known
<1>1. /\ pc \in [Cmds -> PCs] /\ req \in [Cmds -> RequestType]
      /\ RequestsOK /\ HistoryOK
  BY DEF TypeOK, WorkInv
<1>2. ASSUME NEW c \in Cmds, Moves(c), NEW d \in Cmds, req'[d] = req[d], HasKey(d)
      PROVE  /\ Persisted(d)' => pc'[d] = "publishing" \/ outcomes'[Key(d)].known
             /\ pc'[d] \in {"executing", "saving"} => ~outcomes'[Key(d)].known
  <2>1. kind(d) = "continue" /\ Key(d) \in Runs \X CommandIDs
    BY <1>2, KeysTyped DEF HasKey
  <2>2. \/ outcomes'[Key(d)] = outcomes[Key(d)]
        \/ Conclude(c) /\ HasKey(c) /\ Key(c) = Key(d) /\ outcomes'[Key(d)].known
    <3>1. PICK k \in Runs \X CommandIDs : k = Key(d)
      BY <2>1
    <3>2. \/ outcomes'[k] = outcomes[k]
          \/ /\ Conclude(c) /\ HasKey(c) /\ Key(c) = k
             /\ outcomes'[k] =
                  [known |-> TRUE, by |-> c, state |-> final[c], errs |-> errs[c]]
      BY <1>2, CacheGrows
    <3>3. QED BY <3>1, <3>2
  <2>3. ASSUME Persisted(d)' PROVE pc'[d] = "publishing" \/ outcomes'[Key(d)].known
    <3>1. CASE Persisted(d) /\ d # c
      <4>1. pc'[d] = pc[d]
        BY <1>2, <3>1, OthersUndisturbed DEF Undisturbed
      <4>2. QED BY <1>2, <2>2, <3>1, <4>1 DEF CacheOK
    <3>2. CASE Persisted(d) /\ d = c
      <4>1. pc[c] = "publishing" \/ outcomes[Key(d)].known
        BY <1>2, <3>2 DEF CacheOK
      <4>2. CASE pc[c] = "publishing"
        <5>1. CASE Conclude(c)
          BY <1>1, <1>2, <3>2, <5>1, <2>1 DEF Conclude, Remembers, TypeOK
        <5>2. QED BY <1>2, <3>2, <4>2, <5>1, PublisherStays
      <4>3. QED BY <2>2, <4>1, <4>2
    <3>3. CASE d = c /\ Save(c) /\ Commits(c, final[c])
      BY <3>3, SaveCommits
    <3>4. QED BY <1>1, <1>2, <2>1, <2>3, <3>1, <3>2, <3>3, PersistedNow
  <2>4. ASSUME pc'[d] \in {"executing", "saving"} PROVE ~outcomes'[Key(d)].known
    <3>1. ~outcomes[Key(d)].known /\ pc[d] \in Holding
      <4>1. CASE pc[d] \in {"executing", "saving"}
        BY <1>2, <4>1 DEF CacheOK, Holding
      <4>2. CASE d = c /\ Load(c)
        BY <1>2, <4>2 DEF Load, NotCached, Holding
      <4>3. CASE d = c /\ Create(c)
        BY <2>1, <4>3 DEF Create, IInv, LockHeld
      <4>4. CASE d # c
        BY <1>2, <2>4, <4>1, <4>4, OthersUndisturbed DEF Undisturbed
      <4>5. QED BY <1>2, <2>4, <4>1, <4>2, <4>3, <4>4, WorkBegins
    <3>2. CASE Conclude(c) /\ HasKey(c) /\ Key(c) = Key(d)
      <4>1. d # c
        BY <1>1, <2>4, <3>2 DEF Conclude, GoTo
      <4>2. run(c) = run(d) /\ pc[c] \in Holding /\ kind(c) # "start"
        BY <3>2 DEF Conclude, HasKey, Key, Holding
      <4>3. QED BY <2>1, <3>1, <4>1, <4>2, LockedAlone
    <3>3. QED BY <2>2, <3>1, <3>2
  <2>5. QED BY <2>3, <2>4
<1>3. ASSUME NEW c \in Cmds, Moves(c), NEW d \in Cmds PROVE Kept(d)
  <2>1. CASE req'[d] = req[d]
    <3>1. HasKey(d)' = HasKey(d) /\ Key(d)' = Key(d)
      BY <2>1 DEF HasKey, Key, kind, run
    <3>2. QED BY <1>2, <1>3, <2>1, <3>1
  <2>2. CASE req'[d] # req[d]
    <3>1. d = c /\ Dispatch(c)
      BY <1>1, <1>3, <2>2, OthersUndisturbed, RequestStays DEF Undisturbed
    <3>2. pc[c] = "idle" /\ pc'[c] \in {"creating", "locking"} /\ history' = history
      BY <1>1, <3>1 DEF Dispatch, GoTo
    <3>3. ~Persisted(c)'
      <4>1. ~Persisted(c)
        BY <1>1, <3>2, PersistedIsPast
      <4>2. QED BY <3>2, <4>1 DEF Persisted, run
    <3>4. QED BY <3>1, <3>2, <3>3
  <2>3. QED BY <2>1, <2>2
<1>4. CASE \E c \in Cmds : Moves(c)
  <2>1. \A d \in Cmds : Kept(d)
    BY <1>3, <1>4
  <2>2. QED BY <2>1 DEF CacheOK
<1>5. CASE UNCHANGED vars
  BY <1>5 DEF vars, callVars, CacheOK, HasKey, Key, Persisted, kind, run
<1>6. QED BY <1>4, <1>5 DEF Next, Quiet, Moves

-----------------------------------------------------------------------------
(***************************************************************************)
(* Events.                                                                 *)
(***************************************************************************)

\* The events a save owes announce the version it wrote.
LEMMA OwedVersion ==
  ASSUME NEW c, NEW st
  PROVE  \A i \in DOMAIN Owed(c, st) : Owed(c, st)[i].version = st.version + 1
<1> DEFINE ev(type) == Event(type, c, st.version + 1)
<1>1. \A type : ev(type).version = st.version + 1
  BY DEF Event
<1> HIDE DEF ev
<1>2. \/ \E a, b : Owed(c, st) = <<ev(a), ev(b)>>
      \/ \E a, b, t : Owed(c, st) = <<ev(a), ev(b), ev(t)>>
  BY DEF Owed, ev
<1>3. QED BY <1>1, <1>2

\* What the sink hears of from a holder of the mutex is what that holder wrote.
LEMMA Announces ==
  ASSUME TypeOK, IInv, WorkInv, AnswersOK, EventsOK, NEW c \in Cmds, Moves(c), NEW r \in Runs
  PROVE  /\ told[r] \in Nat /\ store[r].version \in Nat /\ told[r] <= store[r].version
         /\ \/ told'[r] = told[r]
            \/ /\ Publish(c) /\ kind(c) # "start" /\ r = run(c) /\ pc[c] = "publishing"
               /\ told'[r] = final[c].version
               /\ told[r] <= told'[r] /\ told'[r] <= store[r].version
<1>1. told \in [Runs -> Nat] /\ todo[c] \in Seq(EventType) /\ store[r].version \in Nat
  BY DEF TypeOK, StateType
<1>2. told[r] \in Nat /\ told[r] <= store[r].version
  BY <1>1 DEF EventsOK
<1>3. CASE Publish(c) /\ kind(c) # "start"
  <2>1. todo[c] # <<>> /\ told' = [told EXCEPT ![run(c)] = Head(todo[c]).version]
    BY <1>3 DEF Publish
  <2>2. 1 \in DOMAIN todo[c] /\ Head(todo[c]) = todo[c][1]
    BY <1>1, <2>1
  <2>3. /\ pc[c] = "publishing" /\ told[run(c)] <= final[c].version
        /\ Head(todo[c]).version = final[c].version
    BY <1>3, <2>1, <2>2 DEF EventsOK
  <2>4. final[c].version <= store[run(c)].version
    <3>1. WrittenBy(c, final[c])
      BY <2>3 DEF AnswersOK
    <3>2. QED BY <3>1, WrittenIsPast DEF WorkInv
  <2>5. CASE r = run(c)
    BY <1>1, <1>2, <1>3, <2>1, <2>3, <2>4, <2>5
  <2>6. CASE r # run(c)
    BY <1>1, <1>2, <2>1, <2>6
  <2>7. QED BY <2>5, <2>6
<1>4. CASE ~(Publish(c) /\ kind(c) # "start")
  <2>1. told' = told
    BY <1>4 DEF Moves, Step, Dispatch, Lock, AnswerFromCache, Load, LoadInterrupted, Create,
       Execute, Save, SaveInterrupted, Publish, PublishFails, Conclude, Return, EndContext
  <2>2. QED BY <1>1, <1>2, <2>1
<1>5. QED BY <1>3, <1>4

\* The sink is never told of a version before it is stored, and the holder of the
\* mutex only owes it the version it wrote.
LEMMA EventsStep ==
  TypeOK /\ IInv /\ WorkInv /\ AnswersOK /\ EventsOK /\ [Next]_vars => EventsOK'
<1> SUFFICES ASSUME TypeOK, IInv, WorkInv, AnswersOK, EventsOK, [Next]_vars
             PROVE  EventsOK'
  OBVIOUS
<1> DEFINE Owes(d) ==
      todo'[d] # <<>> =>
        \/ kind(d)' = "start" /\ pc'[d] # "idle"
        \/ /\ pc'[d] = "publishing"
           /\ told'[run(d)] <= final'[d].version
           /\ \A i \in DOMAIN todo'[d] : todo'[d][i].version = final'[d].version
<1>1. /\ pc \in [Cmds -> PCs] /\ req \in [Cmds -> RequestType]
      /\ todo \in [Cmds -> Seq(EventType)] /\ final \in [Cmds -> StateType]
      /\ RequestsOK /\ HistoryOK
  BY DEF TypeOK, WorkInv
<1>2. ASSUME NEW c \in Cmds, Moves(c), NEW r \in Runs PROVE told'[r] <= store'[r].version
  <2>1. /\ told[r] \in Nat /\ store[r].version \in Nat /\ told[r] <= store[r].version
        /\ \/ told'[r] = told[r]
           \/ told'[r] = final[c].version /\ told'[r] <= store[r].version
    BY <1>2, Announces
  <2>2. store'[r] = store[r] \/ store'[r].version = store[r].version + 1
    BY <1>1, <1>2, HistoryGrows
  <2>3. final[c].version \in Nat
    BY <1>1 DEF StateType
  <2>4. QED BY <2>1, <2>2, <2>3
<1>3. ASSUME NEW c \in Cmds, Moves(c), NEW d \in Cmds, kind(d) = "start", ~Dispatch(d)
      PROVE  Owes(d)
  <2>1. CASE pc[d] = "idle"
    <3>1. todo[d] = <<>> /\ d # c
      BY <1>1, <1>3, <2>1, RequestStays DEF RequestsOK
    <3>2. QED BY <1>3, <3>1, OthersUndisturbed DEF Undisturbed
  <2>2. CASE pc[d] # "idle"
    BY <1>1, <1>3, <2>2, AskedStays DEF kind
  <2>3. QED BY <2>1, <2>2
<1>4. ASSUME NEW c \in Cmds, Moves(c), NEW d \in Cmds, d # c, kind(d) # "start"
      PROVE  Owes(d)
  <2>1. Undisturbed(d) /\ run(d) \in Runs
    BY <1>4, CommandsAssumption, OthersUndisturbed DEF run
  <2>2. CASE todo[d] # <<>>
    <3>1. /\ pc[d] = "publishing" /\ told[run(d)] <= final[d].version
          /\ \A i \in DOMAIN todo[d] : todo[d][i].version = final[d].version
      BY <1>4, <2>2 DEF EventsOK
    <3>2. told'[run(d)] = told[run(d)]
      <4>1. CASE kind(c) # "start" /\ run(d) = run(c) /\ pc[c] = "publishing"
        BY <1>4, <3>1, <4>1, LockedAlone DEF Holding
      <4>2. QED BY <1>4, <2>1, <4>1, Announces
    <3>3. QED BY <2>1, <3>1, <3>2 DEF Undisturbed
  <2>3. CASE todo[d] = <<>>
    BY <2>1, <2>3 DEF Undisturbed
  <2>4. QED BY <2>2, <2>3
<1>5. ASSUME NEW c \in Cmds, Publish(c) \/ PublishFails(c), kind(c) # "start"
      PROVE  Owes(c)
  <2>1. /\ todo[c] # <<>> /\ pc' = pc /\ final' = final
        /\ todo'[c] = Tail(todo[c])
    BY <1>1, <1>5 DEF Publish, PublishFails
  <2>2. /\ pc[c] = "publishing" /\ told[run(c)] <= final[c].version
        /\ \A i \in DOMAIN todo[c] : todo[c][i].version = final[c].version
    BY <1>5, <2>1 DEF EventsOK
  <2>3. \A i \in DOMAIN Tail(todo[c]) : Tail(todo[c])[i].version = final[c].version
    <3> DEFINE s == todo[c]
    <3>1. s \in Seq(EventType) /\ s # <<>>
      BY <1>1, <2>1
    <3>2. \A i \in DOMAIN s : s[i].version = final[c].version
      BY <2>2
    <3> HIDE DEF s
    <3>3. \A i \in DOMAIN Tail(s) : i + 1 \in DOMAIN s /\ Tail(s)[i] = s[i + 1]
      BY <3>1
    <3>4. \A i \in DOMAIN Tail(s) : Tail(s)[i].version = final[c].version
      BY <3>2, <3>3
    <3>5. QED BY <3>4 DEF s
  <2>4. told'[run(c)] <= final[c].version
    <3>1. Moves(c) /\ run(c) \in Runs
      BY <1>5, CommandsAssumption DEF Moves, Step, run
    <3>2. told'[run(c)] = told[run(c)] \/ told'[run(c)] = final[c].version
      BY <3>1, Announces
    <3>3. final[c].version \in Nat
      BY <1>1 DEF StateType
    <3>4. QED BY <2>2, <3>2, <3>3
  <2>5. QED BY <2>1, <2>2, <2>3, <2>4
<1>6. ASSUME NEW c \in Cmds, Save(c), Commits(c, final[c]) PROVE Owes(c)
  <2>1. /\ pc'[c] = "publishing" /\ final'[c] = Versioned(final[c])
        /\ todo'[c] = Owed(c, final[c]) /\ told' = told
    BY <1>6, SaveCommits DEF Save
  <2>2. /\ final[c] \in StateType /\ final'[c].version = final[c].version + 1
        /\ final[c].version = store[run(c)].version
    BY <1>6, <2>1, VersionedTyped DEF Commits
  <2>3. told[run(c)] <= final[c].version + 1
    <3>1. /\ told[run(c)] \in Nat /\ final[c].version \in Nat
          /\ told[run(c)] <= final[c].version
      BY <2>2, CommandsAssumption DEF TypeOK, StateType, EventsOK, run
    <3>2. QED BY <3>1
  <2>4. \A i \in DOMAIN Owed(c, final[c]) : Owed(c, final[c])[i].version = final[c].version + 1
    BY OwedVersion
  <2>5. QED BY <2>1, <2>2, <2>3, <2>4
<1>7. ASSUME NEW c \in Cmds, Moves(c), kind(c) # "start", ~Publish(c), ~PublishFails(c),
             ~(Save(c) /\ Commits(c, final[c]))
      PROVE  Owes(c)
  <2>1. todo'[c] = todo[c] /\ (todo[c] # <<>> => pc[c] # "publishing")
    <3>1. CASE Save(c)
      <4>1. SaveError(final[c]) # ""
        <5>1. final[c].id = run(c) /\ final[c] \in StateType
          BY <1>1, <3>1, CommandsAssumption
             DEF Save, IInv, PendingWritesExtend, Extends, StoreOK, run
        <5>2. SaveError(final[c]) = "" => Written(c, final[c])
          BY <3>1 DEF Save
        <5>3. QED BY <1>7, <3>1, <5>1, <5>2, AcceptedCommits
      <4>2. QED BY <3>1, <4>1 DEF Save
    <3>2. CASE Create(c)
      BY <1>7, <3>2 DEF Create, IInv, LockHeld
    <3>3. CASE ~Save(c) /\ ~Create(c)
      BY <1>7, <3>3 DEF Moves, Step, Dispatch, Lock, AnswerFromCache, Load, LoadInterrupted,
         Execute, SaveInterrupted, Conclude, Return, EndContext
    <3>4. QED BY <3>1, <3>2, <3>3
  <2>2. QED BY <1>7, <2>1 DEF EventsOK
<1>8. ASSUME NEW c \in Cmds, Dispatch(c) PROVE Owes(c)
  BY <1>1, <1>8 DEF Dispatch, RequestsOK
<1>9. ASSUME NEW c \in Cmds, Moves(c) PROVE EventsOK'
  <2>1. \A r \in Runs : told'[r] <= store'[r].version
    BY <1>2, <1>9
  <2>2. \A d \in Cmds : Owes(d)
    <3>1. ASSUME NEW d \in Cmds, d # c PROVE Owes(d)
      BY <1>3, <1>4, <1>8, <1>9, <3>1
    <3>2. Owes(c)
      BY <1>3, <1>5, <1>6, <1>7, <1>8, <1>9
    <3>3. QED BY <3>1, <3>2
  <2>3. QED BY <2>1, <2>2 DEF EventsOK, kind, run
<1>10. CASE UNCHANGED vars
  BY <1>10 DEF vars, callVars, EventsOK, kind, run
<1>11. QED BY <1>9, <1>10 DEF Next, Quiet, Moves

-----------------------------------------------------------------------------
(***************************************************************************)
(* Instructions.                                                           *)
(***************************************************************************)

\* What a transcript says, its extensions say.
LEMMA SaidStays ==
  ASSUME NEW old, NEW new, old.messages \in Seq(MessageType), new.messages \in Seq(MessageType),
         IsPrefix(old.messages, new.messages), NEW m, Says(old, m)
  PROVE  Says(new, m)
<1>1. /\ Len(old.messages) <= Len(new.messages)
      /\ \A i \in 1..Len(old.messages) : old.messages[i] = new.messages[i]
  BY PrefixElements
<1>2. PICK i \in 1..Len(old.messages) : old.messages[i] = m
  BY LenProperties DEF Says
<1>3. i \in 1..Len(new.messages) /\ new.messages[i] = m
  BY <1>1, <1>2, LenProperties
<1>4. i \in DOMAIN new.messages
  BY <1>3, LenProperties
<1>5. QED BY <1>3, <1>4 DEF Says

\* What a stored transcript says, it goes on to say.
LEMMA StoreSays ==
  ASSUME TypeOK, IInv, NEW c \in Cmds, Moves(c), NEW r \in Runs, NEW m, Says(store[r], m)
  PROVE  /\ store'[r].messages \in Seq(MessageType)
         /\ IsPrefix(store[r].messages, store'[r].messages)
         /\ \E i \in DOMAIN store'[r].messages : store'[r].messages[i] = m
<1>1. [Next]_vars
  BY DEF Next, Moves
<1>2. OnlyExtends /\ TypeOK'
  BY <1>1, StoreStep, TypeStep DEF IInv
<1>3. store[r].messages \in Seq(MessageType) /\ store'[r].messages \in Seq(MessageType)
  BY <1>2 DEF TypeOK, StateType
<1>4. IsPrefix(store[r].messages, store'[r].messages)
  BY <1>2, <1>3, PrefixReflexive DEF OnlyExtends
<1>5. Says(store'[r], m)
  BY <1>3, <1>4, SaidStays
<1>6. QED BY <1>3, <1>4, <1>5 DEF Says

\* What a step of a command that is at work leaves it with.
LEMMA WorkGoesOn ==
  ASSUME TypeOK, NEW c \in Cmds, Moves(c), pc[c] \in {"executing", "saving"}
  PROVE  \/ /\ pc'[c] = pc[c] /\ UNCHANGED <<base, final, resolved, req, replays, store, history>>
            /\ errs[c] \subseteq errs'[c]
         \/ Execute(c) \/ Save(c) \/ SaveInterrupted(c)
<1>1. errs \in [Cmds -> SUBSET Errors]
  BY DEF TypeOK
<1>2. CASE Publish(c) \/ PublishFails(c) \/ EndContext(c)
  BY <1>1, <1>2 DEF Publish, PublishFails, EndContext
<1>3. CASE ~Publish(c) /\ ~PublishFails(c) /\ ~EndContext(c)
  BY <1>3 DEF Moves, Step, Dispatch, Lock, AnswerFromCache, Load, LoadInterrupted, Create,
     Conclude, Return
<1>4. QED BY <1>2, <1>3

\* What an execution leaves its command with.
LEMMA ExecuteMakes ==
  ASSUME TypeOK, NEW c \in Cmds, Execute(c)
  PROVE  \E out \in EngineOutcomes(c, base[c], req[c].resolution, resolved[c], ctxDone[c]) :
           /\ out \in OutcomeOf(base[c])
           /\ replays'[c] = IF out.replayed THEN base[c].version ELSE replays[c]
           /\ \A d \in Cmds : d # c => replays'[d] = replays[d]
           /\ errs[c] \subseteq errs'[c]
           /\ \/ /\ ValidEngineOutput(base[c], out.state) /\ out.state \in StateType
                 /\ final'[c] = out.state /\ pc'[c] = "saving"
              \/ /\ ~ValidEngineOutput(base[c], out.state)
                 /\ pc'[c] = "returning" /\ "contract" \in errs'[c]
<1>1. /\ pc \in [Cmds -> PCs] /\ final \in [Cmds -> StateType] /\ base[c] \in StateType
      /\ errs \in [Cmds -> SUBSET Errors] /\ replays \in [Cmds -> Nat]
      /\ resolved[c] \in RequirementType /\ ctxDone[c] \in BOOLEAN
  BY DEF TypeOK
<1>2. PICK out \in EngineOutcomes(c, base[c], req[c].resolution, resolved[c], ctxDone[c]),
           refused \in BOOLEAN :
        /\ replays' = IF out.replayed
                      THEN [replays EXCEPT ![c] = base[c].version] ELSE replays
        /\ IF ValidEngineOutput(base[c], out.state)
           THEN /\ final' = [final EXCEPT ![c] = out.state]
                /\ errs' = IF out.failed \/ refused
                           THEN [errs EXCEPT ![c] = @ \cup {"engine"}] ELSE errs
                /\ GoTo(c, "saving")
           ELSE Refuse(c, {"contract"}, NoRun(run(c)))
  BY DEF Execute
<1>3. out \in OutcomeOf(base[c])
  BY <1>1, EngineTyped
<1>4. /\ replays'[c] = IF out.replayed THEN base[c].version ELSE replays[c]
      /\ \A d \in Cmds : d # c => replays'[d] = replays[d]
  BY <1>1, <1>2
<1>5. CASE ValidEngineOutput(base[c], out.state)
  <2>1. out.state \in EngineStateType /\ out.state.step >= base[c].step /\ base[c].step \in Nat
    BY <1>1, <1>3, <1>5 DEF OutcomeOf, StateType, ValidEngineOutput
  <2>2. out.state \in StateType
    BY <2>1 DEF EngineStateType, StateType
  <2>3. final'[c] = out.state /\ pc'[c] = "saving" /\ errs[c] \subseteq errs'[c]
    BY <1>1, <1>2, <1>5 DEF GoTo
  <2>4. QED BY <1>3, <1>4, <1>5, <2>2, <2>3
<1>6. CASE ~ValidEngineOutput(base[c], out.state)
  <2>1. Refuse(c, {"contract"}, NoRun(run(c)))
    BY <1>2, <1>6
  <2>2. pc'[c] = "returning" /\ "contract" \in errs'[c] /\ errs[c] \subseteq errs'[c]
    BY <1>1, <2>1 DEF Refuse, GoTo
  <2>3. QED BY <1>3, <1>4, <1>6, <2>2
<1>7. QED BY <1>5, <1>6

\* What a load leaves its command with.
LEMMA LoadMakes ==
  ASSUME TypeOK, NEW c \in Cmds, Load(c), pc'[c] \in {"executing", "saving"}
  PROVE  /\ LoadError(kind(c), store[run(c)], req[c].resolution) = ""
         /\ base'[c] = Prepared(c, store[run(c)]) /\ final'[c] = Prepared(c, store[run(c)])
         /\ resolved'[c] = Resolved(c, store[run(c)])
<1>1. /\ pc \in [Cmds -> PCs] /\ final \in [Cmds -> StateType] /\ base \in [Cmds -> StateType]
      /\ resolved \in [Cmds -> RequirementType]
  BY DEF TypeOK
<1>2. CASE LoadError(kind(c), store[run(c)], req[c].resolution) # ""
  BY <1>1, <1>2 DEF Load, Refuse, GoTo
<1>3. CASE LoadError(kind(c), store[run(c)], req[c].resolution) = ""
  BY <1>1, <1>3 DEF Load
<1>4. QED BY <1>2, <1>3

\* An instruction goes from the loaded state to the stored one.
LEMMA InstructionsStep ==
  TypeOK /\ IInv /\ WorkInv /\ InstructionsOK /\ [Next]_vars => InstructionsOK'
<1> SUFFICES ASSUME TypeOK, IInv, WorkInv, InstructionsOK, [Next]_vars
             PROVE  InstructionsOK'
  OBVIOUS
<1> DEFINE SaysOf(st, d) == \E i \in DOMAIN st.messages : st.messages[i] = UserMessage(d)
           Instructs(d) == kind(d)' \in {"steer", "follow_up"} =>
             /\ pc'[d] = "executing" => SaysOf(base'[d], d)
             /\ pc'[d] = "saving" => SaysOf(final'[d], d)
             /\ Persisted(d)' => SaysOf(store'[run(d)], d)
<1>1. /\ pc \in [Cmds -> PCs] /\ req \in [Cmds -> RequestType] /\ store \in [Runs -> StateType]
      /\ base \in [Cmds -> StateType] /\ final \in [Cmds -> StateType]
      /\ RequestsOK /\ HistoryOK
  BY DEF TypeOK, WorkInv
<1>2. ASSUME NEW c \in Cmds, Moves(c), NEW d \in Cmds, kind(d) \in {"steer", "follow_up"},
             Persisted(d)
      PROVE  SaysOf(store'[run(d)], d)
  <2>1. run(d) \in Runs /\ Says(store[run(d)], UserMessage(d))
    BY <1>2, CommandsAssumption DEF InstructionsOK, run
  <2>2. QED BY <1>2, <2>1, StoreSays
<1>3. ASSUME NEW c \in Cmds, Moves(c), NEW d \in Cmds, d # c PROVE Instructs(d)
  <2>1. Undisturbed(d)
    BY <1>3, OthersUndisturbed
  <2>2. kind(d)' = kind(d) /\ (Persisted(d)' => Persisted(d))
    BY <1>1, <1>3, <2>1, PersistedStep DEF Undisturbed, kind
  <2>3. QED BY <1>2, <1>3, <2>1, <2>2 DEF Undisturbed, InstructionsOK, Says
<1>4. ASSUME NEW c \in Cmds, Dispatch(c) PROVE Instructs(c)
  <2>1. pc[c] = "idle" /\ pc'[c] \in {"creating", "locking"} /\ history' = history
    BY <1>1, <1>4 DEF Dispatch, GoTo
  <2>2. ~Persisted(c)'
    <3>1. ~Persisted(c)
      BY <1>1, <2>1, PersistedIsPast
    <3>2. QED BY <2>1, <3>1 DEF Persisted, run
  <2>3. QED BY <2>1, <2>2
<1>5. ASSUME NEW c \in Cmds, Moves(c), ~Dispatch(c), kind(c) \in {"steer", "follow_up"},
             pc'[c] \in {"executing", "saving"}
      PROVE  /\ pc'[c] = "executing" => SaysOf(base'[c], c)
             /\ pc'[c] = "saving" => SaysOf(final'[c], c)
  <2>1. CASE Load(c)
    <3> DEFINE st == store[run(c)]
    <3>1. /\ base'[c] = Instructed(c, st) /\ final'[c] = Instructed(c, st)
      BY <1>1, <1>5, <2>1, LoadMakes DEF Prepared
    <3>2. st.messages \in Seq(MessageType)
      BY <1>1, CommandsAssumption DEF StateType, run
    <3> DEFINE ms == st.messages
               n == Len(ms) + 1
    <3>3. Instructed(c, st).messages = Append(ms, UserMessage(c))
      BY <1>1, CommandsAssumption DEF Instructed, StateType, run
    <3>4. n \in DOMAIN Append(ms, UserMessage(c)) /\ Append(ms, UserMessage(c))[n] = UserMessage(c)
      <4> HIDE DEF ms
      <4>1. ms \in Seq(MessageType)
        BY <3>2 DEF ms
      <4>2. QED BY <4>1
    <3>5. SaysOf(Instructed(c, st), c)
      <4> HIDE DEF n, ms
      <4>1. QED BY <3>3, <3>4
    <3>6. QED BY <3>1, <3>5
  <2>2. CASE Create(c)
    BY <1>5, <2>2 DEF Create, IInv, LockHeld
  <2>3. CASE Execute(c)
    <3>1. pc[c] = "executing" /\ Says(base[c], UserMessage(c))
      BY <1>5, <2>3 DEF Execute, InstructionsOK
    <3>2. PICK out : /\ pc'[c] # "executing"
                     /\ pc'[c] = "saving" =>
                          /\ ValidEngineOutput(base[c], out.state) /\ out.state \in StateType
                          /\ final'[c] = out.state
      BY <2>3, ExecuteMakes
    <3>3. ASSUME pc'[c] = "saving" PROVE SaysOf(final'[c], c)
      <4>1. /\ base[c].messages \in Seq(MessageType) /\ out.state.messages \in Seq(MessageType)
            /\ IsPrefix(base[c].messages, out.state.messages)
        BY <1>1, <3>2, <3>3 DEF StateType, ValidEngineOutput
      <4>2. Says(out.state, UserMessage(c))
        BY <3>1, <4>1, SaidStays
      <4>3. QED BY <3>2, <3>3, <4>2 DEF Says
    <3>4. QED BY <3>2, <3>3
  <2>4. CASE Save(c) \/ SaveInterrupted(c)
    BY <1>1, <1>5, <2>4 DEF Save, SaveInterrupted, Refuse, GoTo
  <2>5. CASE pc[c] \in {"executing", "saving"} /\ ~Execute(c) /\ ~Save(c) /\ ~SaveInterrupted(c)
    <3>1. pc'[c] = pc[c] /\ base'[c] = base[c] /\ final'[c] = final[c]
      BY <1>5, <2>5, WorkGoesOn
    <3>2. QED BY <1>5, <3>1 DEF InstructionsOK, Says
  <2>6. QED BY <1>5, <2>1, <2>2, <2>3, <2>4, <2>5, WorkBegins
<1>6. ASSUME NEW c \in Cmds, Moves(c), kind(c) \in {"steer", "follow_up"}, Persisted(c)'
      PROVE  SaysOf(store'[run(c)], c)
  <2>1. CASE Persisted(c)
    BY <1>2, <1>6, <2>1
  <2>2. CASE Save(c) /\ Commits(c, final[c])
    <3>1. Says(final[c], UserMessage(c))
      BY <1>6, <2>2 DEF Save, InstructionsOK
    <3>2. store'[run(c)].messages = final[c].messages
      BY <2>2, CommitAppends
    <3>3. QED BY <3>1, <3>2 DEF Says
  <2>3. QED BY <1>1, <1>6, <2>1, <2>2, PersistedNow
<1>7. ASSUME NEW c \in Cmds, Moves(c) PROVE Instructs(c)
  <2>1. CASE Dispatch(c)
    BY <1>4, <2>1
  <2>2. CASE ~Dispatch(c)
    <3>1. kind(c)' = kind(c)
      BY <1>1, <1>7, <2>2, RequestStays DEF kind
    <3>2. QED BY <1>5, <1>6, <1>7, <2>2, <3>1
  <2>3. QED BY <2>1, <2>2
<1>8. CASE \E c \in Cmds : Moves(c)
  <2>1. \A d \in Cmds : Instructs(d)
    BY <1>3, <1>7, <1>8
  <2>2. QED BY <2>1 DEF InstructionsOK, Says, Persisted, kind, run
<1>9. CASE UNCHANGED vars
  BY <1>9 DEF vars, callVars, InstructionsOK, Says, Persisted, kind, run
<1>10. QED BY <1>8, <1>9 DEF Next, Quiet, Moves

-----------------------------------------------------------------------------
(***************************************************************************)
(* Suspensions.                                                            *)
(***************************************************************************)

\* The store's bump of the version does not touch what makes a state valid.
LEMMA VersionedValid ==
  ASSUME NEW st \in StateType, ValidRunState(st)
  PROVE  ValidRunState(Versioned(st))
<1>1. /\ Versioned(st).step = st.step /\ Versioned(st).status = st.status
      /\ Versioned(st).requirement = st.requirement
      /\ Versioned(st).version = st.version + 1 /\ st.version \in Nat
  BY DEF Versioned, StateType
<1>2. st.version + 1 >= 0
  BY <1>1
<1>3. QED BY <1>1, <1>2 DEF ValidRunState, SuspensionInvariant

\* A save that commits replaces a stored state: its start's own, or the one it loaded.
LEMMA SaveIsLater ==
  ASSUME TypeOK, IInv, WorkInv, NEW c \in Cmds, Save(c), Commits(c, final[c])
  PROVE  /\ WorksFromStored(c) /\ SavesItsWork(c)
         /\ store[run(c)].version \in Nat /\ store[run(c)].version # 0
         /\ final[c].version = store[run(c)].version
         /\ kind(c) = "start" => store[run(c)].version = 1
<1>1. pc[c] = "saving" /\ HistoryOK /\ PendingEffects
  BY DEF Save, WorkInv
<1>2. run(c) \in Runs
  BY CommandsAssumption DEF run
<1>3. /\ store[run(c)].version \in Nat /\ final[c].version = store[run(c)].version
      /\ Len(history[run(c)]) = store[run(c)].version
  BY <1>1, <1>2 DEF TypeOK, StateType, Commits, HistoryOK
<1>4. SavesItsWork(c)
  BY <1>1 DEF PendingEffects
<1>5. WorksFromStored(c)
  <2>1. base[c].version = store[run(c)].version
    BY <1>3, <1>4, WorkKeepsVersion
  <2>2. QED BY <1>1, <2>1 DEF PendingEffects, UpToDate
<1>6. CASE kind(c) = "start"
  <2>1. history[run(c)] = <<c>>
    BY <1>5, <1>6 DEF WorksFromStored
  <2>2. Len(<<c>>) = 1
    OBVIOUS
  <2>3. QED BY <1>3, <1>4, <1>5, <2>1, <2>2
<1>7. CASE kind(c) # "start"
  <2>1. LoadError(kind(c), store[run(c)], req[c].resolution) = ""
    BY <1>5, <1>7 DEF WorksFromStored
  <2>2. QED BY <1>3, <1>4, <1>5, <1>7, <2>1, LoadedIsOpen
<1>8. QED BY <1>6, <1>7

\* What is stored is valid, and its first version is a pending run.
LEMMA StoredIsValid ==
  ASSUME TypeOK, IInv, WorkInv, SuspensionsOK, NEW c \in Cmds, Moves(c), NEW r \in Runs
  PROVE  /\ store'[r].version # 0 => ValidRunState(store'[r])
         /\ store'[r].version = 1 => store'[r].status = "pending"
<1>1. CASE store'[r] = store[r]
  BY <1>1 DEF SuspensionsOK
<1>2. ASSUME NEW st, Commits(c, st), r = run(c),
             st.version = 0 => st.status = "pending"
      PROVE  /\ store'[r].version # 0 => ValidRunState(store'[r])
             /\ store'[r].version = 1 => store'[r].status = "pending"
  <2>1. store'[r] = Versioned(st)
    BY <1>2, CommitAppends
  <2>2. st \in StateType /\ ValidRunState(st)
    BY <1>2 DEF Commits
  <2>3. /\ Versioned(st).version = st.version + 1 /\ Versioned(st).status = st.status
        /\ st.version \in Nat
    BY <2>2, VersionedTyped DEF StateType
  <2>4. ValidRunState(Versioned(st))
    BY <2>2, VersionedValid
  <2>5. QED BY <1>2, <2>1, <2>3, <2>4
<1>3. CASE Create(c) /\ base[c] = StartState(c) /\ Commits(c, base[c]) /\ r = run(c)
  <2>1. StartState(c).status = "pending"
    BY DEF StartState, NoRun
  <2>2. QED BY <1>2, <1>3, <2>1
<1>4. CASE Save(c) /\ Commits(c, final[c]) /\ r = run(c)
  <2>1. final[c].version # 0
    BY <1>4, SaveIsLater
  <2>2. QED BY <1>2, <1>4, <2>1
<1>5. CASE r # run(c) /\ ~(store'[r] = store[r])
  <2>1. PICK st : Commits(c, st)
    BY <1>5, StepsWrite
  <2>2. QED BY <1>5, <2>1, CommitAppends
<1>6. QED BY <1>1, <1>3, <1>4, <1>5, StepsWrite

\* A state with a requirement to resolve is suspended, so it is no first version.
LEMMA ResolvedIsLater ==
  ASSUME TypeOK, SuspensionsOK, NEW c \in Cmds, store[run(c)].version # 0,
         Resolved(c, store[run(c)]) # NoRequirement
  PROVE  /\ kind(c) = "continue"
         /\ store[run(c)].version > 1
         /\ store[run(c)].status = "suspended"
         /\ Resolved(c, store[run(c)]) = store[run(c)].requirement
<1> DEFINE st == store[run(c)]
<1>1. st \in StateType /\ run(c) \in Runs
  BY CommandsAssumption DEF TypeOK, run
<1>2. kind(c) = "continue" /\ st.requirement # NoRequirement
  BY DEF Resolved
<1>3. st.status = "suspended"
  <2>1. ValidRunState(st)
    BY <1>1 DEF SuspensionsOK
  <2>2. QED BY <1>2, <2>1 DEF ValidRunState, SuspensionInvariant
<1>4. st.version # 1
  BY <1>1, <1>3 DEF SuspensionsOK
<1>5. st.version \in Nat
  BY <1>1 DEF StateType
<1>6. QED BY <1>2, <1>3, <1>4, <1>5 DEF Resolved

\* A requirement is resolved from a version that nobody else can write.
LEMMA SuspensionsStep ==
  TypeOK /\ IInv /\ WorkInv /\ SuspensionsOK /\ [Next]_vars => SuspensionsOK'
<1> SUFFICES ASSUME TypeOK, IInv, WorkInv, SuspensionsOK, [Next]_vars
             PROVE  SuspensionsOK'
  OBVIOUS
<1> DEFINE Later(d) == pc'[d] \in {"executing", "saving"} =>
             /\ resolved'[d] # NoRequirement => base'[d].version > 1
             /\ kind(d)' # "start" /\ base'[d].version > 1 =>
                  base'[d].version = store'[run(d)].version
<1>1. /\ pc \in [Cmds -> PCs] /\ req \in [Cmds -> RequestType] /\ store \in [Runs -> StateType]
      /\ base \in [Cmds -> StateType] /\ RequestsOK /\ HistoryOK /\ PendingEffects
  BY DEF TypeOK, WorkInv
<1>2. ASSUME NEW c \in Cmds, Moves(c), NEW d \in Cmds, d # c PROVE Later(d)
  <2>1. Undisturbed(d) /\ kind(d)' = kind(d) /\ run(d) \in Runs
    BY <1>2, CommandsAssumption, OthersUndisturbed DEF Undisturbed, kind, run
  <2> SUFFICES ASSUME pc[d] \in {"executing", "saving"}
               PROVE  /\ resolved[d] # NoRequirement => base[d].version > 1
                      /\ kind(d) # "start" /\ base[d].version > 1 =>
                           base[d].version = store'[run(d)].version
    BY <2>1 DEF Undisturbed
  <2>2. resolved[d] # NoRequirement => base[d].version > 1
    BY DEF SuspensionsOK
  <2>3. ASSUME kind(d) # "start", base[d].version > 1
        PROVE  base[d].version = store'[run(d)].version
    <3>1. base[d].version = store[run(d)].version
      BY <2>3 DEF SuspensionsOK, UpToDate
    <3>2. CASE Create(c) /\ Commits(c, base[c]) /\ base[c] = StartState(c)
      <4>1. store[run(c)].version = 0
        BY <3>2, StartStateTyped DEF Commits
      <4>2. run(d) # run(c)
        BY <2>3, <3>1, <4>1
      <4>3. QED BY <2>1, <3>1, <3>2, <4>2, CommitAppends
    <3>3. CASE Save(c) /\ Commits(c, final[c])
      <4>1. run(d) # run(c)
        <5>1. CASE kind(c) = "start"
          <6>1. store[run(c)].version = 1
            BY <3>3, <5>1, SaveIsLater
          <6>2. QED BY <2>3, <3>1, <6>1
        <5>2. CASE kind(c) # "start"
          BY <1>2, <2>3, <3>3, <5>2, LockedAlone DEF Save, Holding
        <5>3. QED BY <5>1, <5>2
      <4>2. QED BY <2>1, <3>1, <3>3, <4>1, CommitAppends
    <3>4. QED BY <1>2, <3>1, <3>2, <3>3, StepsWrite
  <2>4. QED BY <2>2, <2>3
<1>3. ASSUME NEW c \in Cmds, Load(c) PROVE Later(c)
  <2> SUFFICES ASSUME pc'[c] \in {"executing", "saving"}
               PROVE  /\ resolved'[c] # NoRequirement => base'[c].version > 1
                      /\ base'[c].version = store'[run(c)].version
    OBVIOUS
  <2>1. /\ LoadError(kind(c), store[run(c)], req[c].resolution) = ""
        /\ base'[c] = Prepared(c, store[run(c)]) /\ resolved'[c] = Resolved(c, store[run(c)])
        /\ store' = store
    BY <1>3, LoadMakes DEF Load
  <2>2. store[run(c)].version # 0
    BY <2>1, LoadedIsOpen
  <2>3. base'[c].version = store[run(c)].version
    <3>1. store[run(c)] \in StateType
      BY <1>1, CommandsAssumption DEF run
    <3>2. QED BY <2>1, <3>1, PreparedExtends
  <2>4. QED BY <2>1, <2>2, <2>3, ResolvedIsLater
<1>4. ASSUME NEW c \in Cmds, Create(c) PROVE Later(c)
  <2>1. kind(c) = "start" /\ req' = req /\ resolved' = resolved
    BY <1>4 DEF Create, IInv, LockHeld
  <2>2. resolved[c] = NoRequirement /\ kind(c)' = kind(c)
    BY <1>1, <2>1 DEF RequestsOK, kind
  <2>3. QED BY <2>1, <2>2
<1>5. ASSUME NEW c \in Cmds, Moves(c), pc[c] \in {"executing", "saving"} PROVE Later(c)
  <2>1. CASE Save(c) \/ SaveInterrupted(c)
    BY <1>1, <2>1 DEF Save, SaveInterrupted, Refuse, GoTo
  <2>2. CASE ~Save(c) /\ ~SaveInterrupted(c)
    <3>1. UNCHANGED <<base, resolved, req, store>>
      BY <1>5, <2>2, WorkGoesOn DEF Execute
    <3>2. kind(c)' = kind(c)
      BY <3>1 DEF kind
    <3>3. QED BY <1>5, <3>1, <3>2 DEF SuspensionsOK, UpToDate
  <2>3. QED BY <2>1, <2>2
<1>6. ASSUME NEW c \in Cmds, Moves(c) PROVE SuspensionsOK'
  <2>1. \A d \in Cmds : Later(d)
    <3>1. Later(c)
      BY <1>3, <1>4, <1>5, <1>6, WorkBegins
    <3>2. QED BY <1>2, <1>6, <3>1
  <2>2. \A r \in Runs : /\ store'[r].version # 0 => ValidRunState(store'[r])
                        /\ store'[r].version = 1 => store'[r].status = "pending"
    BY <1>6, StoredIsValid
  <2>3. QED BY <2>1, <2>2 DEF SuspensionsOK, UpToDate, ValidRunState, SuspensionInvariant, kind, run
<1>7. CASE UNCHANGED vars
  BY <1>7 DEF vars, callVars, SuspensionsOK, UpToDate, ValidRunState, SuspensionInvariant, kind, run
<1>8. QED BY <1>6, <1>7 DEF Next, Quiet, Moves

-----------------------------------------------------------------------------
(***************************************************************************)
(* Replays.                                                                *)
(***************************************************************************)

\* What a command that is past its save does: it publishes, concludes and returns.
LEMMA PastGoesOn ==
  ASSUME TypeOK, NEW c \in Cmds, Moves(c), pc[c] \in {"publishing", "returning", "done"}
  PROVE  /\ pc'[c] \in {"publishing", "returning", "done"}
         /\ errs[c] \subseteq errs'[c]
         /\ UNCHANGED <<replays, req, base, store>>
<1>1. pc \in [Cmds -> PCs] /\ errs \in [Cmds -> SUBSET Errors]
  BY DEF TypeOK
<1>2. CASE Publish(c) \/ PublishFails(c)
  BY <1>1, <1>2 DEF Publish, PublishFails
<1>3. CASE Conclude(c) \/ Return(c)
  BY <1>1, <1>3 DEF Conclude, Return, GoTo
<1>4. QED
  BY <1>2, <1>3
     DEF Moves, Step, Dispatch, Lock, AnswerFromCache, Load, LoadInterrupted, Create,
         Execute, Save, SaveInterrupted, EndContext

\* Only an execution replays.
LEMMA OnlyExecutesReplay ==
  ASSUME NEW c \in Cmds, Moves(c), ~Execute(c)
  PROVE  replays' = replays
BY DEF Moves, Step, Dispatch, Lock, AnswerFromCache, Load, LoadInterrupted, Create,
       Save, SaveInterrupted, Publish, PublishFails, Conclude, Return, EndContext

\* An execution that replays a call is one of a continue, it will save what the
\* engine returned, and its run has moved past no version since it was loaded.
LEMMA ReplayMakes ==
  ASSUME TypeOK, IInv, WorkInv, SuspensionsOK, ReplaysOK, NEW c \in Cmds, Execute(c),
         replays'[c] # 0
  PROVE  /\ kind(c) = "continue" /\ pc'[c] = "saving" /\ resolved[c] # NoRequirement
         /\ replays'[c] = base[c].version /\ ValidRunState(final'[c])
         /\ base[c].version = store[run(c)].version
<1>1. /\ base[c] \in StateType /\ resolved[c] \in RequirementType /\ ctxDone[c] \in BOOLEAN
      /\ pc[c] = "executing" /\ RequestsOK
  BY DEF TypeOK, Execute, WorkInv
<1>2. replays[c] = 0
  BY <1>1 DEF ReplaysOK
<1>3. PICK out \in EngineOutcomes(c, base[c], req[c].resolution, resolved[c], ctxDone[c]) :
        /\ replays'[c] = IF out.replayed THEN base[c].version ELSE replays[c]
        /\ ValidEngineOutput(base[c], out.state) => final'[c] = out.state /\ pc'[c] = "saving"
  BY ExecuteMakes
<1>4. out.replayed /\ replays'[c] = base[c].version
  BY <1>2, <1>3
<1>5. /\ ReplayRequested(req[c].resolution, resolved[c])
      /\ ValidEngineOutput(base[c], out.state) /\ ValidRunState(out.state)
  BY <1>1, <1>3, <1>4, ReplaysAreSaved
<1>6. resolved[c] # NoRequirement
  <2>1. resolved[c].origin = "tool"
    BY <1>5 DEF ReplayRequested
  <2>2. NoRequirement.origin = ""
    BY DEF NoRequirement
  <2>3. QED BY <2>1, <2>2
<1>7. kind(c) = "continue"
  BY <1>1, <1>6 DEF RequestsOK
<1>8. base[c].version = store[run(c)].version
  BY <1>1, <1>6, <1>7 DEF SuspensionsOK, UpToDate
<1>9. QED BY <1>3, <1>4, <1>5, <1>6, <1>7, <1>8

\* A command that replayed a call will save: nothing but its context can stop it.
LEMMA ReplayIsSaved ==
  ASSUME TypeOK, IInv, WorkInv, SuspensionsOK, NEW c \in Cmds, Save(c),
         kind(c) = "continue", resolved[c] # NoRequirement, ValidRunState(final[c])
  PROVE  /\ Commits(c, final[c])
         /\ base[c].version = store[run(c)].version
<1>1. /\ pc[c] = "saving" /\ PendingEffects /\ final[c] \in StateType /\ run(c) \in Runs
  BY CommandsAssumption DEF Save, WorkInv, TypeOK, run
<1>2. base[c].version = store[run(c)].version
  BY <1>1 DEF SuspensionsOK, UpToDate
<1>3. final[c].id = run(c)
  BY <1>1 DEF IInv, PendingWritesExtend, Extends, StoreOK
<1>4. final[c].version = store[run(c)].version
  BY <1>1, <1>2, WorkKeepsVersion DEF PendingEffects
<1>5. SaveError(final[c]) = ""
  BY <1>3, <1>4 DEF SaveError
<1>6. Written(c, final[c])
  BY <1>5 DEF Save
<1>7. QED BY <1>1, <1>2, <1>3, <1>5, <1>6, AcceptedCommits

\* The call of a suspension is replayed by a command that ends the suspension, or
\* that tells its caller that its context ended.
LEMMA ReplaysStep ==
  TypeOK /\ IInv /\ WorkInv /\ SuspensionsOK /\ ReplaysOK /\ [Next]_vars => ReplaysOK'
<1> SUFFICES ASSUME TypeOK, IInv, WorkInv, SuspensionsOK, ReplaysOK, [Next]_vars
             PROVE  ReplaysOK'
  OBVIOUS
<1> DEFINE Replayer(d) == replays'[d] # 0 =>
             /\ kind(d)' = "continue"
             /\ \/ /\ pc'[d] = "saving" /\ replays'[d] = base'[d].version
                   /\ resolved'[d] # NoRequirement /\ ValidRunState(final'[d])
                \/ /\ pc'[d] \in {"publishing", "returning", "done"}
                   /\ "context" \in errs'[d] \/ replays'[d] < store'[run(d)].version
<1>1. /\ pc \in [Cmds -> PCs] /\ req \in [Cmds -> RequestType] /\ replays \in [Cmds -> Nat]
      /\ errs \in [Cmds -> SUBSET Errors] /\ RequestsOK /\ HistoryOK
  BY DEF TypeOK, WorkInv
<1>2. ASSUME NEW c \in Cmds, Moves(c), NEW d \in Cmds
      PROVE  replays[d] < store[run(d)].version => replays[d] < store'[run(d)].version
  <2>1. /\ store[run(d)].version \in Nat /\ replays[d] \in Nat
        /\ store'[run(d)] = store[run(d)] \/ store'[run(d)].version = store[run(d)].version + 1
    BY <1>1, <1>2, HistoryGrows, CommandsAssumption DEF run
  <2>2. QED BY <2>1
<1>3. ASSUME NEW c \in Cmds, Moves(c), NEW d \in Cmds, d # c PROVE Replayer(d)
  <2>1. Undisturbed(d) /\ kind(d)' = kind(d)
    BY <1>3, OthersUndisturbed DEF Undisturbed, kind
  <2>2. QED BY <1>2, <1>3, <2>1 DEF Undisturbed, ReplaysOK
<1>4. ASSUME NEW c \in Cmds, Execute(c) PROVE Replayer(c)
  <2>1. kind(c)' = kind(c) /\ resolved' = resolved /\ base' = base
    BY <1>4 DEF Execute, kind
  <2>2. QED BY <1>4, <2>1, ReplayMakes
<1>5. ASSUME NEW c \in Cmds, Moves(c), ~Execute(c), replays[c] # 0, pc[c] = "saving"
      PROVE  Replayer(c)
  <2>1. /\ kind(c) = "continue" /\ replays[c] = base[c].version
        /\ resolved[c] # NoRequirement /\ ValidRunState(final[c])
    BY <1>5 DEF ReplaysOK
  <2>2. replays' = replays /\ kind(c)' = kind(c)
    <3>1. ~Dispatch(c)
      BY <1>5 DEF Dispatch
    <3>2. QED BY <1>1, <1>5, <3>1, OnlyExecutesReplay, RequestStays DEF kind
  <2>3. CASE Save(c)
    <3>1. Commits(c, final[c]) /\ base[c].version = store[run(c)].version
      BY <2>1, <2>3, ReplayIsSaved
    <3>2. pc'[c] = "publishing"
      BY <2>3, <3>1, SaveCommits
    <3>3. store'[run(c)].version = store[run(c)].version + 1 /\ store[run(c)].version \in Nat
      BY <3>1, CommitAppends, CommandsAssumption DEF TypeOK, StateType, run
    <3>4. replays[c] < store'[run(c)].version
      BY <2>1, <3>1, <3>3
    <3>5. QED BY <2>1, <2>2, <3>2, <3>4
  <2>4. CASE SaveInterrupted(c)
    <3>1. pc'[c] = "returning" /\ "context" \in errs'[c]
      BY <1>1, <2>4 DEF SaveInterrupted, Refuse, GoTo
    <3>2. QED BY <2>1, <2>2, <3>1
  <2>5. CASE ~Save(c) /\ ~SaveInterrupted(c)
    <3>1. pc'[c] = pc[c] /\ UNCHANGED <<base, final, resolved>>
      BY <1>5, <2>5, WorkGoesOn
    <3>2. QED BY <1>5, <2>1, <2>2, <3>1
  <2>6. QED BY <2>3, <2>4, <2>5
<1>6. ASSUME NEW c \in Cmds, Moves(c), replays[c] # 0,
             pc[c] \in {"publishing", "returning", "done"}
      PROVE  Replayer(c)
  <2>1. /\ pc'[c] \in {"publishing", "returning", "done"} /\ errs[c] \subseteq errs'[c]
        /\ UNCHANGED <<replays, req, store>>
    BY <1>6, PastGoesOn
  <2>2. kind(c)' = kind(c)
    BY <2>1 DEF kind
  <2>3. /\ kind(c) = "continue"
        /\ "context" \in errs[c] \/ replays[c] < store[run(c)].version
    BY <1>6 DEF ReplaysOK
  <2>4. QED BY <2>1, <2>2, <2>3
<1>7. ASSUME NEW c \in Cmds, Moves(c) PROVE Replayer(c)
  <2>1. CASE ~Execute(c) /\ replays[c] # 0
    <3>1. pc[c] = "saving" \/ pc[c] \in {"publishing", "returning", "done"}
      BY <2>1 DEF ReplaysOK
    <3>2. QED BY <1>5, <1>6, <1>7, <2>1, <3>1
  <2>2. CASE ~Execute(c) /\ replays[c] = 0
    BY <1>7, <2>2, OnlyExecutesReplay
  <2>3. QED BY <1>4, <2>1, <2>2
<1>8. CASE \E c \in Cmds : Moves(c)
  <2>1. \A d \in Cmds : Replayer(d)
    BY <1>3, <1>7, <1>8
  <2>2. QED BY <2>1 DEF ReplaysOK, ValidRunState, SuspensionInvariant, kind, run
<1>9. CASE UNCHANGED vars
  BY <1>9 DEF vars, callVars, ReplaysOK, ValidRunState, SuspensionInvariant, kind, run
<1>10. QED BY <1>8, <1>9 DEF Next, Quiet, Moves

-----------------------------------------------------------------------------
(***************************************************************************)
(* The invariant, and what follows from it.                                *)
(***************************************************************************)

\* Nothing was dispatched, stored, told or answered at first.
LEMMA ResultInit ==
  ASSUME Init
  PROVE  /\ AnswersOK /\ CacheOK /\ EventsOK
         /\ InstructionsOK /\ SuspensionsOK /\ ReplaysOK
<1>1. /\ \A r \in Runs : history[r] = <<>> /\ store[r].version = 0 /\ told[r] = 0
      /\ \A c \in Cmds : pc[c] = "idle" /\ todo[c] = <<>> /\ replays[c] = 0
      /\ \A k \in Runs \X CommandIDs : outcomes[k].known = FALSE
  BY NoRunTyped DEF Init, NoOutcome
<1>2. \A c \in Cmds : ~Persisted(c)
  BY <1>1, CommandsAssumption DEF Persisted, run
<1>3. AnswersOK
  BY <1>1 DEF AnswersOK
<1>4. CacheOK
  BY <1>1, <1>2 DEF CacheOK
<1>5. EventsOK
  BY <1>1 DEF EventsOK
<1>6. InstructionsOK
  BY <1>1, <1>2 DEF InstructionsOK
<1>7. SuspensionsOK
  BY <1>1 DEF SuspensionsOK
<1>8. ReplaysOK
  BY <1>1 DEF ReplaysOK
<1>9. QED BY <1>3, <1>4, <1>5, <1>6, <1>7, <1>8

\* Every step keeps what is answered, remembered, announced, stored and replayed in
\* agreement with the history of the run.
LEMMA ResultStep ==
  TypeOK /\ IInv /\ WorkInv /\ ResultInv /\ [Next]_vars => (ResultInv)'
<1>1. TypeOK /\ IInv /\ WorkInv /\ [Next]_vars => WorkInv'
  BY RequestsStep, HistoryStep, EffectsStep DEF WorkInv
<1>2. QED
  BY <1>1, AnswersStep, CacheStep, EventsStep, InstructionsStep, SuspensionsStep, ReplaysStep
     DEF ResultInv

\* What the commands answer, what is remembered for their retries, what the sink
\* was told and what was replayed always agree with what is stored.
THEOREM ResultInvariant == Spec => []ResultInv
<1>1. Init /\ WorkInv => ResultInv
  BY ResultInit DEF ResultInv
<1>2. QED BY <1>1, ResultStep, WorkInvariant, TypeCorrect, Invariant, PTL DEF Spec

\* A result that was returned without a refusal is a version that was really
\* stored: Dispatch never answers with a state whose save the store refused.
THEOREM AnswersArePersisted == Spec => []ResultsArePersisted
<1>1. ResultInv => ResultsArePersisted
  <2> SUFFICES ASSUME ResultInv, NEW c \in Cmds, Acknowledged(c)
               PROVE  /\ final[c].version \in DOMAIN history[run(c)]
                      /\ LET h == history[run(c)][final[c].version] IN
                         h = c \/ (HasKey(c) /\ HasKey(h) /\ req[h].id = req[c].id)
                      /\ final[c].version = store[run(c)].version => final[c] = store[run(c)]
    BY DEF ResultsArePersisted
  <2>1. PICK d \in Cmds : (d = c \/ SameKey(c, d)) /\ WrittenBy(d, final[c])
    BY DEF ResultInv, AnswersOK, Acknowledged
  <2>2. /\ run(d) = run(c)
        /\ d = c \/ (HasKey(c) /\ HasKey(d) /\ req[d].id = req[c].id)
    BY <2>1 DEF SameKey, Key
  <2>3. QED BY <2>1, <2>2 DEF WrittenBy
<1>2. QED BY <1>1, ResultInvariant, PTL

\* The instruction of a steer or follow_up that was acknowledged is in the stored
\* transcript, whatever was dispatched on the run since.
THEOREM InstructionsStay == Spec => []NoLostInstruction
<1>1. ResultInv => NoLostInstruction
  <2> SUFFICES ASSUME ResultInv, NEW c \in Cmds, Acknowledged(c),
                      kind(c) \in {"steer", "follow_up"}
               PROVE  \E i \in DOMAIN store[run(c)].messages :
                        store[run(c)].messages[i] = UserMessage(c)
    BY DEF NoLostInstruction
  <2>1. PICK d \in Cmds : (d = c \/ SameKey(c, d)) /\ WrittenBy(d, final[c])
    BY DEF ResultInv, AnswersOK, Acknowledged
  <2>2. d = c
    BY <2>1 DEF SameKey, HasKey
  <2>3. Persisted(c)
    BY <2>1, <2>2 DEF WrittenBy, Persisted
  <2>4. QED BY <2>3 DEF ResultInv, InstructionsOK, Says
<1>2. QED BY <1>1, ResultInvariant, PTL

\* The sink hears of the versions of a run in their order, from every command that
\* takes the run's mutex: each publishes before it lets go of it.
THEOREM EventsAreOrdered == Spec => EventsFollowVersions
<1>1. TypeOK /\ IInv /\ ResultInv /\ [Next]_vars
        => [\A r \in Runs : told'[r] >= told[r]]_vars
  <2> SUFFICES ASSUME TypeOK, IInv, ResultInv, [Next]_vars, ~UNCHANGED vars, NEW r \in Runs
               PROVE  told'[r] >= told[r]
    OBVIOUS
  <2>1. PICK c \in Cmds : Moves(c)
    BY DEF Next, Quiet, Moves
  <2>2. told[r] \in Nat /\ store[r].version \in Nat
    BY DEF TypeOK, StateType
  <2>3. CASE told'[r] = told[r]
    BY <2>2, <2>3
  <2>4. CASE told'[r] # told[r]
    <3>1. told'[r] = final[c].version /\ told[r] <= told'[r]
      BY <2>1, <2>4, Announces DEF ResultInv
    <3>2. final[c] \in StateType
      BY DEF TypeOK
    <3>3. QED BY <2>2, <3>1, <3>2 DEF StateType
  <2>5. QED BY <2>3, <2>4
<1>2. QED
  BY <1>1, ResultInvariant, TypeCorrect, Invariant, PTL DEF Spec, EventsFollowVersions

-----------------------------------------------------------------------------
(***************************************************************************)
(* A command id is written once, and a suspension is replayed once.        *)
(***************************************************************************)

\* What a persisted command asked was asked before the step that is looked at.
LEMMA PersistedAsked ==
  ASSUME TypeOK, IInv, WorkInv, NEW c \in Cmds, Moves(c), NEW d \in Cmds, Persisted(d)'
  PROVE  req'[d] = req[d]
<1>1. RequestsOK /\ HistoryOK
  BY DEF WorkInv
<1>2. CASE Dispatch(c)
  <2>1. pc[c] = "idle" /\ history' = history
    BY <1>2 DEF Dispatch
  <2>2. Persisted(d)
    BY <2>1 DEF Persisted, run
  <2>3. pc[d] # "idle"
    BY <1>1, <2>2, PersistedIsPast
  <2>4. QED BY <1>1, <2>3, AskedStays
<1>3. CASE ~Dispatch(c)
  BY <1>1, <1>3, RequestStays
<1>4. QED BY <1>2, <1>3

\* A continue is not written while another with its command id is.
LEMMA WrittenOnce ==
  ASSUME TypeOK, IInv, WorkInv, CacheOK, NEW c \in Cmds, NEW d \in Cmds, c # d,
         run(c) = run(d), HasKey(c), HasKey(d), req[c].id = req[d].id,
         Save(c), Persisted(d)
  PROVE  FALSE
<1>1. Key(c) = Key(d)
  BY DEF Key
<1>2. pc[c] = "saving" /\ kind(c) # "start" /\ kind(d) # "start"
  BY DEF Save, HasKey
<1>3. ~outcomes[Key(c)].known
  BY <1>2 DEF CacheOK
<1>4. pc[d] = "publishing"
  <2>1. PICK k : k = Key(d)
    OBVIOUS
  <2>2. pc[d] = "publishing" \/ outcomes[k].known
    BY <2>1 DEF CacheOK
  <2>3. QED BY <1>1, <1>3, <2>1, <2>2
<1>5. QED BY <1>2, <1>4, LockedAlone DEF Holding

\* However often a continue is sent again with its command id, and whatever the
\* attempts race with, one of them is written at most.
THEOREM WritesOnce == Spec => []OneWritePerCommandID
<1>1. Init => OneWritePerCommandID
  <2>1. ASSUME Init PROVE \A c \in Cmds : ~Persisted(c)
    <3>1. \A r \in Runs : history[r] = <<>>
      BY <2>1 DEF Init
    <3>2. QED BY <3>1, CommandsAssumption DEF Persisted, run
  <2>2. QED BY <2>1 DEF OneWritePerCommandID
<1>2. TypeOK /\ IInv /\ ResultInv /\ OneWritePerCommandID /\ [Next]_vars
        => OneWritePerCommandID'
  <2> SUFFICES ASSUME TypeOK, IInv, ResultInv, OneWritePerCommandID, [Next]_vars
               PROVE  OneWritePerCommandID'
    OBVIOUS
  <2>1. WorkInv /\ CacheOK /\ HistoryOK
    BY DEF ResultInv, WorkInv
  <2>2. CASE UNCHANGED vars
    BY <2>2 DEF vars, callVars, OneWritePerCommandID, HasKey, Persisted, kind, run
  <2>3. ASSUME NEW x \in Cmds, Moves(x), NEW c \in Cmds, NEW d \in Cmds, c # d,
               run(c) = run(d), HasKey(c)', HasKey(d)', req'[c].id = req'[d].id,
               Persisted(c)', Persisted(d)'
        PROVE  FALSE
    <3>1. req'[c] = req[c] /\ req'[d] = req[d]
      BY <2>1, <2>3, PersistedAsked
    <3>2. /\ HasKey(c) /\ HasKey(d) /\ req[c].id = req[d].id
          /\ kind(c) # "start" /\ kind(d) # "start"
      BY <2>3, <3>1 DEF HasKey, kind
    <3>3. /\ Persisted(c) \/ (c = x /\ Save(x))
          /\ Persisted(d) \/ (d = x /\ Save(x))
      BY <2>1, <2>3, <3>2, PersistedNow
    <3>4. CASE Persisted(c) /\ Persisted(d)
      BY <2>3, <3>2, <3>4 DEF OneWritePerCommandID
    <3>5. CASE Persisted(d) /\ c = x /\ Save(x)
      BY <2>1, <2>3, <3>2, <3>5, WrittenOnce
    <3>6. CASE Persisted(c) /\ d = x /\ Save(x)
      BY <2>1, <2>3, <3>2, <3>6, WrittenOnce
    <3>7. QED BY <2>3, <3>3, <3>4, <3>5, <3>6
  <2>4. CASE \E x \in Cmds : Moves(x)
    <3>1. PICK x \in Cmds : Moves(x)
      BY <2>4
    <3>2. ASSUME NEW c \in Cmds, NEW d \in Cmds, c # d, run(c) = run(d),
                 HasKey(c)', HasKey(d)', req'[c].id = req'[d].id
          PROVE  ~(Persisted(c)' /\ Persisted(d)')
      BY <2>3, <3>1, <3>2
    <3>3. QED BY <3>2 DEF OneWritePerCommandID, run
  <2>5. QED BY <2>2, <2>4 DEF Next, Quiet, Moves
<1>3. QED BY <1>1, <1>2, ResultInvariant, TypeCorrect, Invariant, PTL DEF Spec

\* Whatever a command that replayed a call does next, it drops no error.
LEMMA ReplayerRemembers ==
  ASSUME TypeOK, ReplaysOK, NEW c \in Cmds, Moves(c), ~Execute(c), replays[c] # 0
  PROVE  errs[c] \subseteq errs'[c]
<1>1. errs \in [Cmds -> SUBSET Errors] /\ pc \in [Cmds -> PCs]
  BY DEF TypeOK
<1>2. pc[c] = "saving" \/ pc[c] \in {"publishing", "returning", "done"}
  BY DEF ReplaysOK
<1>3. CASE pc[c] \in {"publishing", "returning", "done"}
  BY <1>3, PastGoesOn
<1>4. CASE pc[c] = "saving"
  <2>1. CASE Save(c) \/ SaveInterrupted(c)
    BY <1>1, <2>1 DEF Save, SaveInterrupted, Refuse
  <2>2. CASE ~(Save(c) \/ SaveInterrupted(c))
    BY <1>4, <2>2, WorkGoesOn
  <2>3. QED BY <2>1, <2>2
<1>5. QED BY <1>2, <1>3, <1>4

\* A call that was replayed in the version that is being continued was replayed by a
\* command whose context ended.
LEMMA ReplayedAgain ==
  ASSUME TypeOK, IInv, ResultInv, NEW c \in Cmds, NEW d \in Cmds, c # d, run(c) = run(d),
         Execute(c), replays'[c] # 0, replays'[c] = replays[d]
  PROVE  "context" \in errs[d]
<1>1. WorkInv /\ SuspensionsOK /\ ReplaysOK /\ replays[d] \in Nat
  BY DEF ResultInv, TypeOK
<1>2. /\ kind(c) = "continue" /\ pc[c] = "executing"
      /\ replays[d] = store[run(c)].version
  BY <1>1, ReplayMakes DEF Execute
<1>3. replays[d] # 0 /\ kind(d) = "continue"
  BY <1>1 DEF ReplaysOK
<1>4. pc[d] # "saving"
  BY <1>2, <1>3, LockedAlone DEF Holding
<1>5. ~(replays[d] < store[run(d)].version)
  BY <1>1, <1>2
<1>6. QED BY <1>1, <1>3, <1>4, <1>5 DEF ReplaysOK

\* The blocked call of a suspension is not replayed for a second continue, unless the
\* first one was told that its context ended before it could save.
THEOREM ReplaysOnce == Spec => []ReplayedOncePerSuspension
<1>1. Init => ReplayedOncePerSuspension
  BY DEF Init, ReplayedOncePerSuspension
<1>2. TypeOK /\ IInv /\ ResultInv /\ ReplayedOncePerSuspension /\ [Next]_vars
        => ReplayedOncePerSuspension'
  <2> SUFFICES ASSUME TypeOK, IInv, ResultInv, ReplayedOncePerSuspension, [Next]_vars
               PROVE  ReplayedOncePerSuspension'
    OBVIOUS
  <2> DEFINE Told(c, d) == "context" \in errs'[c] \/ "context" \in errs'[d]
  <2>1. ReplaysOK
    BY DEF ResultInv
  <2>2. CASE UNCHANGED vars
    BY <2>2 DEF vars, callVars, ReplayedOncePerSuspension, run
  <2>3. ASSUME NEW x \in Cmds, Moves(x), ~Execute(x), NEW c \in Cmds, replays'[c] # 0
        PROVE  replays'[c] = replays[c] /\ errs[c] \subseteq errs'[c]
    <3>1. replays' = replays
      BY <2>3, OnlyExecutesReplay
    <3>2. CASE c = x
      BY <2>1, <2>3, <3>1, <3>2, ReplayerRemembers
    <3>3. CASE c # x
      BY <2>3, <3>1, <3>3, OthersUndisturbed DEF Undisturbed
    <3>4. QED BY <3>2, <3>3
  <2>4. ASSUME NEW x \in Cmds, Execute(x), NEW d \in Cmds, d # x, run(x) = run(d),
               replays'[x] # 0, replays'[x] = replays'[d]
        PROVE  "context" \in errs'[d]
    <3>1. replays'[d] = replays[d] /\ errs'[d] = errs[d]
      BY <2>4, OthersUndisturbed DEF Undisturbed, Moves, Step
    <3>2. QED BY <2>4, <3>1, ReplayedAgain
  <2>5. ASSUME NEW x \in Cmds, Moves(x), NEW c \in Cmds, NEW d \in Cmds, c # d,
               run(c) = run(d), replays'[c] # 0, replays'[c] = replays'[d]
        PROVE  Told(c, d)
    <3>1. CASE ~Execute(x)
      <4>1. /\ replays'[c] = replays[c] /\ errs[c] \subseteq errs'[c]
            /\ replays'[d] = replays[d] /\ errs[d] \subseteq errs'[d]
        BY <2>3, <2>5, <3>1
      <4>2. "context" \in errs[c] \cup errs[d]
        BY <2>5, <4>1 DEF ReplayedOncePerSuspension
      <4>3. QED BY <4>1, <4>2
    <3>2. CASE Execute(x) /\ x = c
      BY <2>4, <2>5, <3>2
    <3>3. CASE Execute(x) /\ x = d
      BY <2>4, <2>5, <3>3
    <3>4. CASE Execute(x) /\ x # c /\ x # d
      <4>1. /\ replays'[c] = replays[c] /\ errs'[c] = errs[c]
            /\ replays'[d] = replays[d] /\ errs'[d] = errs[d]
        BY <2>5, <3>4, OthersUndisturbed DEF Undisturbed
      <4>2. "context" \in errs[c] \cup errs[d]
        BY <2>5, <4>1 DEF ReplayedOncePerSuspension
      <4>3. QED BY <4>1, <4>2
    <3>5. QED BY <3>1, <3>2, <3>3, <3>4
  <2>6. CASE \E x \in Cmds : Moves(x)
    <3>1. PICK x \in Cmds : Moves(x)
      BY <2>6
    <3>2. ASSUME NEW c \in Cmds, NEW d \in Cmds, c # d, run(c) = run(d),
                 replays'[c] # 0, replays'[c] = replays'[d]
          PROVE  "context" \in errs'[c] \cup errs'[d]
      <4>1. Told(c, d)
        BY <2>5, <3>1, <3>2
      <4>2. QED BY <4>1
    <3>3. QED BY <3>2 DEF ReplayedOncePerSuspension, run
  <2>7. QED BY <2>2, <2>6 DEF Next, Quiet, Moves
<1>3. QED BY <1>1, <1>2, ResultInvariant, TypeCorrect, Invariant, PTL DEF Spec

-----------------------------------------------------------------------------
(***************************************************************************)
(* A stored suspension can be resolved, and its approval replays its call. *)
(***************************************************************************)

Resolvable(st) ==
  st.status = "suspended" =>
    /\ ValidRequirement(st.requirement)
    /\ st.requirement.origin = "model" => AssistantRequired(st.messages, st.requirement)
    /\ st.requirement.origin = "tool" => Announced(st.messages, st.requirement.call)

\* What the engine appended to a transcript is in the transcript.
LEMMA AdditionsAreSaid ==
  ASSUME NEW prev, NEW next, prev.messages \in Seq(MessageType),
         next.messages \in Seq(MessageType), NEW q,
         AssistantRequired(Additions(prev, next), q)
  PROVE  AssistantRequired(next.messages, q)
<1> DEFINE s == prev.messages
           t == next.messages
           u == SubSeq(t, Len(s) + 1, Len(t))
<1>1. /\ Len(s) \in Nat /\ Len(t) \in Nat
      /\ DOMAIN t = 1..Len(t)
  BY LenProperties
<1>2. PICK i \in DOMAIN u : /\ u[i].role = "assistant"
                            /\ u[i].requirement # NoRequirement
                            /\ SameRequirement(u[i].requirement, q)
  BY DEF AssistantRequired, Additions
<1> HIDE DEF s, t
<1>3. t \in Seq(MessageType)
  BY DEF t
<1>4. PICK j \in DOMAIN t : u[i] = t[j]
  <2>1. \A k \in 1..Len(u) : Len(s) + k \in 1..Len(t) /\ u[k] = t[Len(s) + k]
    BY <1>1, <1>3
  <2>2. DOMAIN u = 1..Len(u)
    BY <1>1, <1>3
  <2>3. QED BY <1>1, <1>2, <2>1, <2>2
<1>5. AssistantRequired(t, q)
  BY <1>2, <1>4 DEF AssistantRequired
<1>6. QED BY <1>5 DEF t

\* A state that an engine suspended, and that the runner and the store accept, has the
\* message that raised its requirement.
LEMMA AcceptedIsResolvable ==
  ASSUME NEW prev \in StateType, NEW st \in StateType, ValidEngineOutput(prev, st),
         ValidRunState(st)
  PROVE  Resolvable(st)
<1> SUFFICES ASSUME st.status = "suspended" PROVE Resolvable(st)
  BY DEF Resolvable
<1>1. prev.messages \in Seq(MessageType) /\ st.messages \in Seq(MessageType)
  BY DEF StateType
<1>2. ValidRequirement(st.requirement)
  BY DEF ValidRunState, SuspensionInvariant
<1>3. st.requirement # NoRequirement
  <2>1. st.requirement.id # "" /\ NoRequirement.id = ""
    BY <1>2 DEF ValidRequirement, NoRequirement
  <2>2. QED BY <2>1
<1>4. \/ st.requirement.origin = "model"
         /\ AssistantRequired(Additions(prev, st), st.requirement)
      \/ /\ st.requirement.origin = "tool"
         /\ Announced(st.messages, st.requirement.call)
  BY <1>3 DEF ValidEngineOutput, Provenance
<1>5. CASE st.requirement.origin = "model"
  <2>1. AssistantRequired(st.messages, st.requirement)
    BY <1>1, <1>4, <1>5, AdditionsAreSaid
  <2>2. QED BY <1>2, <1>5, <2>1 DEF Resolvable
<1>6. CASE st.requirement.origin = "tool"
  BY <1>2, <1>4, <1>6 DEF Resolvable
<1>7. QED BY <1>4, <1>5, <1>6

\* No gate lets an instruction into a suspended run, and a cancel ends the suspension.
LEMMA EditIsNotSuspended ==
  ASSUME NEW c \in Cmds, NEW st \in StateType, kind(c) \in {"cancel", "steer"},
         LoadError(kind(c), st, req[c].resolution) = ""
  PROVE  Prepared(c, st).status # "suspended"
<1>1. CASE kind(c) = "cancel"
  BY <1>1 DEF Prepared, Cancelled, Transition, StateType
<1>2. CASE kind(c) = "steer"
  <2>1. InstructionError(st) = ""
    BY <1>2 DEF LoadError, GateError
  <2>2. st.status # "suspended"
    BY <2>1 DEF InstructionError
  <2>3. Prepared(c, st).status = st.status
    BY <1>2 DEF Prepared, Instructed, StateType
  <2>4. QED BY <2>2, <2>3
<1>3. QED BY <1>1, <1>2

\* What a step stores can be resolved if it is suspended.
LEMMA ResolvableStep ==
  ASSUME TypeOK, IInv, WorkInv, NEW c \in Cmds, Moves(c), NEW r \in Runs,
         Resolvable(store[r])
  PROVE  Resolvable(store'[r])
<1>1. CASE UNCHANGED <<store, history>>
  BY <1>1
<1>2. ASSUME NEW st, Commits(c, st), Resolvable(Versioned(st)) PROVE Resolvable(store'[r])
  BY <1>2, CommitAppends
<1>3. ASSUME NEW st \in StateType, Resolvable(st) PROVE Resolvable(Versioned(st))
  <2>1. /\ Versioned(st).status = st.status /\ Versioned(st).requirement = st.requirement
        /\ Versioned(st).messages = st.messages
    BY DEF Versioned, StateType
  <2>2. QED BY <1>3, <2>1 DEF Resolvable
<1>4. CASE Create(c) /\ base[c] = StartState(c) /\ Commits(c, base[c])
  <2>1. base[c].status = "pending" /\ base[c] \in StateType
    BY <1>4 DEF StartState, NoRun, Commits
  <2>2. Resolvable(base[c])
    BY <2>1 DEF Resolvable
  <2>3. QED BY <1>2, <1>3, <1>4, <2>1, <2>2
<1>5. CASE Save(c) /\ Commits(c, final[c])
  <2>1. /\ WorksFromStored(c) /\ SavesItsWork(c)
        /\ base[c] \in StateType /\ final[c] \in StateType /\ store[run(c)] \in StateType
    BY <1>5, SaveIsLater, CommandsAssumption DEF TypeOK, run
  <2>2. CASE Executes(kind(c))
    <3>1. ValidEngineOutput(base[c], final[c])
      BY <2>1, <2>2 DEF SavesItsWork
    <3>2. Resolvable(final[c])
      BY <1>5, <2>1, <3>1, AcceptedIsResolvable DEF Commits
    <3>3. QED BY <1>2, <1>3, <1>5, <2>1, <3>2
  <2>3. CASE ~Executes(kind(c))
    <3>1. kind(c) \in {"cancel", "steer"}
      BY <2>3 DEF Executes, kind, TypeOK, RequestType, CommandKinds
    <3>2. /\ final[c] = Prepared(c, store[run(c)])
          /\ LoadError(kind(c), store[run(c)], req[c].resolution) = ""
      BY <2>1, <2>3, <3>1 DEF SavesItsWork, WorksFromStored
    <3>3. final[c].status # "suspended"
      BY <2>1, <3>1, <3>2, EditIsNotSuspended
    <3>4. Resolvable(final[c])
      BY <3>3 DEF Resolvable
    <3>5. QED BY <1>2, <1>3, <1>5, <2>1, <3>4
  <2>4. QED BY <2>2, <2>3
<1>6. QED BY <1>1, <1>4, <1>5, StepsWrite

\* A suspended run that is stored can be resumed: whatever the engine returned, its
\* requirement is valid and the transcript shows who raised it.
THEOREM SuspensionsAreResolvable == Spec => []SuspensionIsResolvable
<1>1. Init => SuspensionIsResolvable
  <2>1. ASSUME Init, NEW r \in Runs PROVE store[r].status = ""
    BY <2>1, NoRunTyped DEF Init
  <2>2. QED BY <2>1 DEF SuspensionIsResolvable
<1>2. TypeOK /\ IInv /\ WorkInv /\ SuspensionIsResolvable /\ [Next]_vars
        => SuspensionIsResolvable'
  <2> SUFFICES ASSUME TypeOK, IInv, WorkInv, SuspensionIsResolvable, [Next]_vars
               PROVE  SuspensionIsResolvable'
    OBVIOUS
  <2>1. \A r \in Runs : Resolvable(store[r])
    BY DEF SuspensionIsResolvable, Resolvable
  <2>2. CASE \E c \in Cmds : Moves(c)
    <3>1. \A r \in Runs : Resolvable(store'[r])
      BY <2>1, <2>2, ResolvableStep
    <3>2. QED BY <3>1 DEF SuspensionIsResolvable, Resolvable
  <2>3. CASE UNCHANGED vars
    BY <2>3 DEF vars, SuspensionIsResolvable
  <2>4. QED BY <2>2, <2>3 DEF Next, Quiet, Moves
<1>3. QED BY <1>1, <1>2, WorkInvariant, TypeCorrect, Invariant, PTL DEF Spec

\* The requirements of one id are raised by one origin (the runner does not compare
\* the origin when it resolves a requirement).
IdsHaveOneOrigin == \A p, q \in Requirements : p.id = q.id => p.origin = q.origin

\* A continue that the gates let approve a tool's requirement works from the stored
\* suspension, resumed, with that requirement and the call it blocked.
LEMMA ApprovalLoads ==
  ASSUME TypeOK, WorkInv, IdsHaveOneOrigin, NEW c \in Cmds, NEW st \in StateType,
         ApprovesToolCall(c), LoadError(kind(c), st, req[c].resolution) = "",
         Resolvable(st)
  PROVE  /\ Prepared(c, st).status = "running"
         /\ Prepared(c, st).requirement = NoRequirement
         /\ ReplayRequested(req[c].resolution, Resolved(c, st))
         /\ Announced(Prepared(c, st).messages, Resolved(c, st).call)
<1> DEFINE s == req[c].resolution
<1>1. kind(c) = "continue" /\ s.outcome = "approved"
  BY DEF ApprovesToolCall
<1>2. ResolutionError(st, s) = ""
  BY <1>1 DEF LoadError, GateError, ContinueError
<1>3. s # NoResolution
  <2>1. NoResolution.outcome # "approved"
    BY DEF NoResolution
  <2>2. QED BY <1>1, <2>1
<1>4. st.status = "suspended" /\ Resolves(s, st.requirement)
  BY <1>2, <1>3 DEF ResolutionError
<1>5. s.kind = "approval"
  <2>1. s.outcome \in OutcomesOf(s.kind) /\ s.kind \in RequirementKinds
    BY <1>4 DEF Resolves, ValidResolution
  <2>2. QED BY <1>1, <2>1 DEF OutcomesOf, RequirementKinds
<1>6. st.requirement.origin = "tool"
  <2>1. PICK q \in Requirements : q.origin = "tool" /\ q.id = s.req
    BY DEF ApprovesToolCall
  <2>2. st.requirement.id = q.id /\ st.requirement.id # ""
    BY <1>4, <2>1 DEF Resolves, ValidRequirement
  <2>3. st.requirement # NoRequirement
    <3>1. NoRequirement.id = ""
      BY DEF NoRequirement
    <3>2. QED BY <2>2, <3>1
  <2>4. st.requirement \in Requirements
    BY <2>3 DEF StateType, RequirementType
  <2>5. QED BY <2>1, <2>2, <2>4 DEF IdsHaveOneOrigin
<1>7. Announced(st.messages, st.requirement.call)
  BY <1>4, <1>6 DEF Resolvable
<1>8. Resolved(c, st) = st.requirement
  BY <1>1 DEF Resolved
<1>9. /\ Prepared(c, st).status = "running"
      /\ Prepared(c, st).requirement = NoRequirement
      /\ Prepared(c, st).messages = st.messages
  BY <1>1, <1>4 DEF Prepared, Resumed, Transition, StateType
<1>10. QED BY <1>1, <1>5, <1>6, <1>7, <1>8, <1>9 DEF ReplayRequested

\* The React engine replays what it is asked to: the runner saves what it returns.
LEMMA ApprovalExecutes ==
  ASSUME TypeOK, WorkInv, EngineKinds = {"react"}, NEW c \in Cmds, Execute(c),
         base[c].status = "running", base[c].requirement = NoRequirement,
         ReplayRequested(req[c].resolution, resolved[c]),
         Announced(base[c].messages, resolved[c].call)
  PROVE  replays'[c] = base[c].version
<1>1. /\ base[c] \in StateType /\ resolved[c] \in RequirementType /\ ctxDone[c] \in BOOLEAN
  BY DEF TypeOK
<1>2. PICK out \in EngineOutcomes(c, base[c], req[c].resolution, resolved[c], ctxDone[c]) :
        replays'[c] = IF out.replayed THEN base[c].version ELSE replays[c]
  BY ExecuteMakes
<1>3. out \in ReactOutcomes(c, base[c], req[c].resolution, resolved[c], ctxDone[c])
  BY <1>2 DEF EngineOutcomes
<1>4. TransitionOK(base[c], "running")
  BY <1>1 DEF TransitionOK, CanTransition, SuspensionInvariant, StateType
<1>5. out.replayed
  BY <1>1, <1>3, <1>4, ReactReplays
<1>6. QED BY <1>2, <1>5

\* An approval keeps its requirement and its call from the load to the save.
LEMMA ApprovalsStep ==
  ASSUME EngineKinds = {"react"}, IdsHaveOneOrigin
  PROVE  TypeOK /\ IInv /\ WorkInv /\ SuspensionIsResolvable /\ ApprovalsOK /\ [Next]_vars
           => ApprovalsOK'
<1> SUFFICES ASSUME TypeOK, IInv, WorkInv, SuspensionIsResolvable, ApprovalsOK, [Next]_vars
             PROVE  ApprovalsOK'
  OBVIOUS
<1>1. /\ pc \in [Cmds -> PCs] /\ req \in [Cmds -> RequestType] /\ RequestsOK /\ HistoryOK
      /\ replays \in [Cmds -> Nat] /\ base \in [Cmds -> StateType]
  BY DEF TypeOK, WorkInv
<1>2. CASE UNCHANGED vars
  BY <1>2 DEF vars, callVars, ApprovalsOK, ApprovesToolCall, Persisted, kind, run
<1> DEFINE Ready(d) == /\ base'[d].status = "running" /\ base'[d].requirement = NoRequirement
                       /\ ReplayRequested(req'[d].resolution, resolved'[d])
                       /\ Announced(base'[d].messages, resolved'[d].call)
<1>3. ASSUME NEW c \in Cmds, Moves(c), NEW d \in Cmds, ApprovesToolCall(d)'
      PROVE  /\ kind(d)' = "continue"
             /\ pc'[d] \in {"executing", "saving"} \/ Persisted(d)' =>
                  /\ ~Dispatch(c) \/ d # c
                  /\ req'[d] = req[d] /\ ApprovesToolCall(d) /\ kind(d) = "continue"
  <2>1. kind(d)' = "continue"
    BY <1>3 DEF ApprovesToolCall
  <2>2. ASSUME Dispatch(c), d = c PROVE pc'[d] \notin {"executing", "saving"} /\ ~Persisted(d)'
    <3>1. /\ pc[d] = "idle" /\ history' = history
          /\ pc'[d] \in {"creating", "locking"}
      BY <1>1, <2>2 DEF Dispatch, GoTo
    <3>2. ~Persisted(d)
      BY <1>1, <3>1, PersistedIsPast
    <3>3. QED BY <3>1, <3>2 DEF Persisted, run
  <2>3. ASSUME ~(Dispatch(c) /\ d = c) PROVE req'[d] = req[d]
    <3>1. CASE d = c
      BY <1>1, <1>3, <2>3, <3>1, RequestStays
    <3>2. CASE d # c
      BY <1>3, <3>2, OthersUndisturbed DEF Undisturbed
    <3>3. QED BY <3>1, <3>2
  <2>4. req'[d] = req[d] => ApprovesToolCall(d) /\ kind(d) = "continue"
    BY <1>3, <2>1 DEF ApprovesToolCall, kind
  <2>5. QED BY <2>1, <2>2, <2>3, <2>4
<1>4. ASSUME NEW c \in Cmds, Moves(c), NEW d \in Cmds, ApprovesToolCall(d)',
             pc'[d] = "executing"
      PROVE  Ready(d)
  <2>1. ApprovesToolCall(d) /\ kind(d) = "continue" /\ req'[d] = req[d]
    BY <1>3, <1>4
  <2>2. CASE d # c
    BY <1>4, <2>1, <2>2, OthersUndisturbed DEF Undisturbed, ApprovalsOK
  <2>3. CASE d = c /\ pc[d] \in {"executing", "saving"}
    <3>1. pc[d] = "executing" /\ UNCHANGED <<base, resolved>>
      <4>1. ~Execute(c) /\ ~Save(c) /\ ~SaveInterrupted(c)
        BY <1>1, <1>4, <2>3 DEF Execute, Save, SaveInterrupted, Refuse, GoTo
      <4>2. QED BY <1>4, <2>3, <4>1, WorkGoesOn
    <3>2. QED BY <2>1, <3>1 DEF ApprovalsOK
  <2>4. CASE d = c /\ Load(c)
    <3>1. /\ LoadError(kind(c), store[run(c)], req[c].resolution) = ""
          /\ base'[c] = Prepared(c, store[run(c)])
          /\ resolved'[c] = Resolved(c, store[run(c)])
      BY <1>4, <2>4, LoadMakes
    <3>2. store[run(c)] \in StateType /\ Resolvable(store[run(c)])
      BY CommandsAssumption DEF TypeOK, run, SuspensionIsResolvable, Resolvable
    <3>3. QED BY <2>1, <2>4, <3>1, <3>2, ApprovalLoads
  <2>5. CASE d = c /\ Create(c)
    BY <2>1, <2>5 DEF Create, IInv, LockHeld
  <2>6. QED BY <1>4, <2>2, <2>3, <2>4, <2>5, WorkBegins
<1>5. ASSUME NEW c \in Cmds, Moves(c), NEW d \in Cmds, ApprovesToolCall(d)',
             pc'[d] = "saving" \/ Persisted(d)'
      PROVE  replays'[d] = base'[d].version
  <2>1. /\ ApprovesToolCall(d) /\ kind(d) = "continue" /\ req'[d] = req[d]
        /\ ~Dispatch(c) \/ d # c
    BY <1>3, <1>5
  <2>2. Persisted(d)' => Persisted(d) \/ pc[d] = "saving"
    BY <1>1, <1>5, <2>1, PersistedNow DEF Save
  <2>3. CASE d # c
    <3>1. Undisturbed(d)
      BY <1>5, <2>3, OthersUndisturbed
    <3>2. QED BY <1>5, <2>1, <2>2, <3>1 DEF Undisturbed, ApprovalsOK
  <2>4. CASE d = c /\ Execute(c)
    <3>1. base' = base /\ pc[c] = "executing"
      BY <2>4 DEF Execute
    <3>2. QED BY <2>1, <2>4, <3>1, ApprovalExecutes DEF ApprovalsOK
  <2>5. CASE d = c /\ ~Execute(c) /\ (pc[c] = "saving" \/ Persisted(c))
    <3>1. replays' = replays /\ replays[c] = base[c].version
      BY <1>5, <2>1, <2>5, OnlyExecutesReplay DEF ApprovalsOK
    <3>2. base'[c] = base[c]
      <4>1. ~Load(c) /\ ~Create(c)
        <5>1. pc[c] = "saving" \/ PastSave(c)
          BY <1>1, <2>5, PersistedIsPast
        <5>2. QED BY <2>1, <2>5, <5>1 DEF PastSave, Load, Create, IInv, LockHeld
      <4>2. QED
        BY <1>5, <2>1, <2>5, <4>1
           DEF Moves, Step, Lock, AnswerFromCache, LoadInterrupted, Execute, Save,
               SaveInterrupted, Publish, PublishFails, Conclude, Return, EndContext
    <3>3. QED BY <2>5, <3>1, <3>2
  <2>6. CASE d = c /\ ~Execute(c) /\ pc[c] # "saving" /\ ~Persisted(c)
    <3>1. pc'[c] = "saving"
      BY <1>5, <2>2, <2>6
    <3>2. pc[c] = "executing" \/ Load(c) \/ Create(c)
      BY <1>5, <2>6, <3>1, WorkBegins
    <3>3. ~Load(c)
      BY <1>1, <2>1, <2>6, <3>1 DEF Load, Refuse, GoTo, Executes
    <3>4. ~Create(c)
      BY <2>1, <2>6 DEF Create, IInv, LockHeld
    <3>5. pc'[c] = pc[c]
      BY <1>5, <2>6, <3>2, <3>3, <3>4, WorkGoesOn DEF Save, SaveInterrupted
    <3>6. QED BY <3>1, <3>5, <2>6
  <2>7. QED BY <2>3, <2>4, <2>5, <2>6
<1>6. CASE \E c \in Cmds : Moves(c)
  <2>1. PICK c \in Cmds : Moves(c)
    BY <1>6
  <2>2. ASSUME NEW d \in Cmds, ApprovesToolCall(d)'
        PROVE  /\ pc'[d] = "executing" => Ready(d)
               /\ pc'[d] = "saving" \/ Persisted(d)' => replays'[d] = base'[d].version
    BY <1>4, <1>5, <2>1, <2>2
  <2>3. QED BY <2>2 DEF ApprovalsOK
<1>7. QED BY <1>2, <1>6 DEF Next, Quiet, Moves

\* With the React engine, and ids that name one requirement each, an approval of a
\* blocked tool call that is written did run the call: it is not dropped on the way
\* from the caller to the engine, however the run was reached.
THEOREM ApprovalsReplay ==
  ASSUME EngineKinds = {"react"}, IdsHaveOneOrigin
  PROVE  Spec => []ApprovedCallIsReplayed
<1>1. Init => ApprovalsOK
  <2>1. ASSUME Init PROVE \A c \in Cmds : pc[c] = "idle" /\ ~Persisted(c)
    <3>1. \A r \in Runs : history[r] = <<>>
      BY <2>1 DEF Init
    <3>2. \A c \in Cmds : ~Persisted(c)
      BY <3>1, CommandsAssumption DEF Persisted, run
    <3>3. \A c \in Cmds : pc[c] = "idle"
      BY <2>1 DEF Init
    <3>4. QED BY <3>2, <3>3
  <2>2. QED BY <2>1 DEF ApprovalsOK
<1>2. TypeOK /\ IInv /\ WorkInv /\ SuspensionIsResolvable /\ ApprovalsOK /\ [Next]_vars
        => ApprovalsOK'
  BY ApprovalsStep
<1>3. ApprovalsOK => ApprovedCallIsReplayed
  BY DEF ApprovalsOK, ApprovedCallIsReplayed
<1>4. QED
  BY <1>1, <1>2, <1>3, SuspensionsAreResolvable, WorkInvariant, TypeCorrect, Invariant, PTL
     DEF Spec
=============================================================================
