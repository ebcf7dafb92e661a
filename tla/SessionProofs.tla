--------------------------- MODULE SessionProofs ----------------------------
(***************************************************************************)
(* Proofs about Session for any number of clients, commands and runs and   *)
(* every engine: its inductive invariant, and with it that a stop in time  *)
(* is clean, that an answer's status is true, and that an approval         *)
(* releases what was shown.                                                *)
(***************************************************************************)
EXTENDS Session, EngineProofs

-----------------------------------------------------------------------------
(***************************************************************************)
(* The status of an answer.                                                *)
(***************************************************************************)

\* The errors behind 401, 403, 404, 413 and 429: the command was not taken up.
Refusals == {"unauthorized", "request_too_large", "budget_exceeded", "run_not_found",
             "not_continuable", "not_cancellable", "resolution_required"}

Conflicts == {"command_conflict", "version_conflict"}

\* The errors an execution, its events and an ended context have.
WorkErrors == {"failure", "run_state_invalid", "deadline_exceeded", "canceled", "max_steps",
               "event_publish"}

\* A set of places of the table has a least one.
LEMMA LeastPlace ==
  ASSUME NEW S \in SUBSET (1..11), S # {}
  PROVE  Min(S) \in S
<1>1. \E x \in S : \A y \in S : x <= y
  <2>1. \A n \in 1..11 : (\A m \in 1..11 : m < n => m \notin S) /\ n \in S
                           => \A y \in S : n <= y
    OBVIOUS
  <2>2. \E n \in 1..11 : n \in S /\ \A m \in 1..11 : m < n => m \notin S
    <3>1. SUFFICES ASSUME \A n \in 1..11 : n \in S => \E m \in 1..11 : m < n /\ m \in S
                   PROVE  FALSE
      OBVIOUS
    <3>2. 1 \notin S /\ 2 \notin S /\ 3 \notin S
      BY <3>1
    <3>3. 4 \notin S /\ 5 \notin S /\ 6 \notin S
      BY <3>1, <3>2
    <3>4. 7 \notin S /\ 8 \notin S /\ 9 \notin S
      BY <3>1, <3>2, <3>3
    <3>5. 10 \notin S /\ 11 \notin S
      BY <3>1, <3>2, <3>3, <3>4
    <3>6. PICK x \in 1..11 : x \in S
      OBVIOUS
    <3>7. x \in {1, 2, 3, 4, 5, 6, 7, 8, 9, 10, 11}
      OBVIOUS
    <3>8. QED BY <3>2, <3>3, <3>4, <3>5, <3>6, <3>7
  <2>3. QED BY <2>1, <2>2
<1>2. QED BY <1>1 DEF Min

\* The table of statuses, place by place.
LEMMA TierErrors ==
  ASSUME NEW i \in 1..11
  PROVE  /\ Tiers[i].status \in {401, 403, 404, 413, 429} => Tiers[i].errors \subseteq Refusals
         /\ Tiers[i].status = 409 => Tiers[i].errors \subseteq Conflicts
         /\ Tiers[i].status \in Nat /\ Tiers[i].status # 200
BY DEF Tiers, Tier, Refusals, Conflicts

\* A refusal is only answered for one, and a conflict only for one.
LEMMA StatusTold ==
  ASSUME NEW errs
  PROVE  /\ StatusOf(errs) \in {401, 403, 404, 413, 429} => errs \cap Refusals # {}
         /\ StatusOf(errs) = 409 => errs \cap Conflicts # {}
         /\ StatusOf(errs) \in Nat /\ StatusOf(errs) # 200
<1> DEFINE found == {i \in DOMAIN Tiers : Tiers[i].errors \cap errs # {}}
<1>1. DOMAIN Tiers = 1..11
  BY DEF Tiers
<1>2. CASE found = {}
  <2>1. StatusOf(errs) = 500
    BY <1>2 DEF StatusOf
  <2>2. QED BY <2>1
<1>3. CASE found # {}
  <2>1. Min(found) \in found
    BY <1>1, <1>3, LeastPlace
  <2>2. StatusOf(errs) = Tiers[Min(found)].status
    BY <1>3 DEF StatusOf
  <2>3. PICK i \in 1..11 : i = Min(found) /\ Tiers[i].errors \cap errs # {}
    BY <1>1, <2>1
  <2>4. QED BY <2>2, <2>3, TierErrors
<1>4. QED BY <1>2, <1>3

\* A command that was at work is not told it was refused, nor of a conflict it did not have.
LEMMA WorkStatus ==
  ASSUME NEW k, NEW errs
  PROVE  /\ AnswerStatus(k, errs) \in Nat
         /\ errs \subseteq WorkErrors \cup Conflicts =>
              AnswerStatus(k, errs) \notin {401, 403, 404, 413, 429}
         /\ errs \subseteq WorkErrors => AnswerStatus(k, errs) # 409
<1>1. AnswerStatus(k, errs) = 200 \/ AnswerStatus(k, errs) = StatusOf(errs)
  BY DEF AnswerStatus
<1>2. (WorkErrors \cup Conflicts) \cap Refusals = {} /\ WorkErrors \cap Conflicts = {}
  BY DEF WorkErrors, Conflicts, Refusals
<1>3. CASE AnswerStatus(k, errs) = 200
  BY <1>3
<1>4. CASE AnswerStatus(k, errs) = StatusOf(errs)
  BY <1>2, <1>4, StatusTold
<1>5. QED BY <1>1, <1>3, <1>4

\* The errors of an execution and of its events.
LEMMA ErrorsOfWork ==
  ASSUME NEW c, NEW status
  PROVE  /\ \A errs \in RunErrors(c, status) : errs \subseteq WorkErrors
         /\ \A errs \in EventErrors(c) : errs \subseteq WorkErrors
         /\ ContextError(c) \in WorkErrors
<1>1. ContextError(c) \in WorkErrors
  BY DEF ContextError, WorkErrors
<1>2. \A errs \in EventErrors(c) : errs \subseteq WorkErrors
  BY <1>1 DEF EventErrors, WorkErrors
<1>3. ASSUME NEW errs \in RunErrors(c, status) PROVE errs \subseteq WorkErrors
  <2>1. CASE ~(kind(c) \in Executing) \/ status \in {"completed", "suspended"}
    BY <1>3, <2>1 DEF RunErrors
  <2>2. CASE kind(c) \in Executing /\ status = "failed"
    BY <1>3, <2>2 DEF RunErrors, WorkErrors
  <2>3. CASE kind(c) \in Executing /\ status = "cancelled"
    BY <1>1, <1>3, <2>3 DEF RunErrors
  <2>4. CASE /\ kind(c) \in Executing
             /\ status \notin {"completed", "suspended", "failed", "cancelled"}
    BY <1>3, <2>4 DEF RunErrors, WorkErrors
  <2>5. QED BY <2>1, <2>2, <2>3, <2>4
<1>4. QED BY <1>1, <1>2, <1>3

-----------------------------------------------------------------------------
(***************************************************************************)
(* Writes.                                                                 *)
(***************************************************************************)

\* The next version of c's run is stored, and no other run is touched.
Grows(c) ==
  /\ store' \in [Runs -> StateType]
  /\ store'[run(c)].version = store[run(c)].version + 1
  /\ \A r \in Runs : r # run(c) => store'[r] = store[r]

LEMMA RunsTyped ==
  ASSUME NEW c \in Cmds
  PROVE  run(c) \in Runs
BY CommandsAssumption DEF run

\* Writing a state of the stored version stores the next one.
LEMMA WritesGrow ==
  ASSUME SessionTypeOK, NEW c \in Cmds, NEW st \in EngineStateType,
         st.version = store[run(c)].version, Writes(c, st)
  PROVE  Grows(c)
<1>1. run(c) \in Runs /\ store \in [Runs -> StateType]
  BY RunsTyped DEF SessionTypeOK
<1>2. store' = [store EXCEPT ![run(c)] = Stored(st)]
  BY DEF Writes
<1>3. st.step \in Int /\ st.step >= 0 /\ st.version \in Nat
  BY DEF Writes, ValidRunState, EngineStateType
<1>4. st.step \in Nat /\ st.version + 1 \in Nat
  BY <1>3
<1>5. Stored(st) \in StateType /\ Stored(st).version = st.version + 1
  BY <1>4 DEF Stored, StateType, EngineStateType
<1>6. QED BY <1>1, <1>2, <1>5 DEF Grows

\* What a state is to an engine, it is to the store.
LEMMA StatesReturned ==
  ASSUME NEW st \in StateType
  PROVE  st \in EngineStateType
BY DEF StateType, EngineStateType

LEMMA ExecutedGrows ==
  ASSUME SessionTypeOK, NEW c \in Cmds, NEW st \in StateType,
         st.version = store[run(c)].version, NEW s, NEW q \in RequirementType,
         Executed(c, st, s, q)
  PROVE  Grows(c)
<1>1. PICK done \in BOOLEAN : \E out \in EngineOutcomes(c, st, s, q, done) : Writes(c, out.state)
  BY DEF Executed
<1>2. PICK out \in EngineOutcomes(c, st, s, q, done) : Writes(c, out.state)
  BY <1>1
<1>3. out \in OutcomeOf(st)
  BY <1>2, EngineTyped
<1>4. out.state \in EngineStateType /\ out.state.version = st.version
  BY <1>3 DEF OutcomeOf
<1>5. QED BY <1>2, <1>4, WritesGrow

\* Whatever a command at work stores is the next version of its run.
LEMMA EffectGrows ==
  ASSUME SessionTypeOK, NEW c \in Cmds, Effect(c)
  PROVE  Grows(c)
<1> DEFINE st == Current(c)
<1>1. st \in StateType /\ st = store[run(c)]
  BY RunsTyped DEF SessionTypeOK, Current
<1>2. st.requirement \in RequirementType /\ NoRequirement \in RequirementType
  BY <1>1 DEF StateType, RequirementType
<1>3. /\ Resumed(st) \in StateType /\ Resumed(st).version = st.version
      /\ Cancelled(st) \in StateType /\ Cancelled(st).version = st.version
      /\ Instructed(c, st) \in StateType /\ Instructed(c, st).version = st.version
  BY <1>1, EditsExtend DEF EditOf
<1> HIDE DEF st
<1>4. \/ Executed(c, store[run(c)], NoResolution, NoRequirement)
      \/ Executed(c, Resumed(st), call[c].asks, st.requirement)
      \/ Executed(c, Instructed(c, st), NoResolution, NoRequirement)
      \/ Writes(c, Cancelled(st))
      \/ Writes(c, Instructed(c, st))
  BY DEF Effect, Start, st
<1>5. CASE Executed(c, store[run(c)], NoResolution, NoRequirement)
  BY <1>1, <1>2, <1>5, ExecutedGrows
<1>6. CASE Executed(c, Resumed(st), call[c].asks, st.requirement)
  BY <1>1, <1>2, <1>3, <1>6, ExecutedGrows
<1>7. CASE Executed(c, Instructed(c, st), NoResolution, NoRequirement)
  BY <1>1, <1>2, <1>3, <1>7, ExecutedGrows
<1>8. CASE Writes(c, Cancelled(st))
  BY <1>1, <1>3, <1>8, StatesReturned, WritesGrow
<1>9. CASE Writes(c, Instructed(c, st))
  BY <1>1, <1>3, <1>9, StatesReturned, WritesGrow
<1>10. QED BY <1>4, <1>5, <1>6, <1>7, <1>8, <1>9

\* A start stores the first version of its run.
LEMMA CreateGrows ==
  ASSUME SessionTypeOK, VersionsOK, NEW c \in Cmds, Create(c)
  PROVE  Grows(c) /\ store[run(c)].version = 0
<1>1. writers[run(c)] = <<>> /\ run(c) \in Runs
  BY RunsTyped DEF Create
<1>2. Len(writers[run(c)]) = 0
  BY <1>1
<1>3. store[run(c)].version = 0
  BY <1>1, <1>2 DEF VersionsOK
<1>4. StartState(c) \in EngineStateType /\ StartState(c).version = 0
  BY StartStateTyped, StatesReturned
<1>5. Writes(c, StartState(c))
  BY DEF Create
<1>6. QED BY <1>3, <1>4, <1>5, WritesGrow

\* c is entered as the writer of the next version of its run.
Signs(c) == writers' = [writers EXCEPT ![run(c)] = Append(@, c)]

\* Whose versions change with an entry.
LEMMA SignedOnce ==
  ASSUME SessionTypeOK, NEW c \in Cmds, Signs(c)
  PROVE  /\ writers' \in [Runs -> Seq(Cmds)]
         /\ Len(writers'[run(c)]) = Len(writers[run(c)]) + 1
         /\ \A r \in Runs : r # run(c) => writers'[r] = writers[r]
         /\ Wrote(c)' = Wrote(c) \cup {Len(writers[run(c)]) + 1}
         /\ \A d \in Cmds : d # c => Wrote(d)' = Wrote(d)
<1> DEFINE w == writers[run(c)]
           n == Len(w)
<1>1. w \in Seq(Cmds) /\ run(c) \in Runs /\ writers \in [Runs -> Seq(Cmds)]
  BY RunsTyped DEF SessionTypeOK
<1>2. /\ Append(w, c) \in Seq(Cmds) /\ Len(Append(w, c)) = n + 1 /\ n \in Nat
      /\ \A i \in 1..n : Append(w, c)[i] = w[i]
      /\ Append(w, c)[n + 1] = c
      /\ DOMAIN w = 1..n /\ DOMAIN Append(w, c) = 1..(n + 1)
  BY <1>1, AppendProperties, LenProperties
<1>3. writers'[run(c)] = Append(w, c) /\ \A r \in Runs : r # run(c) => writers'[r] = writers[r]
  BY <1>1 DEF Signs
<1>4. writers' \in [Runs -> Seq(Cmds)]
  BY <1>1, <1>2 DEF Signs
<1>5. ASSUME NEW d \in Cmds, run(d) = run(c)
      PROVE  Wrote(d)' = {i \in 1..(n + 1) : Append(w, c)[i] = d}
  BY <1>2, <1>3, <1>5 DEF Wrote, run
<1>6. ASSUME NEW d \in Cmds, run(d) = run(c)
      PROVE  Wrote(d) = {i \in 1..n : w[i] = d}
  BY <1>2, <1>6 DEF Wrote
<1>7. ASSUME NEW d \in Cmds, run(d) # run(c)
      PROVE  Wrote(d)' = Wrote(d)
  <2>1. writers'[run(d)] = writers[run(d)]
    BY <1>3, <1>7, RunsTyped
  <2>2. QED BY <2>1 DEF Wrote, run
<1> HIDE DEF n, w
<1>8. \A i \in 1..(n + 1) : i \in 1..n \/ i = n + 1
  BY <1>2
<1>9. \A i \in 1..n : i \in 1..(n + 1)
  BY <1>2
<1>10. n + 1 \in 1..(n + 1)
  BY <1>2
<1>11. Wrote(c)' = Wrote(c) \cup {n + 1}
  BY <1>2, <1>5, <1>6, <1>8, <1>9, <1>10
<1>12. ASSUME NEW d \in Cmds, d # c PROVE Wrote(d)' = Wrote(d)
  <2>1. CASE run(d) = run(c)
    <3>1. \A i \in 1..(n + 1) : Append(w, c)[i] = d => i \in 1..n /\ w[i] = d
      BY <1>2, <1>8, <1>12
    <3>2. \A i \in 1..n : w[i] = d => i \in 1..(n + 1) /\ Append(w, c)[i] = d
      BY <1>2, <1>9
    <3>3. QED BY <1>5, <1>6, <2>1, <3>1, <3>2
  <2>2. QED BY <1>7, <2>1
<1>13. QED BY <1>2, <1>3, <1>4, <1>11, <1>12 DEF n, w

-----------------------------------------------------------------------------
(***************************************************************************)
(* One command at a time.                                                  *)
(***************************************************************************)

AskOK(c) ==
  call[c].asks # NoResolution =>
    /\ kind(c) = "continue"
    /\ call[c].asks.req = call[c].shown.requirement.id
    /\ call[c].asks.kind = call[c].shown.requirement.kind

Working(c) ==
  /\ Wrote(c) = IF kind(c) = "start" THEN {1} ELSE {}
  /\ call[c].base <= Current(c).version
  /\ kind(c) # "start" /\ Fresh(c) => GateError(kind(c), Current(c), call[c].asks) = ""

TrueAnswer(c) ==
  /\ call[c].status = 200 => call[c].version \in Wrote(c) \cup {0}
  /\ call[c].status \in {401, 403, 404, 413, 429} => Wrote(c) = {}
  /\ call[c].status = 409 => Wrote(c) \subseteq (IF kind(c) = "start" THEN {1} ELSE {})

CallOK(c) ==
  /\ AskOK(c)
  /\ at(c) \in {"unsent", "sent"} => Wrote(c) = {}
  /\ at(c) = "working" => Working(c)
  /\ at(c) = "answered" => TrueAnswer(c)

\* What the invariant says of commands, command by command.
LEMMA InvByCommand ==
  (AsksOK /\ WorkOK /\ AnswersAreTrue) <=> \A c \in Cmds : CallOK(c)
<1>1. AsksOK <=> \A c \in Cmds : AskOK(c)
  BY DEF AsksOK, AskOK
<1>2. WorkOK <=> \A c \in Cmds : /\ at(c) \in {"unsent", "sent"} => Wrote(c) = {}
                                 /\ at(c) = "working" => Working(c)
  BY DEF WorkOK, Working
<1>3. AnswersAreTrue <=> \A c \in Cmds : at(c) = "answered" => TrueAnswer(c)
  BY DEF AnswersAreTrue, TrueAnswer, Wrote
<1>4. QED BY <1>1, <1>2, <1>3 DEF CallOK

\* What the invariant says of a command is about these parts of its request.
SameRequest(x, y) ==
  /\ x.at = y.at /\ x.kind = y.kind /\ x.asks = y.asks /\ x.shown = y.shown
  /\ x.base = y.base /\ x.status = y.status /\ x.version = y.version

\* A command is as it was while nothing is written and nothing is done about it.
LEMMA RequestStays ==
  ASSUME NEW d \in Cmds, CallOK(d), SameRequest(call'[d], call[d]), UNCHANGED runs
  PROVE  CallOK(d)' /\ at(d)' = at(d)
<1>1. /\ Wrote(d)' = Wrote(d) /\ Current(d)' = Current(d)
      /\ kind(d)' = kind(d) /\ at(d)' = at(d)
  BY DEF runs, Wrote, Current, kind, at, run, SameRequest
<1>2. Working(d) => Working(d)'
  BY <1>1 DEF Working, Fresh, SameRequest
<1>3. TrueAnswer(d) => TrueAnswer(d)'
  BY <1>1 DEF TrueAnswer, SameRequest
<1>4. AskOK(d) => AskOK(d)'
  BY <1>1 DEF AskOK, SameRequest
<1>5. QED BY <1>1, <1>2, <1>3, <1>4 DEF CallOK

LEMMA CallStays ==
  ASSUME NEW d \in Cmds, CallOK(d), call'[d] = call[d], UNCHANGED runs
  PROVE  CallOK(d)'
BY RequestStays DEF SameRequest

\* What another command writes leaves a command behind at worst.
LEMMA OtherWrites ==
  ASSUME SessionTypeOK, NEW c \in Cmds, NEW d \in Cmds, d # c, CallOK(d),
         call'[d] = call[d], Grows(c), Signs(c)
  PROVE  CallOK(d)'
<1>1. Wrote(d)' = Wrote(d) /\ run(d) \in Runs /\ run(d)' = run(d)
  BY SignedOnce, RunsTyped DEF run
<1>2. kind(d)' = kind(d) /\ at(d)' = at(d)
  BY DEF kind, at
<1>3. AskOK(d)' /\ (at(d) = "answered" => TrueAnswer(d)')
  BY <1>1, <1>2 DEF CallOK, AskOK, TrueAnswer
<1>4. ASSUME at(d) = "working" PROVE Working(d)'
  <2>1. Working(d)
    BY <1>4 DEF CallOK
  <2>2. CASE run(d) # run(c)
    <3>1. Current(d)' = Current(d)
      BY <1>1, <2>2 DEF Grows, Current
    <3>2. QED BY <1>1, <1>2, <2>1, <3>1 DEF Working, Fresh
  <2>3. CASE run(d) = run(c)
    <3> DEFINE v == store[run(c)].version
               b == call[d].base
    <3>1. v \in Nat /\ b \in Nat
      BY <1>1, <2>3 DEF SessionTypeOK, StateType, CallType
    <3>2. b <= v /\ Current(d)'.version = v + 1 /\ call'[d].base = b
      BY <1>1, <2>1, <2>3 DEF Working, Current, Grows
    <3> HIDE DEF v, b
    <3>3. b <= v + 1 /\ b # v + 1
      BY <3>1, <3>2
    <3>4. QED BY <1>1, <1>2, <2>1, <3>2, <3>3 DEF Working, Fresh
  <2>4. QED BY <2>2, <2>3
<1>5. QED BY <1>1, <1>2, <1>3, <1>4 DEF CallOK

-----------------------------------------------------------------------------
(***************************************************************************)
(* What the steps do to a command.                                         *)
(***************************************************************************)

\* Calls and runs keep their types, and commands are as the invariant says.
CallsOK ==
  /\ call \in [Cmds -> CallType]
  /\ store \in [Runs -> StateType] /\ writers \in [Runs -> Seq(Cmds)]
  /\ VersionsOK
  /\ \A d \in Cmds : CallOK(d)

LEMMA CallsAreOK ==
  ASSUME SessionInv
  PROVE  CallsOK /\ SessionTypeOK
BY InvByCommand DEF SessionInv, CallsOK, SessionTypeOK

LEMMA ShowingTyped ==
  ASSUME NEW r \in Runs, NEW version \in Nat, NEW q \in RequirementType
  PROVE  Showing(r, version, q) \in ShownType
BY DEF Showing, ShownType, RequirementType

LEMMA UnshownTyped == Unshown \in ShownType /\ Unshown.requirement = NoRequirement
BY DEF Unshown, Showing, ShownType, RequirementType

LEMMA UnsentTyped ==
  /\ Unsent \in CallType /\ Closed \in CallType
  /\ Unsent.at = "unsent" /\ Closed.at = "closed"
  /\ Unsent.asks = NoResolution /\ Closed.asks = NoResolution
<1>1. NoRequirement \in RequirementType
  BY DEF RequirementType
<1>2. Unsent \in CallType
  BY <1>1, UnshownTyped DEF Unsent, CallType
<1>3. Closed \in CallType
  BY <1>2 DEF Closed, CallType
<1>4. QED BY <1>2, <1>3 DEF Unsent, Closed

\* Nothing is said of a command that was closed.
LEMMA ClosedIsOK ==
  ASSUME NEW c \in Cmds, call'[c] = Closed
  PROVE  CallOK(c)'
<1>1. at(c)' = "closed" /\ call'[c].asks = NoResolution
  BY UnsentTyped DEF at
<1>2. QED BY <1>1 DEF CallOK, AskOK

\* c is told a status and, with 200, the version of st; or nobody waits for it.
Told200(c, status, st) ==
  \/ call'[c] = Closed
  \/ /\ call'[c].at = "answered" /\ call'[c].kind = kind(c)
     /\ call'[c].asks = NoResolution
     /\ call'[c].status = status
     /\ status = 200 => call'[c].version = st.version

LEMMA RespondMakes ==
  ASSUME SessionTypeOK, NEW c \in Cmds, NEW errs, NEW st \in StateType, Respond(c, errs, st)
  PROVE  /\ call' \in [Cmds -> CallType]
         /\ \A d \in Cmds : d # c => call'[d] = call[d]
         /\ Told200(c, AnswerStatus(kind(c), errs), st)
<1> DEFINE status == AnswerStatus(kind(c), errs)
           lost == "command_conflict" \in errs
           version == IF status = 200 THEN st.version ELSE 0
           requirement == IF status = 200 THEN st.requirement ELSE Unsent.requirement
           answer == [Unsent EXCEPT
                        !.kind = kind(c), !.at = "answered", !.status = status,
                        !.lost = lost, !.version = version, !.requirement = requirement]
<1>1. call' = [call EXCEPT ![c] = IF @.ended = "gone" THEN Closed ELSE answer]
  BY DEF Respond
<1>2. status \in Nat
  BY WorkStatus
<1>3. st.version \in Nat /\ st.requirement \in RequirementType /\ NoRequirement \in RequirementType
  BY DEF StateType, RequirementType
<1>4. call \in [Cmds -> CallType]
  BY DEF SessionTypeOK
<1>5. kind(c) \in CommandKinds \cup {""}
  BY <1>4 DEF kind, CallType
<1>6. answer \in CallType
  <2>1. version \in Nat /\ requirement \in RequirementType
    BY <1>2, <1>3 DEF Unsent
  <2>2. lost \in BOOLEAN
    OBVIOUS
  <2> HIDE DEF status, lost, version, requirement
  <2>3. QED BY <1>2, <1>5, <2>1, <2>2, UnsentTyped DEF CallType
<1> HIDE DEF status
<1>7. /\ answer.at = "answered" /\ answer.kind = kind(c) /\ answer.asks = NoResolution
      /\ answer.status = status /\ (status = 200 => answer.version = st.version)
  BY DEF Unsent
<1> HIDE DEF answer
<1>8. call'[c] = Closed \/ call'[c] = answer
  BY <1>1, <1>4
<1>9. call' \in [Cmds -> CallType] /\ \A d \in Cmds : d # c => call'[d] = call[d]
  BY <1>1, <1>4, <1>6, UnsentTyped
<1>10. QED BY <1>7, <1>8, <1>9 DEF Told200, status

\* An answer is true if its status is, of what was written by then.
LEMMA AnswerIsOK ==
  ASSUME NEW c \in Cmds, NEW status, NEW st, Told200(c, status, st),
         status = 200 => st.version \in Wrote(c)' \cup {0},
         status \in {401, 403, 404, 413, 429} => Wrote(c)' = {},
         status = 409 => Wrote(c)' \subseteq (IF kind(c) = "start" THEN {1} ELSE {})
  PROVE  CallOK(c)'
<1>1. CASE call'[c] = Closed
  BY <1>1, ClosedIsOK
<1>2. CASE call'[c] # Closed
  <2>1. /\ at(c)' = "answered" /\ kind(c)' = kind(c) /\ call'[c].asks = NoResolution
        /\ call'[c].status = status /\ (status = 200 => call'[c].version = st.version)
    BY <1>2 DEF Told200, at, kind
  <2>2. TrueAnswer(c)'
    BY <2>1 DEF TrueAnswer
  <2>3. QED BY <2>1, <2>2 DEF CallOK, AskOK
<1>3. QED BY <1>1, <1>2

\* A step that writes nothing and changes the request of c.
LEMMA OneCallChanges ==
  ASSUME CallsOK, NEW c \in Cmds, UNCHANGED runs, call' \in [Cmds -> CallType],
         \A d \in Cmds : d # c => call'[d] = call[d], CallOK(c)'
  PROVE  CallsOK'
<1>1. \A d \in Cmds : CallOK(d)'
  BY CallStays DEF CallsOK
<1>2. VersionsOK'
  BY DEF CallsOK, VersionsOK, runs
<1>3. QED BY <1>1, <1>2 DEF CallsOK, runs

\* A step in which c writes.
LEMMA OneCallWrites ==
  ASSUME SessionTypeOK, CallsOK, NEW c \in Cmds, Grows(c), Signs(c),
         call' \in [Cmds -> CallType],
         \A d \in Cmds : d # c => call'[d] = call[d], CallOK(c)'
  PROVE  CallsOK'
<1>1. \A d \in Cmds : CallOK(d)'
  BY OtherWrites DEF CallsOK
<1>2. VersionsOK'
  <2>1. /\ Len(writers'[run(c)]) = Len(writers[run(c)]) + 1
        /\ \A r \in Runs : r # run(c) => writers'[r] = writers[r]
    BY SignedOnce
  <2>2. /\ store'[run(c)].version = store[run(c)].version + 1
        /\ \A r \in Runs : r # run(c) => store'[r] = store[r]
    BY DEF Grows
  <2>3. QED BY <2>1, <2>2 DEF CallsOK, VersionsOK
<1>3. QED BY <1>1, <1>2, SignedOnce DEF CallsOK, Grows

LEMMA EmptyIsState ==
  ASSUME NEW c \in Cmds
  PROVE  Empty(c) \in StateType /\ Empty(c).version = 0
BY RunsTyped, NoRunTyped DEF Empty

LEMMA WroteStays ==
  ASSUME NEW c \in Cmds, UNCHANGED runs
  PROVE  Wrote(c)' = Wrote(c)
BY DEF runs, Wrote, run

\* A request that is refused has written nothing.
LEMMA RefuseStep ==
  ASSUME SessionTypeOK, CallsOK, NEW c \in Cmds, Refuse(c)
  PROVE  CallsOK'
<1>1. PICK e \in Reasons(c) : Respond(c, {e}, Empty(c))
  BY DEF Refuse
<1> DEFINE status == AnswerStatus(kind(c), {e})
<1>2. /\ call' \in [Cmds -> CallType]
      /\ \A d \in Cmds : d # c => call'[d] = call[d]
      /\ Told200(c, status, Empty(c))
  BY <1>1, EmptyIsState, RespondMakes
<1>3. UNCHANGED runs /\ at(c) = "sent" /\ CallOK(c)
  BY DEF Refuse, Queued, CallsOK
<1>4. Wrote(c)' = {}
  BY <1>3, WroteStays DEF CallOK
<1>5. Empty(c).version = 0
  BY EmptyIsState
<1> HIDE DEF status
<1>6. CallOK(c)'
  BY <1>2, <1>4, <1>5, AnswerIsOK
<1>7. QED BY <1>2, <1>3, <1>6, OneCallChanges

\* A command that lost its run is told no more than it has written.
LEMMA LoseStep ==
  ASSUME SessionTypeOK, CallsOK, NEW c \in Cmds, Lose(c)
  PROVE  CallsOK'
<1>1. PICK errs : Respond(c, errs, Empty(c)) /\ errs \subseteq WorkErrors \cup Conflicts
  <2>1. PICK why \in {{"command_conflict", "version_conflict"}, {ContextError(c)}},
             s \in {"completed", "suspended", "failed", "cancelled", "max_steps_exceeded"} :
             \E errs \in RunErrors(c, s), refused \in EventErrors(c) :
               Respond(c, errs \cup refused \cup why, Empty(c))
    BY DEF Lose
  <2>2. PICK errs \in RunErrors(c, s), refused \in EventErrors(c) :
             Respond(c, errs \cup refused \cup why, Empty(c))
    BY <2>1
  <2>3. why \subseteq WorkErrors \cup Conflicts
    BY <2>1, ErrorsOfWork DEF Conflicts
  <2>4. errs \subseteq WorkErrors /\ refused \subseteq WorkErrors
    BY <2>2, ErrorsOfWork
  <2>5. QED BY <2>2, <2>3, <2>4
<1> DEFINE status == AnswerStatus(kind(c), errs)
<1>2. /\ call' \in [Cmds -> CallType]
      /\ \A d \in Cmds : d # c => call'[d] = call[d]
      /\ Told200(c, status, Empty(c))
  BY <1>1, EmptyIsState, RespondMakes
<1>3. UNCHANGED runs /\ at(c) = "working" /\ CallOK(c)
  BY DEF Lose, CallsOK
<1>4. Wrote(c)' = IF kind(c) = "start" THEN {1} ELSE {}
  BY <1>3, WroteStays DEF CallOK, Working
<1>5. Empty(c).version = 0
  BY EmptyIsState
<1>6. status \notin {401, 403, 404, 413, 429}
  BY <1>1, WorkStatus
<1> HIDE DEF status
<1>7. CallOK(c)'
  BY <1>2, <1>4, <1>5, <1>6, AnswerIsOK
<1>8. QED BY <1>2, <1>3, <1>7, OneCallChanges

\* A command that is stored is shown the version it wrote, or told of an error that
\* promises nothing.
LEMMA FinishStep ==
  ASSUME SessionTypeOK, CallsOK, NEW c \in Cmds, Finish(c)
  PROVE  CallsOK'
<1>1. Grows(c) /\ Signs(c)
  BY EffectGrows DEF Finish, Signs
<1>2. PICK errs : Respond(c, errs, store'[run(c)]) /\ errs \subseteq WorkErrors
  <2>1. PICK errs \in RunErrors(c, store'[run(c)].status), refused \in EventErrors(c) :
             Respond(c, errs \cup refused, store'[run(c)])
    BY DEF Finish
  <2>2. errs \subseteq WorkErrors /\ refused \subseteq WorkErrors
    BY <2>1, ErrorsOfWork
  <2>3. QED BY <2>1, <2>2
<1> DEFINE status == AnswerStatus(kind(c), errs)
<1>3. store'[run(c)] \in StateType /\ run(c) \in Runs
  BY <1>1, RunsTyped DEF Grows
<1>4. /\ call' \in [Cmds -> CallType]
      /\ \A d \in Cmds : d # c => call'[d] = call[d]
      /\ Told200(c, status, store'[run(c)])
  BY <1>2, <1>3, RespondMakes
<1>5. store'[run(c)].version \in Wrote(c)'
  <2>1. Len(writers[run(c)]) = store[run(c)].version
    BY <1>3 DEF CallsOK, VersionsOK
  <2>2. QED BY <1>1, <2>1, SignedOnce DEF Grows
<1>6. status \notin {401, 403, 404, 413, 429} /\ status # 409
  BY <1>2, WorkStatus
<1> HIDE DEF status
<1>7. CallOK(c)'
  BY <1>4, <1>5, <1>6, AnswerIsOK
<1>8. QED BY <1>1, <1>4, <1>7, OneCallWrites

\* A command that is taken up has the state it works on; a start has created it.
LEMMA TakeStep ==
  ASSUME SessionTypeOK, CallsOK, NEW c \in Cmds, Take(c)
  PROVE  CallsOK'
<1>1. at(c) = "sent" /\ CallOK(c) /\ run(c) \in Runs /\ call \in [Cmds -> CallType]
  BY RunsTyped DEF Take, Queued, CallsOK
<1>2. Wrote(c) = {} /\ AskOK(c)
  BY <1>1 DEF CallOK
<1> DEFINE v == store'[run(c)].version
<1>3. call' = [call EXCEPT ![c].at = "working", ![c].base = v, ![c].form = <<>>]
  BY DEF Take
<1> DEFINE taken(x) == [x EXCEPT !.at = "working", !.base = v, !.form = <<>>]
<1>3a. ASSUME NEW x \in CallType
       PROVE  /\ v \in Nat => taken(x) \in CallType
              /\ taken(x).at = "working" /\ taken(x).base = v /\ taken(x).kind = x.kind
              /\ taken(x).asks = x.asks /\ taken(x).shown = x.shown
  <2> HIDE DEF v
  <2>1. QED BY <1>3a DEF CallType
<1>3b. call' = [call EXCEPT ![c] = taken(call[c])]
  BY <1>1, <1>3
<1> HIDE DEF taken, v
<1>4. v \in Nat => call' \in [Cmds -> CallType]
  BY <1>1, <1>3a, <1>3b
<1>5. /\ \A d \in Cmds : d # c => call'[d] = call[d]
      /\ call'[c].at = "working" /\ call'[c].base = v /\ call'[c].kind = kind(c)
      /\ call'[c].asks = call[c].asks /\ call'[c].shown = call[c].shown
  BY <1>1, <1>3a, <1>3b DEF kind
<1> USE DEF v
<1>6. at(c)' = "working" /\ kind(c)' = kind(c) /\ AskOK(c)'
  BY <1>2, <1>5 DEF at, kind, AskOK
<1>7. Current(c)'.version = v /\ call'[c].base = v
  BY <1>5 DEF Current, run
<1>8. CASE kind(c) = "start"
  <2>1. Create(c) /\ Signs(c)
    BY <1>8 DEF Take, Signs
  <2>2. Grows(c) /\ store[run(c)].version = 0
    BY <2>1, CreateGrows DEF CallsOK
  <2>3. v \in Nat
    BY <1>1, <2>2 DEF Grows, StateType
  <2>4. Len(writers[run(c)]) + 1 = 1
    <3>1. Len(writers[run(c)]) = 0
      BY <1>1, <2>2 DEF CallsOK, VersionsOK
    <3>2. QED BY <3>1
  <2>5. Wrote(c)' = {1}
    BY <1>2, <2>1, <2>4, SignedOnce
  <2> HIDE DEF v
  <2>6. v <= v
    BY <2>3
  <2>7. Working(c)'
    BY <1>6, <1>7, <1>8, <2>5, <2>6 DEF Working
  <2>8. CallOK(c)'
    BY <1>6, <2>7 DEF CallOK
  <2>9. QED BY <1>4, <1>5, <2>1, <2>2, <2>3, <2>8, OneCallWrites
<1>9. CASE kind(c) # "start"
  <2>1. UNCHANGED runs
    BY <1>9 DEF Take
  <2>2. Current(c)' = Current(c) /\ v = Current(c).version /\ v \in Nat
    BY <1>1, <2>1 DEF runs, Current, run, SessionTypeOK, StateType
  <2>3. GateError(kind(c), Current(c), call[c].asks) = ""
    <3> DEFINE exists == writers[run(c)] # <<>>
    <3>1. Refusal(c) = ""
      BY DEF Take
    <3>2. ~Formed(c) => Refusal(c) = FormError(kind(c), call[c].form)
      BY DEF Refusal
    <3>3. Formed(c)
      BY <3>1, <3>2 DEF Formed
    <3>4. Refusal(c) = IF exists THEN GateError(kind(c), Current(c), call[c].asks)
                                 ELSE "run_not_found"
      BY <1>9, <3>3 DEF Refusal
    <3>5. QED BY <3>1, <3>4
  <2>4. Wrote(c)' = {}
    BY <1>2, <2>1, WroteStays
  <2> HIDE DEF v
  <2>5. v <= v
    BY <2>2
  <2>6. Working(c)'
    BY <1>5, <1>6, <1>7, <1>9, <2>2, <2>3, <2>4, <2>5 DEF Working
  <2>7. CallOK(c)'
    BY <1>6, <2>6 DEF CallOK
  <2>8. QED BY <1>4, <1>5, <2>1, <2>2, <2>7, OneCallChanges
<1>10. QED BY <1>8, <1>9

\* A context that ended.
LEMMA EndedIsOK ==
  ASSUME SessionTypeOK, NEW c \in Cmds, CallOK(c), UNCHANGED runs,
         NEW why \in {"", "timeout", "gone"}, call'[c] = [call[c] EXCEPT !.ended = why]
  PROVE  CallOK(c)' /\ call'[c] \in CallType /\ at(c)' = at(c)
<1>1. call[c] \in CallType
  BY DEF SessionTypeOK
<1>2. SameRequest(call'[c], call[c]) /\ call'[c] \in CallType
  BY <1>1 DEF CallType, SameRequest
<1>3. QED BY <1>2, RequestStays

LEMMA TimeOutStep ==
  ASSUME SessionTypeOK, CallsOK, NEW c \in Cmds, TimeOut(c)
  PROVE  CallsOK' /\ at(c)' = at(c)
<1>1. call' = [call EXCEPT ![c].ended = "timeout"] /\ UNCHANGED runs
  BY DEF TimeOut
<1>2. call \in [Cmds -> CallType] /\ CallOK(c)
  BY DEF CallsOK
<1>3. call'[c] = [call[c] EXCEPT !.ended = "timeout"] /\ \A d \in Cmds : d # c => call'[d] = call[d]
  BY <1>1, <1>2
<1>4. CallOK(c)' /\ call'[c] \in CallType /\ at(c)' = at(c)
  BY <1>1, <1>2, <1>3, EndedIsOK
<1>5. call' \in [Cmds -> CallType]
  BY <1>1, <1>2, <1>3, <1>4
<1>6. QED BY <1>1, <1>3, <1>4, <1>5, OneCallChanges

\* A command whose connection was closed.
LEMMA AbandonedIsOK ==
  ASSUME SessionTypeOK, NEW c \in Cmds, CallOK(c), UNCHANGED runs, call'[c] = Abandoned(c)
  PROVE  CallOK(c)' /\ call'[c] \in CallType /\ (at(c)' = at(c) \/ at(c)' = "closed")
<1>1. \/ Abandoned(c) = Closed
      \/ Abandoned(c) = [call[c] EXCEPT !.ended = "gone"]
      \/ Abandoned(c) = call[c]
  BY DEF Abandoned
<1>2. CASE call'[c] = Closed
  BY <1>2, ClosedIsOK, UnsentTyped DEF at
<1>3. CASE call'[c] = [call[c] EXCEPT !.ended = "gone"]
  BY <1>3, EndedIsOK
<1>4. CASE call'[c] = call[c]
  <2>1. call[c] \in CallType
    BY DEF SessionTypeOK
  <2>2. QED BY <1>4, <2>1, CallStays DEF at
<1>5. QED BY <1>1, <1>2, <1>3, <1>4

\* A client that does not wait gives up one command, or none of those that are modelled.
LEMMA GiveUpStep ==
  ASSUME SessionTypeOK, CallsOK, NEW w \in Clients, GiveUp(w)
  PROVE  CallsOK' /\ \A c \in Cmds : at(c)' = at(c) \/ at(c)' = "closed"
<1>0. PICK c \in Cmds : c = doing[w]
  BY DEF GiveUp, SessionTypeOK
<1>1. c \in Cmds /\ call \in [Cmds -> CallType] /\ CallOK(c)
  BY DEF GiveUp, SessionTypeOK, CallsOK
<1>2. call' = [call EXCEPT ![c] = Abandoned(c)] /\ UNCHANGED runs
  BY <1>0 DEF GiveUp
<1>3. call'[c] = Abandoned(c) /\ \A d \in Cmds : d # c => call'[d] = call[d]
  BY <1>1, <1>2
<1>4. CallOK(c)' /\ call'[c] \in CallType /\ (at(c)' = at(c) \/ at(c)' = "closed")
  BY <1>1, <1>2, <1>3, AbandonedIsOK
<1>5. call' \in [Cmds -> CallType]
  BY <1>1, <1>2, <1>3, <1>4
<1>6. CallsOK'
  BY <1>1, <1>2, <1>3, <1>4, <1>5, OneCallChanges
<1>7. QED BY <1>3, <1>4, <1>6 DEF at

LEMMA ReceiveStep ==
  ASSUME SessionTypeOK, CallsOK, NEW w \in Clients, Receive(w)
  PROVE  CallsOK' /\ \A c \in Cmds : at(c)' = at(c) \/ at(c)' = "closed"
<1>0. PICK c \in Cmds : c = doing[w]
  BY DEF Receive, SessionTypeOK
<1>1. c \in Cmds /\ call \in [Cmds -> CallType]
  BY DEF Receive, SessionTypeOK
<1>2. call' = [call EXCEPT ![c] = Closed] /\ UNCHANGED runs
  BY <1>0 DEF Receive
<1>3. call'[c] = Closed /\ \A d \in Cmds : d # c => call'[d] = call[d]
  BY <1>1, <1>2
<1>4. CallOK(c)' /\ at(c)' = "closed"
  BY <1>1, <1>3, ClosedIsOK, UnsentTyped DEF at
<1>5. call' \in [Cmds -> CallType]
  BY <1>1, <1>2, UnsentTyped
<1>6. CallsOK'
  BY <1>1, <1>2, <1>3, <1>4, <1>5, OneCallChanges
<1>7. QED BY <1>3, <1>4, <1>6 DEF at

\* A request is on its way, with a resolution of what its sender was shown.
LEMMA SendStep ==
  ASSUME SessionTypeOK, CallsOK, NEW w \in Clients, NEW k \in CommandKinds, NEW s,
         s = NoResolution \/ (s \in Replies(seen[w].requirement) /\ k = "continue"), Send(w, k, s)
  PROVE  CallsOK' /\ doing' \in [Clients -> Cmds \cup {Nobody}]
<1>1. PICK c \in Cmds, form \in Forms :
        /\ NextTurn(w, c)
        /\ call' = [call EXCEPT ![c] =
                      [Unsent EXCEPT !.kind = k, !.form = form, !.at = "sent", !.asks = s,
                                     !.shown = IF s = NoResolution THEN @ ELSE seen[w]]]
        /\ doing' = [doing EXCEPT ![w] = c]
  BY DEF Send
<1> DEFINE shown == IF s = NoResolution THEN Unsent.shown ELSE seen[w]
           x == [Unsent EXCEPT !.kind = k, !.form = form, !.at = "sent", !.asks = s,
                               !.shown = shown]
<1>2. call \in [Cmds -> CallType] /\ CallOK(c) /\ at(c) = "unsent" /\ UNCHANGED runs
  BY <1>1 DEF CallsOK, NextTurn, Send
<1>3. doing' \in [Clients -> Cmds \cup {Nobody}]
  BY <1>1 DEF SessionTypeOK
<1>4. s \in Resolutions \cup {NoResolution}
  BY DEF Replies
<1>5. shown \in ShownType
  BY UnsentTyped DEF CallType, SessionTypeOK
<1>6. s # NoResolution => /\ k = "continue" /\ s.req = shown.requirement.id
                          /\ s.kind = shown.requirement.kind
  BY DEF Replies
<1> HIDE DEF shown
<1>7. x \in CallType
  BY <1>4, <1>5, UnsentTyped DEF CallType
<1>8. x.at = "sent" /\ x.kind = k /\ x.asks = s /\ x.shown = shown
  BY UnsentTyped DEF CallType
<1>9. call' = [call EXCEPT ![c] = x]
  BY <1>1 DEF shown
<1> HIDE DEF x
<1>10. /\ call' \in [Cmds -> CallType] /\ call'[c] = x
       /\ \A d \in Cmds : d # c => call'[d] = call[d]
  BY <1>2, <1>7, <1>9
<1>11. Wrote(c)' = {}
  BY <1>2, WroteStays DEF CallOK
<1>12. CallOK(c)'
  BY <1>6, <1>8, <1>10, <1>11 DEF CallOK, AskOK, at, kind
<1>13. QED BY <1>2, <1>3, <1>10, <1>12, OneCallChanges

-----------------------------------------------------------------------------
(***************************************************************************)
(* The invariant.                                                          *)
(***************************************************************************)

\* What the invariant says beside the commands.
SceneType ==
  /\ main \in {"running", "told", "draining", "waiting", "exited"}
  /\ starter \in {"spawned", "ready", "serving", "broken", "closed", "failed"}
  /\ ready \in BOOLEAN /\ cut \in BOOLEAN
  /\ doing \in [Clients -> Cmds \cup {Nobody}]
  /\ seen \in [Clients -> ShownType]
  /\ chat \in {"idle", "prompting", "continuing"} /\ active \in BOOLEAN

LEMMA InvParts == SessionInv <=> CallsOK /\ SceneType /\ ProcessOK
BY InvByCommand DEF SessionInv, CallsOK, SceneType, SessionTypeOK

LEMMA InvPartsNext == (CallsOK /\ SceneType /\ ProcessOK)' => SessionInv'
BY InvParts, PTL

\* A handler that is at work keeps a stop from being in time.
LEMMA HandlerStep ==
  ASSUME SessionInv, NEW c \in Cmds, Refuse(c) \/ Take(c) \/ Finish(c) \/ Lose(c) \/ TimeOut(c)
  PROVE  SessionInv'
<1>1. CallsOK /\ SceneType /\ ProcessOK /\ SessionTypeOK
  BY InvParts DEF SessionInv
<1>2. CallsOK'
  BY <1>1, RefuseStep, TakeStep, FinishStep, LoseStep, TimeOutStep
<1>3. UNCHANGED <<process, doing, views>> /\ InFlight(c)
  BY DEF Refuse, Take, Finish, Lose, TimeOut, Queued, InFlight
<1>4. SceneType'
  BY <1>1, <1>3 DEF SceneType, process, views
<1>5. main \in {"waiting", "exited"} => cut
  BY <1>1, <1>3 DEF ProcessOK
<1>6. ProcessOK'
  BY <1>1, <1>3, <1>5 DEF ProcessOK, process, Serving
<1>7. QED BY <1>2, <1>4, <1>6, InvPartsNext

\* Requests come in while the server listens, and then it is not draining.
LEMMA SenderStep ==
  ASSUME SessionInv, NEW w \in Clients, NEW k \in CommandKinds, NEW s,
         s = NoResolution \/ (s \in Replies(seen[w].requirement) /\ k = "continue"), Send(w, k, s),
         seen' \in [Clients -> ShownType], chat' \in {"idle", "prompting", "continuing"},
         active' = active
  PROVE  SessionInv'
<1>1. CallsOK /\ SceneType /\ ProcessOK /\ SessionTypeOK
  BY InvParts DEF SessionInv
<1>2. CallsOK' /\ doing' \in [Clients -> Cmds \cup {Nobody}]
  BY <1>1, SendStep
<1>3. UNCHANGED process /\ Serving
  BY DEF Send
<1>4. SceneType'
  BY <1>1, <1>2, <1>3 DEF SceneType, process
<1>5. main \notin {"waiting", "exited"}
  BY <1>1, <1>3 DEF ProcessOK
<1>6. ProcessOK'
  BY <1>1, <1>3, <1>5 DEF ProcessOK, process, Serving
<1>7. QED BY <1>2, <1>4, <1>6, InvPartsNext

\* Nothing in flight comes up while commands stay where they are or are closed.
LEMMA FlightStays ==
  ASSUME ProcessOK, UNCHANGED process,
         \A c \in Cmds : at(c)' = at(c) \/ at(c)' = "closed"
  PROVE  ProcessOK'
<1>1. \A c \in Cmds : InFlight(c)' => InFlight(c)
  BY DEF InFlight
<1>2. UNCHANGED <<main, starter, ready, cut>>
  BY DEF process
<1>3. QED BY <1>1, <1>2 DEF ProcessOK, Serving

\* What clients are shown of a stored run is a requirement, or none.
LEMMA LookStep ==
  ASSUME SessionInv, NEW w \in Clients, NEW r \in Runs, Look(w, r),
         chat' \in {"idle", "prompting", "continuing"}
  PROVE  SessionInv'
<1>1. CallsOK /\ SceneType /\ ProcessOK
  BY InvParts
<1>2. UNCHANGED <<runs, process, call, doing, active>>
  BY DEF Look
<1>3. CallsOK'
  <2>1. \A d \in Cmds : CallOK(d)'
    BY <1>1, <1>2, CallStays DEF CallsOK
  <2>2. QED BY <1>1, <1>2, <2>1 DEF CallsOK, VersionsOK, runs
<1>4. seen' \in [Clients -> ShownType]
  <2>1. store[r].version \in Nat /\ store[r].requirement \in RequirementType
    BY <1>1 DEF CallsOK, StateType
  <2>2. QED BY <1>1, <2>1, ShowingTyped DEF Look, SceneType
<1>5. SceneType'
  BY <1>1, <1>2, <1>4 DEF SceneType, process
<1>6. ProcessOK'
  BY <1>1, <1>2, FlightStays DEF at
<1>7. QED BY <1>3, <1>5, <1>6, InvPartsNext

\* Clients, one step each.
LEMMA ClientsStep ==
  ASSUME SessionInv, ClientStep
  PROVE  SessionInv'
<1>1. CallsOK /\ SceneType /\ ProcessOK /\ SessionTypeOK
  BY InvParts DEF SessionInv
<1>2. /\ Chat \in Clients /\ "start" \in CommandKinds /\ "continue" \in CommandKinds
      /\ seen \in [Clients -> ShownType]
      /\ chat \in {"idle", "prompting", "continuing"}
  BY <1>1, ClientsAssumption DEF CommandKinds, SceneType
<1>3. CASE ChatStart
  BY <1>2, <1>3, SenderStep DEF ChatStart, views
<1>4. CASE ChatResume
  BY <1>2, <1>4, SenderStep DEF ChatResume
<1>5. CASE ChatResolve
  <2>1. PICK s \in Replies(seen[Chat].requirement) : Send(Chat, "continue", s)
    BY <1>5 DEF ChatResolve
  <2>2. /\ seen' \in [Clients -> ShownType] /\ chat' = "idle" /\ active' = active
    BY <1>2, <1>5, UnshownTyped DEF ChatResolve
  <2>3. QED BY <1>2, <2>1, <2>2, SenderStep
<1>6. ASSUME NEW r \in Runs, ChatContinue(r) PROVE SessionInv'
  BY <1>2, <1>6, LookStep DEF ChatContinue
<1>7. ASSUME NEW k \in CommandKinds, ChatInstruct(k) PROVE SessionInv'
  BY <1>2, <1>7, SenderStep DEF ChatInstruct, views
<1>8. ASSUME NEW w \in Clients, NEW r \in Runs, CliLook(w, r) PROVE SessionInv'
  BY <1>2, <1>8, LookStep DEF CliLook
<1>9. ASSUME NEW w \in Clients, NEW k \in CommandKinds, CliCommand(w, k) PROVE SessionInv'
  <2>1. PICK s \in {NoResolution} \cup
                     (IF k = "continue" THEN Replies(seen[w].requirement) ELSE {}) : Send(w, k, s)
    BY <1>9 DEF CliCommand
  <2>2. s = NoResolution \/ (s \in Replies(seen[w].requirement) /\ k = "continue")
    BY <2>1
  <2>3. UNCHANGED views
    BY <1>9 DEF CliCommand
  <2>4. QED BY <1>2, <2>1, <2>2, <2>3, SenderStep DEF views
<1>10. ASSUME NEW w \in Clients, Receive(w) PROVE SessionInv'
  <2>1. CallsOK' /\ \A c \in Cmds : at(c)' = at(c) \/ at(c)' = "closed"
    BY <1>1, <1>10, ReceiveStep
  <2>2. UNCHANGED process /\ chat' = chat
    BY <1>10 DEF Receive
  <2>3. doing' \in [Clients -> Cmds \cup {Nobody}]
    BY <1>1, <1>10 DEF Receive, SceneType
  <2>4. seen' \in [Clients -> ShownType]
    <3>1. PICK c \in Cmds : c = doing[w]
      BY <1>1, <1>10 DEF Receive, SceneType
    <3> DEFINE shown == Showing(run(c), call[c].version, call[c].requirement)
    <3>2. shown \in ShownType
      <4>1. call[c].version \in Nat /\ call[c].requirement \in RequirementType
        BY <1>1 DEF SessionTypeOK, CallType
      <4>2. QED BY <4>1, RunsTyped, ShowingTyped
    <3>3. seen' = seen \/ seen' = [seen EXCEPT ![w] = shown]
      BY <1>10, <3>1 DEF Receive
    <3> HIDE DEF shown
    <3>4. QED BY <1>2, <3>2, <3>3
  <2>5. active' \in BOOLEAN
    <3>1. active \in BOOLEAN
      BY <1>1 DEF SceneType
    <3>2. active' = (call[doing[w]].version > 0) \/ active' = active
      BY <1>10 DEF Receive
    <3> DEFINE b == call[doing[w]].version > 0
    <3>3. b \in BOOLEAN
      OBVIOUS
    <3>4. active' = b \/ active' = active
      BY <3>2
    <3> HIDE DEF b
    <3>5. QED BY <3>1, <3>3, <3>4
  <2>6. SceneType'
    BY <1>1, <2>2, <2>3, <2>4, <2>5 DEF SceneType, process
  <2>7. QED BY <1>1, <2>1, <2>2, <2>6, FlightStays, InvPartsNext
<1>11. ASSUME NEW w \in Clients, GiveUp(w) PROVE SessionInv'
  <2>1. CallsOK' /\ \A c \in Cmds : at(c)' = at(c) \/ at(c)' = "closed"
    BY <1>1, <1>11, GiveUpStep
  <2>2. UNCHANGED process /\ UNCHANGED views
    BY <1>11 DEF GiveUp
  <2>3. doing' \in [Clients -> Cmds \cup {Nobody}]
    BY <1>1, <1>11 DEF GiveUp, SceneType
  <2>4. SceneType'
    BY <1>1, <2>2, <2>3 DEF SceneType, process, views
  <2>5. QED BY <1>1, <2>1, <2>2, <2>4, FlightStays, InvPartsNext
<1>12. QED
  BY <1>3, <1>4, <1>5, <1>6, <1>7, <1>8, <1>9, <1>10, <1>11 DEF ClientStep

LEMMA CallsStay ==
  ASSUME CallsOK, UNCHANGED <<runs, call>>
  PROVE  CallsOK' /\ \A c \in Cmds : at(c)' = at(c)
<1>1. \A d \in Cmds : CallOK(d)'
  BY CallStays DEF CallsOK
<1>2. QED BY <1>1 DEF CallsOK, VersionsOK, runs, at

\* The process, one step each: the listener is closed before the drain is over, and it
\* is over when nothing is in flight, or by force.
LEMMA ProcessKeeps ==
  ASSUME SessionInv, ProcessStep \/ Outside
  PROVE  SessionInv'
<1>1. CallsOK /\ SceneType /\ ProcessOK /\ SessionTypeOK
  BY InvParts DEF SessionInv
<1>2. ASSUME SetReady \/ Listen \/ ListenFails \/ BeginDrain \/ Signal \/ ServeFails,
             UNCHANGED <<runs, call, doing, views>>
      PROVE  SessionInv'
  <2>1. CallsOK' /\ \A c \in Cmds : at(c)' = at(c)
    BY <1>1, <1>2, CallsStay
  <2>2. SceneType'
    <3>1. /\ main' \in {"running", "told", "draining", "waiting", "exited"}
          /\ starter' \in {"spawned", "ready", "serving", "broken", "closed", "failed"}
      BY <1>1, <1>2 DEF SceneType, SetReady, Listen, ListenFails, BeginDrain, Signal, ServeFails
    <3>2. ready' \in BOOLEAN /\ cut' \in BOOLEAN
      BY <1>1, <1>2 DEF SceneType, SetReady, Listen, ListenFails, BeginDrain, Signal, ServeFails
    <3>3. QED BY <1>1, <1>2, <3>1, <3>2 DEF SceneType, views
  <2>3. cut' = cut /\ (main' \in {"waiting", "exited"} => main \in {"waiting", "exited"})
    BY <1>2 DEF SetReady, Listen, ListenFails, BeginDrain, Signal, ServeFails
  <2>4. Serving' => main' \in {"running", "told"}
    BY <1>1, <1>2 DEF ProcessOK, Serving, SetReady, Listen, ListenFails, BeginDrain, Signal,
                      ServeFails, ShuttingDown, SceneType
  <2>5. \A c \in Cmds : InFlight(c)' => InFlight(c)
    BY <2>1 DEF InFlight
  <2>6. ProcessOK'
    BY <1>1, <2>3, <2>4, <2>5 DEF ProcessOK
  <2>7. QED BY <2>1, <2>2, <2>6, InvPartsNext
<1>3. CASE DrainedIdle
  <2>1. CallsOK' /\ \A c \in Cmds : at(c)' = at(c)
    BY <1>1, <1>3, CallsStay DEF DrainedIdle
  <2>2. main = "draining" /\ main' = "waiting" /\ UNCHANGED <<starter, ready, cut, doing, views>>
    BY <1>3 DEF DrainedIdle, Drained
  <2>3. \A c \in Cmds : ~InFlight(c)'
    BY <1>3, <2>1 DEF DrainedIdle, InFlight
  <2>4. SceneType'
    BY <1>1, <2>2 DEF SceneType, views
  <2>5. ProcessOK'
    BY <1>1, <2>2, <2>3 DEF ProcessOK, Serving
  <2>6. QED BY <2>1, <2>4, <2>5, InvPartsNext
<1>4. CASE ForceClose
  <2>1. call' = [c \in Cmds |-> Abandoned(c)] /\ UNCHANGED <<runs, views>>
    BY <1>4 DEF ForceClose
  <2>2. ASSUME NEW c \in Cmds
        PROVE  CallOK(c)' /\ call'[c] \in CallType
    <3>1. call'[c] = Abandoned(c) /\ CallOK(c)
      BY <1>1, <2>1 DEF CallsOK
    <3>2. QED BY <1>1, <2>1, <3>1, AbandonedIsOK
  <2>3. call' \in [Cmds -> CallType]
    BY <2>1, <2>2
  <2>4. CallsOK'
    BY <1>1, <2>1, <2>2, <2>3 DEF CallsOK, VersionsOK, runs
  <2>5. main = "draining" /\ main' = "waiting" /\ cut' = TRUE /\ UNCHANGED <<starter, ready>>
    BY <1>4 DEF ForceClose, Deadline
  <2>6. doing' \in [Clients -> Cmds \cup {Nobody}]
    BY <1>4 DEF ForceClose
  <2>7. SceneType'
    BY <1>1, <2>1, <2>5, <2>6 DEF SceneType, views
  <2>8. ProcessOK'
    BY <1>1, <2>5 DEF ProcessOK, Serving
  <2>9. QED BY <2>4, <2>7, <2>8, InvPartsNext
<1>5. CASE ExitWithAll
  <2>1. /\ store' = [r \in Runs |-> NoRun(r)] /\ writers' = [r \in Runs |-> <<>>]
        /\ call' = [c \in Cmds |-> Closed]
    BY <1>5 DEF ExitWithAll
  <2>2. store' \in [Runs -> StateType]
    BY <2>1, NoRunTyped
  <2>3. writers' \in [Runs -> Seq(Cmds)]
    <3>1. <<>> \in Seq(Cmds)
      OBVIOUS
    <3>2. QED BY <2>1, <3>1
  <2>4. VersionsOK'
    <3>1. Len(<<>>) = 0
      OBVIOUS
    <3>2. \A r \in Runs : Len(writers'[r]) = 0 /\ store'[r].version = 0
      BY <2>1, <3>1, NoRunTyped
    <3>3. QED BY <3>2 DEF VersionsOK
  <2>5. call' \in [Cmds -> CallType] /\ \A c \in Cmds : call'[c] = Closed
    BY <2>1, UnsentTyped
  <2>6. \A c \in Cmds : CallOK(c)' /\ ~InFlight(c)'
    BY <2>5, ClosedIsOK, UnsentTyped DEF InFlight, at
  <2>7. CallsOK'
    BY <2>2, <2>3, <2>4, <2>5, <2>6 DEF CallsOK
  <2>8. main' = "exited" /\ UNCHANGED <<ready, cut>> /\ starter' \in {"closed", "failed"}
    BY <1>5 DEF ExitWithAll, Exit, ServerExited
  <2>9. SceneType'
    <3>1. doing' \in [Clients -> Cmds \cup {Nobody}] /\ seen' \in [Clients -> ShownType]
      BY <1>5, UnshownTyped DEF ExitWithAll
    <3>2. chat' = "idle" /\ active' \in BOOLEAN
      BY <1>5 DEF ExitWithAll
    <3>3. QED BY <1>1, <2>8, <3>1, <3>2 DEF SceneType
  <2>10. ProcessOK'
    BY <2>6, <2>8 DEF ProcessOK, Serving
  <2>11. QED BY <2>7, <2>9, <2>10, InvPartsNext
<1>6. QED BY <1>2, <1>3, <1>4, <1>5 DEF ProcessStep, Outside

LEMMA SessionBegins == SessionInit => SessionInv
<1> SUFFICES ASSUME SessionInit PROVE SessionInv
  OBVIOUS
<1>1. /\ store = [r \in Runs |-> NoRun(r)] /\ writers = [r \in Runs |-> <<>>]
      /\ call = [c \in Cmds |-> Unsent]
      /\ doing = [w \in Clients |-> Nobody] /\ seen = [w \in Clients |-> Unshown]
  BY DEF SessionInit, Init
<1>2. <<>> \in Seq(Cmds) /\ Len(<<>>) = 0 /\ DOMAIN <<>> = {}
  OBVIOUS
<1>3. store \in [Runs -> StateType] /\ writers \in [Runs -> Seq(Cmds)]
  BY <1>1, <1>2, NoRunTyped
<1>4. VersionsOK
  BY <1>1, <1>2, NoRunTyped DEF VersionsOK
<1>5. call \in [Cmds -> CallType] /\ \A c \in Cmds : call[c] = Unsent
  BY <1>1, UnsentTyped
<1>6. \A c \in Cmds : Wrote(c) = {}
  <2>1. \A c \in Cmds : writers[run(c)] = <<>>
    BY <1>1, RunsTyped
  <2>2. QED BY <1>2, <2>1 DEF Wrote
<1>7. \A c \in Cmds : CallOK(c)
  BY <1>5, <1>6, UnsentTyped DEF CallOK, AskOK, at
<1>8. CallsOK
  BY <1>3, <1>4, <1>5, <1>7 DEF CallsOK
<1>9. SceneType
  <2>1. doing \in [Clients -> Cmds \cup {Nobody}] /\ seen \in [Clients -> ShownType]
    BY <1>1, UnshownTyped
  <2>2. ready = FALSE /\ cut = FALSE /\ active = FALSE
    BY DEF SessionInit, ProcessInit
  <2>3. ready \in BOOLEAN /\ cut \in BOOLEAN /\ active \in BOOLEAN
    BY <2>2
  <2>4. QED BY <2>1, <2>3 DEF SceneType, SessionInit, ProcessInit
<1>10. ProcessOK
  BY DEF ProcessOK, SessionInit, ProcessInit, Serving
<1>11. QED BY <1>8, <1>9, <1>10, InvParts

\* Clients, handlers, runs and the process together are as SessionInv says: what a
\* command may still write agrees with what was written, and nothing is in flight
\* behind a drain.
THEOREM SessionInvariant == SessionSpec => []SessionInv
<1>1. SessionInv /\ [SessionNext]_sessionVars => SessionInv'
  <2> SUFFICES ASSUME SessionInv, [SessionNext]_sessionVars PROVE SessionInv'
    OBVIOUS
  <2>1. CASE ClientStep
    BY <2>1, ClientsStep
  <2>2. CASE Handle
    BY <2>2, HandlerStep DEF Handle
  <2>3. CASE ProcessStep \/ Outside
    BY <2>3, ProcessKeeps
  <2>4. CASE UNCHANGED sessionVars
    <3>1. CallsOK /\ SceneType /\ ProcessOK
      BY InvParts
    <3>2. UNCHANGED <<runs, call, process, doing, views>>
      BY <2>4 DEF sessionVars
    <3>3. CallsOK' /\ \A c \in Cmds : at(c)' = at(c)
      BY <3>1, <3>2, CallsStay
    <3>4. ProcessOK'
      BY <3>1, <3>2, <3>3, FlightStays
    <3>5. SceneType'
      BY <3>1, <3>2 DEF SceneType, process, views
    <3>6. QED BY <3>3, <3>4, <3>5, InvPartsNext
  <2>5. QED BY <2>1, <2>2, <2>3, <2>4 DEF SessionNext
<1>2. QED BY <1>1, SessionBegins, PTL DEF SessionSpec

\* A client can believe the status of every answer, whatever the engine, the context
\* and the other clients did.
THEOREM AnswersAreBelievable == SessionSpec => []AnswersAreTrue
<1>1. SessionInv => AnswersAreTrue
  BY DEF SessionInv
<1>2. QED BY <1>1, SessionInvariant, PTL

\* A server that stopped in time has answered what it took, and none listens after its
\* drain, however late Start comes.
THEOREM StopsAreClean == SessionSpec => []StopsCleanly
<1>1. SessionInv => StopsCleanly
  <2> SUFFICES ASSUME SessionInv, main \in {"waiting", "exited"}
               PROVE  (~cut => \A c \in Cmds : ~InFlight(c)) /\ ~Serving
    BY DEF StopsCleanly
  <2>1. ProcessOK
    BY DEF SessionInv
  <2>2. main \notin {"running", "told"}
    OBVIOUS
  <2>3. ~Serving
    BY <2>1, <2>2 DEF ProcessOK
  <2>4. ~cut => \A c \in Cmds : ~InFlight(c)
    BY <2>1 DEF ProcessOK
  <2>5. QED BY <2>3, <2>4
<1>2. QED BY <1>1, SessionInvariant, PTL

-----------------------------------------------------------------------------
(***************************************************************************)
(* Approvals.                                                              *)
(***************************************************************************)

\* A requirement of r's version that somebody has seen: if it is the run's last one, it is
\* what the run has.
Dated(r, version, q) ==
  q # NoRequirement =>
    /\ version <= store[r].version
    /\ version = store[r].version => q = store[r].requirement

DatedView(s) == s.run \in Runs => Dated(s.run, s.version, s.requirement)

DatedCall(x, r) == DatedView(x.shown) /\ Dated(r, x.version, x.requirement)

\* What clients are shown, have sent and are answered was a run's at its version.
ShownOK ==
  /\ \A w \in Clients : DatedView(seen[w])
  /\ \A c \in Cmds : DatedCall(call[c], run(c))

\* A run that was written has a new version.
Advances(r) == store'[r] = store[r] \/ store'[r].version = store[r].version + 1

LEMMA DatedStays ==
  ASSUME SessionTypeOK, NEW r \in Runs, Advances(r), NEW version \in Nat, NEW q,
         Dated(r, version, q)
  PROVE  Dated(r, version, q)'
<1>1. store[r].version \in Nat
  BY DEF SessionTypeOK, StateType
<1>2. CASE store'[r] = store[r]
  BY <1>2 DEF Dated
<1>3. CASE store'[r].version = store[r].version + 1
  <2>1. q # NoRequirement => version <= store'[r].version /\ version # store'[r].version
    BY <1>1, <1>3 DEF Dated
  <2>2. QED BY <2>1 DEF Dated
<1>4. QED BY <1>2, <1>3 DEF Advances

LEMMA ViewStays ==
  ASSUME SessionTypeOK, \A r \in Runs : Advances(r), NEW s \in ShownType, DatedView(s)
  PROVE  DatedView(s)'
BY DatedStays DEF DatedView, ShownType

LEMMA CallStaysDated ==
  ASSUME SessionTypeOK, \A r \in Runs : Advances(r), NEW x \in CallType, NEW r \in Runs,
         DatedCall(x, r)
  PROVE  DatedCall(x, r)'
BY DatedStays, ViewStays DEF DatedCall, CallType

\* Nothing was shown to, or said of, a command that was not sent or was closed.
LEMMA NothingShown ==
  /\ DatedView(Unshown) /\ DatedView(Unshown)'
  /\ \A r : DatedCall(Unsent, r) /\ DatedCall(Closed, r)
  /\ \A r : DatedCall(Unsent, r)' /\ DatedCall(Closed, r)'
<1>1. /\ Unsent.shown = Unshown /\ Unsent.requirement = NoRequirement
      /\ Closed.shown = Unshown /\ Closed.requirement = NoRequirement
  BY DEF Unsent, Closed
<1>2. Unshown.requirement = NoRequirement
  BY UnshownTyped
<1>3. QED BY <1>1, <1>2 DEF DatedView, DatedCall, Dated

\* What the sender of x was shown, and what it is answered.
SameShown(x, y) ==
  x.shown = y.shown /\ x.version = y.version /\ x.requirement = y.requirement

\* Clients are shown what is new or what they were shown before.
LEMMA ShownStays ==
  ASSUME SessionTypeOK, ShownOK, \A r \in Runs : Advances(r),
         \A w \in Clients : seen'[w] = seen[w] \/ DatedView(seen[w])',
         \A c \in Cmds : SameShown(call'[c], call[c]) \/ DatedCall(call[c], run(c))'
  PROVE  ShownOK'
<1>1. ASSUME NEW w \in Clients PROVE DatedView(seen[w])'
  <2>1. DatedView(seen[w]) /\ seen[w] \in ShownType
    BY DEF ShownOK, SessionTypeOK
  <2>2. PICK s : s = seen[w]
    OBVIOUS
  <2>3. DatedView(s)'
    BY <2>1, <2>2, ViewStays
  <2>4. QED BY <2>2, <2>3 DEF DatedView, Dated
<1>2. ASSUME NEW c \in Cmds PROVE DatedCall(call[c], run(c))'
  <2>1. DatedCall(call[c], run(c)) /\ call[c] \in CallType /\ run(c) \in Runs
    BY RunsTyped DEF ShownOK, SessionTypeOK
  <2>2. PICK x : x = call[c]
    OBVIOUS
  <2>3. DatedCall(x, run(c))'
    BY <2>1, <2>2, CallStaysDated
  <2>4. SameShown(call'[c], x) => DatedCall(call[c], run(c))'
    BY <2>3 DEF SameShown, DatedCall, DatedView, Dated, run
  <2>5. QED BY <2>2, <2>4
<1>3. QED BY <1>1, <1>2 DEF ShownOK

LEMMA StoreStays == UNCHANGED runs => \A r \in Runs : Advances(r)
BY DEF runs, Advances

LEMMA GrowsAdvances ==
  ASSUME NEW c \in Cmds, Grows(c)
  PROVE  \A r \in Runs : Advances(r)
BY DEF Grows, Advances

LEMMA ShowingDated ==
  ASSUME NEW r, NEW version, NEW q, Dated(r, version, q)
  PROVE  DatedView(Showing(r, version, q))
BY DEF DatedView, Dated, Showing

\* A command is answered with the state of its run, or with none.
LEMMA RespondDated ==
  ASSUME SessionTypeOK, NEW c \in Cmds, NEW errs, NEW st, Respond(c, errs, st),
         Dated(run(c), st.version, st.requirement)'
  PROVE  /\ \A d \in Cmds : d # c => call'[d] = call[d]
         /\ DatedCall(call[c], run(c))'
<1> DEFINE status == AnswerStatus(kind(c), errs)
           lost == "command_conflict" \in errs
           version == IF status = 200 THEN st.version ELSE 0
           requirement == IF status = 200 THEN st.requirement ELSE Unsent.requirement
           answer == [Unsent EXCEPT
                        !.kind = kind(c), !.at = "answered", !.status = status,
                        !.lost = lost, !.version = version, !.requirement = requirement]
<1>1. call' = [call EXCEPT ![c] = IF @.ended = "gone" THEN Closed ELSE answer]
  BY DEF Respond
<1>2. call \in [Cmds -> CallType]
  BY DEF SessionTypeOK
<1> HIDE DEF status, lost
<1>3. /\ answer.shown = Unshown
      /\ \/ answer.requirement = NoRequirement
         \/ answer.requirement = st.requirement /\ answer.version = st.version
  BY DEF Unsent
<1> HIDE DEF answer
<1>4. call'[c] = Closed \/ call'[c] = answer
  BY <1>1, <1>2
<1>5. \A d \in Cmds : d # c => call'[d] = call[d]
  BY <1>1, <1>2
<1>6. Closed.requirement = NoRequirement /\ Closed.shown = Unshown
  BY DEF Closed, Unsent
<1>7. PICK x : x = call'[c]
  OBVIOUS
<1>8. /\ x.shown = Unshown
      /\ x.requirement = NoRequirement
         \/ (x.requirement = st.requirement /\ x.version = st.version)
  BY <1>3, <1>4, <1>6, <1>7
<1>9. DatedCall(call[c], run(c))'
  BY <1>7, <1>8, NothingShown DEF DatedCall, Dated, DatedView, run
<1>10. QED BY <1>5, <1>9

LEMMA EmptyIsDated == \A c \in Cmds : Empty(c).requirement = NoRequirement
BY DEF Empty, NoRun

LEMMA HandlersShown ==
  ASSUME SessionInv, ShownOK, NEW c \in Cmds,
         Refuse(c) \/ Take(c) \/ Finish(c) \/ Lose(c) \/ TimeOut(c)
  PROVE  ShownOK'
<1>1. SessionTypeOK /\ CallsOK /\ call \in [Cmds -> CallType] /\ run(c) \in Runs
  BY CallsAreOK, RunsTyped DEF SessionTypeOK
<1>2. seen' = seen
  BY DEF Refuse, Take, Finish, Lose, TimeOut, views
<1>3. ASSUME NEW errs, Respond(c, errs, Empty(c)), UNCHANGED runs PROVE ShownOK'
  <2>1. Dated(run(c), Empty(c).version, Empty(c).requirement)'
    BY EmptyIsDated DEF Dated, Empty, NoRun, run
  <2>2. QED BY <1>1, <1>2, <1>3, <2>1, RespondDated, StoreStays, ShownStays DEF SameShown
<1>4. CASE Refuse(c) \/ Lose(c)
  BY <1>3, <1>4 DEF Refuse, Lose
<1>5. CASE Finish(c)
  <2>1. Grows(c)
    BY <1>1, <1>5, EffectGrows DEF Finish
  <2>2. PICK errs : Respond(c, errs, store'[run(c)])
    BY <1>5 DEF Finish
  <2>3. PICK st : st = store'[run(c)]
    OBVIOUS
  <2>4. st.version \in Nat
    BY <1>1, <2>1, <2>3 DEF Grows, StateType
  <2>5. Dated(run(c), st.version, st.requirement)'
    BY <2>3, <2>4 DEF Dated, run
  <2>6. QED BY <1>1, <1>2, <2>1, <2>2, <2>3, <2>5, RespondDated, GrowsAdvances, ShownStays
           DEF SameShown
<1>6. CASE Take(c)
  <2> DEFINE v == store'[run(c)].version
  <2>1. call' = [call EXCEPT ![c].at = "working", ![c].base = v, ![c].form = <<>>]
    BY <1>6 DEF Take
  <2> HIDE DEF v
  <2>2. ASSUME NEW d \in Cmds PROVE SameShown(call'[d], call[d])
    <3>1. \/ call'[d] = call[d]
          \/ call'[d] = [call[d] EXCEPT !.at = "working", !.base = v, !.form = <<>>]
      BY <1>1, <2>1
    <3>2. call[d] \in CallType
      BY <1>1
    <3>3. QED BY <3>1, <3>2 DEF SameShown, CallType
  <2>3. \A r \in Runs : Advances(r)
    <3>1. CASE kind(c) = "start"
      BY <1>1, <1>6, <3>1, CreateGrows, GrowsAdvances DEF Take, CallsOK
    <3>2. CASE kind(c) # "start"
      BY <1>6, <3>2, StoreStays DEF Take
    <3>3. QED BY <3>1, <3>2
  <2>4. QED BY <1>1, <1>2, <2>2, <2>3, ShownStays
<1>7. CASE TimeOut(c)
  <2>1. call' = [call EXCEPT ![c].ended = "timeout"] /\ UNCHANGED runs
    BY <1>7 DEF TimeOut
  <2>2. \A d \in Cmds : SameShown(call'[d], call[d])
    BY <1>1, <2>1 DEF SameShown, CallType
  <2>3. QED BY <1>1, <1>2, <2>1, <2>2, StoreStays, ShownStays
<1>8. QED BY <1>4, <1>5, <1>6, <1>7

\* A resolution goes with what its sender was shown.
LEMMA SendShown ==
  ASSUME SessionInv, ShownOK, NEW w \in Clients, NEW k \in CommandKinds, NEW s, Send(w, k, s),
         seen' = seen \/ seen' = [seen EXCEPT ![w] = Unshown]
  PROVE  ShownOK'
<1>1. SessionTypeOK /\ call \in [Cmds -> CallType] /\ seen \in [Clients -> ShownType]
  BY CallsAreOK DEF SessionTypeOK
<1>2. PICK c \in Cmds, form \in Forms :
        call' = [call EXCEPT ![c] =
                   [Unsent EXCEPT !.kind = k, !.form = form, !.at = "sent", !.asks = s,
                                  !.shown = IF s = NoResolution THEN @ ELSE seen[w]]]
  BY DEF Send
<1>3. UNCHANGED runs
  BY DEF Send
<1>4. PICK shown : shown = IF s = NoResolution THEN Unsent.shown ELSE seen[w]
  OBVIOUS
<1>5. PICK x : x = [Unsent EXCEPT !.kind = k, !.form = form, !.at = "sent", !.asks = s,
                                  !.shown = shown]
  OBVIOUS
<1>6. x.shown = shown /\ x.requirement = NoRequirement
  BY <1>5 DEF Unsent
<1>7. call'[c] = x /\ \A d \in Cmds : d # c => call'[d] = call[d]
  BY <1>1, <1>2, <1>4, <1>5
<1>8. DatedView(shown)'
  <2>1. shown \in ShownType /\ DatedView(shown)
    BY <1>1, <1>4, NothingShown, UnshownTyped DEF ShownOK, Unsent
  <2>2. QED BY <1>1, <1>3, <2>1, StoreStays, ViewStays
<1>9. DatedCall(call[c], run(c))'
  BY <1>6, <1>7, <1>8 DEF DatedCall, DatedView, Dated, run
<1>10. \A v \in Clients : seen'[v] = seen[v] \/ DatedView(seen[v])'
  <2>1. \A v \in Clients : seen'[v] = seen[v] \/ seen'[v] = Unshown
    BY <1>1
  <2>2. Unshown.requirement = NoRequirement
    BY UnshownTyped
  <2>3. QED BY <2>1, <2>2 DEF DatedView, Dated
<1>11. QED BY <1>1, <1>3, <1>7, <1>9, <1>10, StoreStays, ShownStays DEF SameShown

LEMMA LookShown ==
  ASSUME SessionInv, ShownOK, NEW w \in Clients, NEW r \in Runs, Look(w, r)
  PROVE  ShownOK'
<1>1. SessionTypeOK /\ call \in [Cmds -> CallType] /\ seen \in [Clients -> ShownType]
  BY CallsAreOK DEF SessionTypeOK
<1>2. PICK s : s = Showing(r, store[r].version, store[r].requirement)
  OBVIOUS
<1>3. seen' = [seen EXCEPT ![w] = s] /\ UNCHANGED <<runs, call>>
  BY <1>2 DEF Look
<1>4. store[r].version \in Nat
  BY <1>1 DEF SessionTypeOK, StateType
<1>5. DatedView(s)
  BY <1>2, <1>4, ShowingDated DEF Dated
<1>6. \A v \in Clients : seen'[v] = seen[v] \/ DatedView(seen[v])'
  BY <1>1, <1>3, <1>5 DEF DatedView, Dated, runs
<1>7. QED BY <1>1, <1>3, <1>6, StoreStays, ShownStays DEF SameShown

LEMMA ReceiveShown ==
  ASSUME SessionInv, ShownOK, NEW w \in Clients, Receive(w)
  PROVE  ShownOK'
<1>1. SessionTypeOK /\ call \in [Cmds -> CallType] /\ seen \in [Clients -> ShownType]
  BY CallsAreOK DEF SessionTypeOK
<1>2. PICK c \in Cmds : c = doing[w]
  BY <1>1 DEF Receive, SessionTypeOK
<1>3. call' = [call EXCEPT ![c] = Closed] /\ UNCHANGED runs
  BY <1>2 DEF Receive
<1>4. PICK s : s = Showing(run(c), call[c].version, call[c].requirement)
  OBVIOUS
<1>5. seen' = seen \/ seen' = [seen EXCEPT ![w] = s]
  BY <1>2, <1>4 DEF Receive
<1>6. DatedView(s)
  BY <1>4, ShowingDated DEF ShownOK, DatedCall
<1>7. \A v \in Clients : seen'[v] = seen[v] \/ DatedView(seen[v])'
  BY <1>1, <1>3, <1>5, <1>6 DEF DatedView, Dated, runs
<1>8. \A d \in Cmds : SameShown(call'[d], call[d]) \/ DatedCall(call[d], run(d))'
  <2>1. \A d \in Cmds : call'[d] = call[d] \/ call'[d] = Closed
    BY <1>1, <1>3
  <2>2. QED BY <2>1, NothingShown DEF SameShown, DatedCall, DatedView, Dated, run
<1>9. QED BY <1>1, <1>3, <1>7, <1>8, StoreStays, ShownStays

\* A command that is given up keeps what it says, or says nothing.
LEMMA AbandonedShown ==
  ASSUME SessionTypeOK, NEW c \in Cmds, call'[c] = Abandoned(c)
  PROVE  SameShown(call'[c], call[c]) \/ DatedCall(call[c], run(c))'
<1>1. call[c] \in CallType
  BY DEF SessionTypeOK
<1>2. \/ Abandoned(c) = Closed
      \/ Abandoned(c) = [call[c] EXCEPT !.ended = "gone"]
      \/ Abandoned(c) = call[c]
  BY DEF Abandoned
<1>3. CASE call'[c] = Closed
  BY <1>3, NothingShown DEF DatedCall, DatedView, Dated, run
<1>4. CASE call'[c] # Closed
  BY <1>1, <1>2, <1>4 DEF SameShown, CallType
<1>5. QED BY <1>3, <1>4

LEMMA ClientsShown ==
  ASSUME SessionInv, ShownOK, ClientStep
  PROVE  ShownOK'
<1>1. SessionTypeOK /\ Chat \in Clients /\ "start" \in CommandKinds /\ "continue" \in CommandKinds
  BY CallsAreOK, ClientsAssumption DEF CommandKinds
<1>2. CASE ChatStart
  BY <1>1, <1>2, SendShown DEF ChatStart, views
<1>3. CASE ChatResume
  BY <1>1, <1>3, SendShown DEF ChatResume
<1>4. CASE ChatResolve
  BY <1>1, <1>4, SendShown DEF ChatResolve
<1>5. ASSUME NEW r \in Runs, ChatContinue(r) PROVE ShownOK'
  BY <1>1, <1>5, LookShown DEF ChatContinue
<1>6. ASSUME NEW k \in CommandKinds, ChatInstruct(k) PROVE ShownOK'
  BY <1>1, <1>6, SendShown DEF ChatInstruct, views
<1>7. ASSUME NEW w \in Clients, NEW r \in Runs, CliLook(w, r) PROVE ShownOK'
  BY <1>7, LookShown DEF CliLook
<1>8. ASSUME NEW w \in Clients, NEW k \in CommandKinds, CliCommand(w, k) PROVE ShownOK'
  BY <1>8, SendShown DEF CliCommand, views
<1>9. ASSUME NEW w \in Clients, GiveUp(w) PROVE ShownOK'
  <2>1. PICK c \in Cmds : c = doing[w]
    BY <1>1, <1>9 DEF GiveUp, SessionTypeOK
  <2>2. call' = [call EXCEPT ![c] = Abandoned(c)] /\ UNCHANGED runs /\ seen' = seen
    BY <1>9, <2>1 DEF GiveUp, views
  <2>3. call'[c] = Abandoned(c) /\ \A d \in Cmds : d # c => call'[d] = call[d]
    BY <1>1, <2>2 DEF SessionTypeOK
  <2>4. \A d \in Cmds : SameShown(call'[d], call[d]) \/ DatedCall(call[d], run(d))'
    <3>1. SameShown(call'[c], call[c]) \/ DatedCall(call[c], run(c))'
      BY <1>1, <2>3, AbandonedShown
    <3>2. QED BY <2>3, <3>1 DEF SameShown
  <2>5. QED BY <1>1, <2>2, <2>4, StoreStays, ShownStays
<1>10. QED BY <1>2, <1>3, <1>4, <1>5, <1>6, <1>7, <1>8, <1>9, ReceiveShown DEF ClientStep

LEMMA ProcessShown ==
  ASSUME SessionInv, ShownOK, ProcessStep \/ Outside
  PROVE  ShownOK'
<1>1. SessionTypeOK
  BY CallsAreOK
<1>2. ASSUME UNCHANGED <<runs, call, views>> PROVE ShownOK'
  BY <1>1, <1>2, StoreStays, ShownStays DEF views, SameShown
<1>3. CASE ForceClose
  <2>1. call' = [c \in Cmds |-> Abandoned(c)] /\ UNCHANGED <<runs, views>>
    BY <1>3 DEF ForceClose
  <2>2. \A d \in Cmds : SameShown(call'[d], call[d]) \/ DatedCall(call[d], run(d))'
    BY <1>1, <2>1, AbandonedShown
  <2>3. QED BY <1>1, <2>1, <2>2, StoreStays, ShownStays DEF views
<1>4. CASE ExitWithAll
  <2>1. call' = [c \in Cmds |-> Closed] /\ seen' = [w \in Clients |-> Unshown]
    BY <1>4 DEF ExitWithAll
  <2>2. \A w \in Clients : DatedView(seen[w])'
    BY <2>1, NothingShown DEF DatedView, Dated
  <2>3. \A c \in Cmds : DatedCall(call[c], run(c))'
    BY <2>1, NothingShown DEF DatedCall, DatedView, Dated, run
  <2>4. QED BY <2>2, <2>3 DEF ShownOK
<1>5. QED BY <1>2, <1>3, <1>4 DEF ProcessStep, Outside, DrainedIdle

LEMMA ShownNext ==
  ASSUME SessionInv, ShownOK, [SessionNext]_sessionVars
  PROVE  ShownOK'
<1>1. CASE UNCHANGED sessionVars
  <2>1. SessionTypeOK /\ UNCHANGED <<runs, call, views>>
    BY <1>1, CallsAreOK DEF sessionVars
  <2>2. QED BY <2>1, StoreStays, ShownStays DEF views, SameShown
<1>2. QED BY <1>1, ClientsShown, HandlersShown, ProcessShown DEF SessionNext, Handle

LEMMA ShownBegins == SessionInit => ShownOK
<1> SUFFICES ASSUME SessionInit PROVE ShownOK
  OBVIOUS
<1>1. call = [c \in Cmds |-> Unsent] /\ seen = [w \in Clients |-> Unshown]
  BY DEF SessionInit
<1>2. QED BY <1>1, NothingShown DEF ShownOK

\* The runs are written by a start that creates one, by a command that finishes, and
\* they go with the process.
LEMMA WhoSigns ==
  ASSUME SessionInv, [SessionNext]_sessionVars
  PROVE  \/ UNCHANGED writers
         \/ writers' = [r \in Runs |-> <<>>]
         \/ \E d \in Cmds : Signs(d) /\ (kind(d) = "start" \/ Finish(d))
<1>1. CASE ClientStep
  <2>1. UNCHANGED runs
    BY <1>1 DEF ClientStep, ChatStart, ChatResume, ChatResolve, ChatContinue, ChatInstruct,
                CliLook, CliCommand, Receive, GiveUp, Look, Send
  <2>2. QED BY <2>1 DEF runs
<1>2. ASSUME NEW d \in Cmds, Refuse(d) \/ Lose(d) \/ TimeOut(d) PROVE UNCHANGED writers
  <2>1. UNCHANGED runs
    BY <1>2 DEF Refuse, Lose, TimeOut
  <2>2. QED BY <2>1 DEF runs
<1>3. ASSUME NEW d \in Cmds, Take(d)
      PROVE  UNCHANGED writers \/ (Signs(d) /\ kind(d) = "start")
  BY <1>3 DEF Take, Signs, runs
<1>4. ASSUME NEW d \in Cmds, Finish(d) PROVE Signs(d)
  BY <1>4 DEF Finish, Signs
<1>5. CASE ProcessStep \/ Outside
  <2>1. UNCHANGED runs \/ writers' = [r \in Runs |-> <<>>]
    BY <1>5 DEF ProcessStep, Outside, DrainedIdle, ForceClose, ExitWithAll
  <2>2. QED BY <2>1 DEF runs
<1>6. CASE UNCHANGED sessionVars
  BY <1>6 DEF sessionVars, runs
<1>7. QED BY <1>1, <1>2, <1>3, <1>4, <1>5, <1>6 DEF SessionNext, Handle

\* Nothing is approved with no resolution, and nothing has no id.
LEMMA NothingIsEmpty == NoResolution.outcome # "approved" /\ NoRequirement.id = ""
BY DEF NoResolution, NoRequirement

\* A continue that approves works on a run that is suspended under the id and the kind its
\* sender saw, and for what it saw while the run is of the version it saw.
LEMMA ApprovalMatches ==
  ASSUME SessionInv, ShownOK, NEW c \in Cmds, Finish(c), call[c].asks.outcome = "approved"
  PROVE  IsWhatWasShown(run(c), Current(c).requirement, call[c].shown)
<1>1. CallsOK /\ SessionTypeOK /\ CallOK(c) /\ run(c) \in Runs
  BY CallsAreOK, RunsTyped DEF CallsOK
<1>2. PICK s : s = call[c].asks
  OBVIOUS
<1>3. PICK q : q = Current(c).requirement
  OBVIOUS
<1>4. PICK view : view = call[c].shown
  OBVIOUS
<1>5. PICK p : p = view.requirement
  OBVIOUS
<1>6. s # NoResolution
  BY <1>2, NothingIsEmpty
<1>7. kind(c) = "continue" /\ s.req = p.id /\ s.kind = p.kind
  BY <1>1, <1>2, <1>4, <1>5, <1>6 DEF CallOK, AskOK
<1>8. GateError(kind(c), Current(c), s) = ""
  BY <1>1, <1>2, <1>7 DEF CallOK, Working, Finish
<1>9. ResolutionError(Current(c), s) = ""
  BY <1>7, <1>8 DEF GateError, ContinueError
<1>10. Resolves(s, q)
  BY <1>3, <1>6, <1>9 DEF ResolutionError
<1>11. q.id = p.id /\ q.kind = p.kind /\ q.id # ""
  BY <1>7, <1>10 DEF Resolves, ValidRequirement
<1>12. p # NoRequirement
  BY <1>11, NothingIsEmpty
<1>13. view.version \in Nat /\ store[run(c)].version \in Nat
  BY <1>1, <1>4 DEF SessionTypeOK, CallType, ShownType, StateType
<1>14. CASE view.run = run(c)
  <2>1. /\ view.version <= store[run(c)].version
        /\ view.version = store[run(c)].version => p = q
    BY <1>1, <1>3, <1>4, <1>5, <1>12, <1>14 DEF ShownOK, DatedCall, DatedView, Dated, Current
  <2>2. view.version < store[run(c)].version \/ p = q
    BY <1>13, <2>1
  <2>3. QED BY <1>3, <1>4, <1>5, <1>11, <1>14, <2>2 DEF IsWhatWasShown
<1>15. CASE view.run # run(c)
  BY <1>3, <1>4, <1>5, <1>11, <1>15 DEF IsWhatWasShown
<1>16. QED BY <1>14, <1>15

\* An approval releases what its sender was shown and no other, however long ago the
\* sender looked and whoever resolved and suspended the run since, unless that was under
\* the same id and kind: they are all that is compared (agent/lifecycle.go:151).
THEOREM ApprovalsReleaseWhatWasShown == SessionSpec => ApprovalIsForWhatWasShown
<1>1. SessionInv /\ ShownOK /\ [SessionNext]_sessionVars =>
        [\A c \in Cmds :
           /\ call[c].asks.outcome = "approved"
           /\ writers'[run(c)] = Append(writers[run(c)], c)
           => IsWhatWasShown(run(c), Current(c).requirement, call[c].shown)]_sessionVars
  <2> SUFFICES ASSUME SessionInv, ShownOK, [SessionNext]_sessionVars, NEW c \in Cmds,
                      call[c].asks.outcome = "approved",
                      writers'[run(c)] = Append(writers[run(c)], c)
               PROVE  IsWhatWasShown(run(c), Current(c).requirement, call[c].shown)
    OBVIOUS
  <2>1. CallsOK /\ SessionTypeOK /\ CallOK(c)
    BY CallsAreOK DEF CallsOK
  <2> DEFINE w == writers[run(c)]
             n == Len(w)
  <2>2. w \in Seq(Cmds) /\ run(c) \in Runs
    BY <2>1, RunsTyped DEF SessionTypeOK
  <2>3. n \in Nat /\ Len(Append(w, c)) = n + 1 /\ Append(w, c)[n + 1] = c
    BY <2>2, LenProperties, AppendProperties
  <2>4. Append(w, c) # w
    <3>1. n # n + 1
      BY <2>3
    <3>2. QED BY <2>3, <3>1
  <2>5. Append(w, c) # <<>>
    <3>1. n + 1 # 0
      BY <2>3
    <3>2. Len(<<>>) = 0
      OBVIOUS
    <3>3. QED BY <2>3, <3>1, <3>2
  <2>6. PICK d \in Cmds : Signs(d) /\ (kind(d) = "start" \/ Finish(d))
    BY <2>2, <2>4, <2>5, WhoSigns
  <2>7. run(d) = run(c)
    BY <2>2, <2>4, <2>6, SignedOnce, <2>1
  <2>8. d = c
    <3>1. writers'[run(c)] = Append(w, d)
      BY <2>1, <2>2, <2>6, <2>7 DEF Signs, SessionTypeOK
    <3>2. Append(w, d)[n + 1] = d
      BY <2>2, AppendProperties
    <3>3. QED BY <2>3, <3>1, <3>2
  <2>9. kind(c) # "start"
    <3>1. call[c].asks # NoResolution
      BY NothingIsEmpty
    <3>2. kind(c) = "continue"
      BY <2>1, <3>1 DEF CallOK, AskOK
    <3>3. QED BY <3>2
  <2>10. QED BY <2>6, <2>8, <2>9, ApprovalMatches
<1>2. SessionInv /\ ShownOK /\ [SessionNext]_sessionVars => ShownOK'
  BY ShownNext
<1>3. QED
  BY <1>1, <1>2, ShownBegins, SessionInvariant, PTL DEF SessionSpec, ApprovalIsForWhatWasShown
=============================================================================
