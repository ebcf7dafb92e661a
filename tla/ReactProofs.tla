---------------------------- MODULE ReactProofs -----------------------------
(***************************************************************************)
(* Proofs about ReactLoop and the retry wrapper around it, for every set   *)
(* of tools, denied commands, requirements and lists of calls a model may  *)
(* answer with, and for any number of executions and attempts.             *)
(***************************************************************************)
EXTENDS RetryLoop, FiniteSetTheorems, SequenceTheorems, TLAPS

-----------------------------------------------------------------------------
(***************************************************************************)
(* Counting.                                                               *)
(***************************************************************************)

\* How often an element occurs is a number, and one more when it is appended.
LEMMA TimesAppend ==
  ASSUME NEW S, NEW s \in Seq(S), NEW x \in S, NEW y
  PROVE  /\ Times(s, y) \in Nat
         /\ Times(Append(s, x), y) = Times(s, y) + (IF x = y THEN 1 ELSE 0)
<1> DEFINE n == Len(s)
           t == Append(s, x)
           A == {i \in DOMAIN s : s[i] = y}
           B == {i \in DOMAIN t : t[i] = y}
<1>1. n \in Nat /\ DOMAIN s = 1..n
  BY LenProperties
<1>2. /\ DOMAIN t = 1..(n + 1)
      /\ t[n + 1] = x /\ \A i \in 1..n : t[i] = s[i]
  <2>1. Len(t) = n + 1 /\ t \in Seq(S) /\ \A i \in 1..n : t[i] = s[i]
    BY AppendProperties
  <2>2. t[n + 1] = x
    BY AppendProperties
  <2>3. QED BY <2>1, <2>2, LenProperties
<1>3. IsFiniteSet(A)
  <2>1. IsFiniteSet(1..n)
    BY <1>1, FS_Interval
  <2>2. A \subseteq 1..n
    BY <1>1
  <2>3. QED BY <2>1, <2>2, FS_Subset
<1>4. n + 1 \notin A
  BY <1>1
<1>5. B = IF x = y THEN A \cup {n + 1} ELSE A
  <2> HIDE DEF t, n
  <2>1. DOMAIN t = 1..n \cup {n + 1}
    BY <1>1, <1>2
  <2>2. QED BY <1>1, <1>2, <2>1
<1>6. Cardinality(A) \in Nat
  BY <1>3, FS_CardinalityType
<1>7. Cardinality(A \cup {n + 1}) = Cardinality(A) + 1
  BY <1>3, <1>4, FS_AddElement
<1>8. Times(s, y) = Cardinality(A) /\ Times(t, y) = Cardinality(B)
  BY DEF Times
<1> HIDE DEF A, B, t, n
<1>9. Times(t, y) = Times(s, y) + (IF x = y THEN 1 ELSE 0)
  BY <1>5, <1>6, <1>7, <1>8
<1>10. QED BY <1>6, <1>8, <1>9 DEF t

LEMMA TimesTyped ==
  ASSUME NEW S, NEW s \in Seq(S), NEW y
  PROVE  Times(s, y) \in Nat
<1> DEFINE A == {i \in DOMAIN s : s[i] = y}
<1>1. Len(s) \in Nat /\ DOMAIN s = 1..Len(s)
  BY LenProperties
<1>2. IsFiniteSet(1..Len(s)) /\ A \subseteq 1..Len(s)
  BY <1>1, FS_Interval
<1>3. IsFiniteSet(A)
  BY <1>2, FS_Subset
<1>4. Cardinality(A) \in Nat
  BY <1>3, FS_CardinalityType
<1>5. QED BY <1>4 DEF Times

\* The last element of a sequence that was appended to.
LEMMA LastAppend ==
  ASSUME NEW S, NEW s \in Seq(S), NEW x \in S
  PROVE  Last(Append(s, x)) = x /\ Append(s, x) # <<>>
BY AppendProperties DEF Last

-----------------------------------------------------------------------------
(***************************************************************************)
(* The calls of a transcript.                                              *)
(***************************************************************************)

\* What a message is made of.
LEMMA CallsTyped ==
  ASSUME NEW m \in MessageType
  PROVE  /\ m.calls \in Seq(ToolCalls)
         /\ DOMAIN m.calls = 1..Len(m.calls) /\ Len(m.calls) \in Nat
         /\ \A j \in DOMAIN m.calls : m.calls[j] \in ToolCalls
<1>1. m.calls \in CallLists \cup {<<>>}
  BY DEF MessageType
<1>2. <<>> \in Seq(ToolCalls)
  OBVIOUS
<1>3. m.calls \in Seq(ToolCalls)
  BY <1>1, <1>2, CallsAssumption
<1> HIDE DEF MessageType
<1>4. QED BY <1>3, LenProperties, ElementOfSeq

\* Max is the element none exceeds.
LEMMA MaxIs ==
  ASSUME NEW S \in SUBSET Int, NEW x \in S, \A y \in S : x >= y
  PROVE  Max(S) = x
<1>1. \A z \in S : (\A y \in S : z >= y) => z = x
  OBVIOUS
<1>2. QED BY <1>1 DEF Max

\* A call with an id.
Named(k) == k.id # ""

\* findToolCallByID returns the latest call with the id.
LEMMA LatestIsFound ==
  ASSUME NEW ms \in Seq(MessageType), NEW k, Named(k), LatestCall(ms, k)
  PROVE  Announcing(ms, k.id) # {} /\ FindCall(ms, k.id) = k
<1>0. DOMAIN ms = 1..Len(ms) /\ Len(ms) \in Nat
  BY LenProperties
<1>1. PICK i \in DOMAIN ms : \E j \in DOMAIN ms[i].calls :
        /\ ms[i].calls[j] = k
        /\ \A h \in DOMAIN ms[i].calls : h > j => ms[i].calls[h].id # k.id
        /\ \A h \in DOMAIN ms : h > i => k.id \notin IDs(ms[h].calls)
  BY DEF LatestCall
<1>c. PICK cs : cs = ms[i].calls
  OBVIOUS
<1> DEFINE J  == {x \in DOMAIN cs : cs[x].id = k.id}
           A  == Announcing(ms, k.id)
<1>2. PICK j \in DOMAIN cs :
        /\ cs[j] = k
        /\ \A h \in DOMAIN cs : h > j => cs[h].id # k.id
        /\ \A h \in DOMAIN ms : h > i => k.id \notin IDs(ms[h].calls)
  BY <1>1, <1>c
<1>3. ms[i] \in MessageType
  BY <1>0, ElementOfSeq
<1>4. DOMAIN cs = 1..Len(cs) /\ Len(cs) \in Nat
  BY <1>c, <1>3, CallsTyped
<1>5. Max(J) = j
  <2>0. j \in Int /\ j \in J
    BY <1>2, <1>4
  <2>1. ASSUME NEW h \in J PROVE j >= h /\ h \in Int
    <3>1. h \in Int /\ h \in DOMAIN cs /\ cs[h].id = k.id
      BY <1>4
    <3>2. ~(h > j)
      BY <3>1, <1>2
    <3>3. QED BY <3>1, <3>2, <2>0
  <2>2. J \subseteq Int
    BY <2>1
  <2> HIDE DEF J
  <2>3. QED BY <2>0, <2>1, <2>2, MaxIs
<1>6. i \in A
  BY <1>2, <1>c DEF Announcing, IDs, Named
<1>7. Max(A) = i
  <2>1. \A h \in A : h \in DOMAIN ms /\ k.id \in IDs(ms[h].calls)
    BY DEF Announcing
  <2>2. ASSUME NEW h \in A PROVE i >= h /\ h \in Int
    <3>1. h \in Int /\ i \in Int
      BY <2>1, <1>0
    <3>2. ~(h > i)
      BY <2>1, <1>2
    <3>3. QED BY <3>1, <3>2
  <2> HIDE DEF A
  <2>3. QED BY <2>2, <1>6, MaxIs
<1>8. FindCall(ms, k.id) = cs[Max(J)]
  BY <1>7, <1>c DEF FindCall
<1>9. QED BY <1>2, <1>5, <1>6, <1>8

\* A message that makes no call hides none.
LEMMA LatestStays ==
  ASSUME NEW ms \in Seq(MessageType), NEW m \in MessageType, m.calls = <<>>,
         NEW k, LatestCall(ms, k)
  PROVE  LatestCall(Append(ms, m), k)
<1> DEFINE n == Len(ms)
           new == Append(ms, m)
<1>0. DOMAIN ms = 1..n /\ n \in Nat
  BY LenProperties
<1>1. DOMAIN new = 1..(n + 1) /\ new[n + 1] = m /\ \A h \in 1..n : new[h] = ms[h]
  <2>1. Len(new) = n + 1 /\ new \in Seq(MessageType) /\ \A h \in 1..n : new[h] = ms[h]
    BY AppendProperties
  <2>2. new[n + 1] = m
    BY AppendProperties
  <2>3. QED BY <2>1, <2>2, LenProperties
<1>2. PICK i \in DOMAIN ms : \E j \in DOMAIN ms[i].calls :
        /\ ms[i].calls[j] = k
        /\ \A h \in DOMAIN ms[i].calls : h > j => ms[i].calls[h].id # k.id
        /\ \A h \in DOMAIN ms : h > i => k.id \notin IDs(ms[h].calls)
  BY DEF LatestCall
<1>3. IDs(m.calls) = {}
  BY DEF IDs
<1> HIDE DEF new, n
<1>4. i \in DOMAIN new /\ new[i] = ms[i]
  BY <1>0, <1>1
<1>5. \A h \in DOMAIN new : h > i => k.id \notin IDs(new[h].calls)
  <2>1. TAKE h \in DOMAIN new
  <2>2. HAVE h > i
  <2>3. CASE h = n + 1
    BY <2>3, <1>1, <1>3
  <2>4. CASE h \in 1..n
    <3>1. k.id \notin IDs(ms[h].calls)
      BY <2>2, <2>4, <1>0, <1>2
    <3>2. QED BY <3>1, <2>4, <1>1
  <2>5. QED BY <2>1, <2>3, <2>4, <1>0, <1>1
<1>6. PICK j \in DOMAIN ms[i].calls :
        /\ ms[i].calls[j] = k
        /\ \A h \in DOMAIN ms[i].calls : h > j => ms[i].calls[h].id # k.id
  BY <1>2
<1>7. LatestCall(new, k)
  BY <1>4, <1>5, <1>6 DEF LatestCall
<1>8. QED BY <1>7 DEF new

\* The calls of the message that was appended last are the latest of their ids.
LEMMA LatestAppended ==
  ASSUME NEW ms \in Seq(MessageType), NEW m \in MessageType, ShapeOK(m.calls),
         NEW i \in DOMAIN m.calls
  PROVE  Named(m.calls[i]) /\ LatestCall(Append(ms, m), m.calls[i])
<1> DEFINE n == Len(ms)
           new == Append(ms, m)
           cs == m.calls
           k == cs[i]
<1>0. n \in Nat
  BY LenProperties
<1>1. DOMAIN new = 1..(n + 1) /\ new[n + 1] = m
  <2>1. Len(new) = n + 1 /\ new \in Seq(MessageType)
    BY AppendProperties
  <2>2. new[n + 1] = m
    BY AppendProperties
  <2>3. QED BY <2>1, <2>2, LenProperties
<1>2. DOMAIN cs = 1..Len(cs) /\ Len(cs) \in Nat
  BY CallsTyped
<1>3. Named(k) /\ \A h \in DOMAIN cs : h > i => cs[h].id # k.id
  <2>1. Named(k) /\ \A h \in DOMAIN cs : cs[h].id = k.id => h = i
    BY DEF ShapeOK, Named
  <2>2. i \in Int /\ ~(i > i)
    BY <1>2
  <2>3. QED BY <2>1, <2>2
<1> HIDE DEF new, n
<1>4. n + 1 \in DOMAIN new /\ new[n + 1].calls = cs /\ ~\E h \in DOMAIN new : h > n + 1
  BY <1>0, <1>1
<1>5. LatestCall(new, k)
  BY <1>3, <1>4 DEF LatestCall
<1>6. QED BY <1>3, <1>5 DEF new

-----------------------------------------------------------------------------
(***************************************************************************)
(* The tools.                                                              *)
(***************************************************************************)

\* A command that the policy denies.
DeniedCall(k) == k.name = "bash" /\ Command(k) \in Denied

\* What the loop relies on in the return of a tool: a tool that asks has done nothing,
\* and a denied command only runs under the override bound to it.
ReturnOK(override, k, r) ==
  /\ r.ran \in BOOLEAN
  /\ r.gives \in {"answer", "suspend", "deadline", "interrupted"}
  /\ r.gives = "suspend" =>
       ~r.ran /\ Bound(k, r.requirement) \in RequirementSet /\ Bound(k, r.requirement).call = k.id
  /\ r.ran /\ DeniedCall(k) => override = Override(PolicyRequirement(k))

LEMMA AnswersOK ==
  ASSUME NEW override, NEW k, NEW ran \in BOOLEAN,
         ran /\ DeniedCall(k) => override = Override(PolicyRequirement(k))
  PROVE  ReturnOK(override, k, Answers(ran))
BY DEF ReturnOK, Answers, ToolReturn

LEMMA CarriedOutOK ==
  ASSUME NEW override, NEW k,
         DeniedCall(k) => override = Override(PolicyRequirement(k)),
         NEW r \in CarriedOut
  PROVE  ReturnOK(override, k, r)
<1>1. ReturnOK(override, k, ToolReturn("interrupted", TRUE, NoRequirement))
  BY DEF ReturnOK, ToolReturn
<1>2. ReturnOK(override, k, Answers(TRUE))
  BY AnswersOK
<1>3. r \in {Answers(TRUE), ToolReturn("interrupted", TRUE, NoRequirement)}
  BY DEF CarriedOut
<1>4. QED BY <1>1, <1>2, <1>3

\* bash binds its requirement itself.
LEMMA PolicyIsBound ==
  ASSUME NEW k
  PROVE  Bound(k, PolicyRequirement(k)) = PolicyRequirement(k)
         /\ PolicyRequirement(k).call = k.id
BY DEF Bound, PolicyRequirement

\* What a tool asks for keeps its fields when it is bound.
LEMMA AskIsBound ==
  ASSUME NEW k, NEW q \in AskRequirements
  PROVE  Bound(k, q).call = k.id
BY RequirementsAssumption DEF Bound

LEMMA BashOK ==
  ASSUME NEW override, NEW k \in ToolCalls, k.name = "bash", NEW r \in Bash(override, k)
  PROVE  ReturnOK(override, k, r)
<1>1. CASE ~HasString(k.args, "command")
  <2>1. r = Answers(FALSE)
    BY <1>1 DEF Bash
  <2>2. QED BY <2>1, AnswersOK
<1>2. CASE /\ HasString(k.args, "command")
           /\ Command(k) \notin Denied \/ override = Override(PolicyRequirement(k))
  <2>1. r \in CarriedOut
    BY <1>2 DEF Bash
  <2>2. DeniedCall(k) => override = Override(PolicyRequirement(k))
    BY <1>2 DEF DeniedCall
  <2>3. QED BY <2>1, <2>2, CarriedOutOK
<1>3. CASE /\ HasString(k.args, "command")
           /\ ~(Command(k) \notin Denied \/ override = Override(PolicyRequirement(k)))
  <2>1. r \in {ToolReturn("suspend", FALSE, PolicyRequirement(k)), Answers(FALSE)}
    BY <1>3 DEF Bash
  <2>2. PolicyRequirement(k) \in RequirementSet
    BY DEF RequirementSet
  <2>3. ReturnOK(override, k, ToolReturn("suspend", FALSE, PolicyRequirement(k)))
    BY <2>2, PolicyIsBound DEF ReturnOK, ToolReturn
  <2>4. QED BY <2>1, <2>3, AnswersOK
<1>4. QED BY <1>1, <1>2, <1>3

LEMMA AsksOK ==
  ASSUME NEW override, NEW k \in ToolCalls, ~DeniedCall(k), NEW r \in Asks(k)
  PROVE  ReturnOK(override, k, r)
<1>1. CASE r \in CarriedOut
  BY <1>1, CarriedOutOK
<1>2. ASSUME NEW x, r = [Answers(TRUE) EXCEPT !.result = x]
      PROVE  ReturnOK(override, k, r)
  BY <1>2 DEF ReturnOK, Answers, ToolReturn
<1>3. CASE r = ToolReturn("deadline", TRUE, NoRequirement)
  BY <1>3 DEF ReturnOK, ToolReturn
<1>4. ASSUME NEW q \in AskRequirements, r = ToolReturn("suspend", FALSE, q)
      PROVE  ReturnOK(override, k, r)
  <2>1. Bound(k, q) \in RequirementSet
    BY DEF RequirementSet
  <2>2. QED BY <1>4, <2>1, AskIsBound DEF ReturnOK, ToolReturn
<1>5. QED BY <1>1, <1>2, <1>3, <1>4 DEF Asks

\* Executor.Execute
LEMMA ToolsOK ==
  ASSUME NEW override, NEW k \in ToolCalls, NEW done \in BOOLEAN,
         NEW r \in ToolReturns(override, k, done)
  PROVE  ReturnOK(override, k, r)
<1>1. CASE done
  <2>1. r = ToolReturn("interrupted", FALSE, NoRequirement)
    BY <1>1 DEF ToolReturns
  <2>2. QED BY <2>1 DEF ReturnOK, ToolReturn
<1>2. CASE ~done /\ k.name = "bash"
  <2>1. r \in Bash(override, k)
    BY <1>2 DEF ToolReturns, FileTools
  <2>2. QED BY <1>2, <2>1, BashOK
<1>3. CASE ~done /\ k.name # "bash"
  <2>0. ~DeniedCall(k)
    BY <1>3 DEF DeniedCall
  <2>1. CASE k.name \in FileTools
    <3>1. r \in File(k)
      BY <1>3, <2>1 DEF ToolReturns, FileTools
    <3>2. PICK ran \in BOOLEAN : r = Answers(ran)
      BY <3>1 DEF File
    <3>3. QED BY <2>0, <3>2, AnswersOK
  <2>2. CASE k.name \notin FileTools /\ k.name = "ask"
    <3>1. r \in Asks(k)
      BY <1>3, <2>2 DEF ToolReturns
    <3>2. QED BY <2>0, <3>1, AsksOK
  <2>3. CASE k.name \notin FileTools /\ k.name # "ask"
    <3>1. r = Answers(FALSE)
      BY <1>3, <2>3 DEF ToolReturns
    <3>2. QED BY <3>1, AnswersOK
  <2>4. QED BY <2>1, <2>2, <2>3
<1>4. QED BY <1>1, <1>2, <1>3

\* A result is recorded under the id of its call.
LEMMA ResultCall ==
  ASSUME NEW k, NEW x
  PROVE  ResultOf(k, x).call = k.id
BY DEF ResultOf, Result

-----------------------------------------------------------------------------
(***************************************************************************)
(* Messages and states.                                                    *)
(***************************************************************************)

LEMMA MessagesTyped ==
  /\ UserMessage \in MessageType /\ UserMessage.calls = <<>>
  /\ \A id \in CallIDs, q \in RequirementSet :
       Observation(id, q) \in MessageType /\ Observation(id, q).calls = <<>>
  /\ \A q \in RequirementSet, cs \in CallLists \cup {<<>>} :
       Assistant(q, cs) \in MessageType /\ Assistant(q, cs).calls = cs
<1>1. "" \in CallIDs /\ NoRequirement \in RequirementSet
  BY DEF CallIDs, RequirementSet
<1>2. QED BY <1>1 DEF UserMessage, Observation, Assistant, Message, MessageType

\* A call's id may be the one an observation names.
LEMMA CallIDTyped ==
  ASSUME NEW k \in ToolCalls
  PROVE  k.id \in CallIDs
BY DEF CallIDs

LEMMA NothingRequired == NoRequirement \in RequirementSet
BY DEF RequirementSet

\* The fields of a state.
LEMMA StateFields ==
  ASSUME NEW st \in StateType
  PROVE  /\ st.step \in Nat /\ st.version \in Nat /\ st.status \in KnownStatuses
         /\ st.requirement \in RequirementSet /\ st.messages \in Seq(MessageType)
BY DEF StateType

LEMMA TransitionTyped ==
  ASSUME NEW st \in StateType, NEW status \in KnownStatuses
  PROVE  /\ Transition(st, status) \in StateType
         /\ Transition(st, status).status = status
         /\ Transition(st, status).requirement = st.requirement
         /\ Transition(st, status).messages = st.messages
         /\ Transition(st, status).step = st.step
         /\ Transition(st, status).version = st.version
BY DEF StateType, Transition

LEMMA AppendedTyped ==
  ASSUME NEW st \in StateType, NEW m \in MessageType
  PROVE  /\ Appended(st, m) \in StateType
         /\ Appended(st, m).status = st.status
         /\ Appended(st, m).requirement = st.requirement
         /\ Appended(st, m).messages = Append(st.messages, m)
         /\ Appended(st, m).step = st.step
<1>1. st.messages \in Seq(MessageType)
  BY StateFields
<1>2. Append(st.messages, m) \in Seq(MessageType)
  BY <1>1, AppendProperties
<1> HIDE DEF MessageType
<1>3. QED BY <1>2 DEF StateType, Appended

-----------------------------------------------------------------------------
(***************************************************************************)
(* The two ways a step of the loop ends.                                   *)
(***************************************************************************)

InBudget(st) == st.step = given.step \/ st.step <= input.max

\* st may be returned in this status, when b is the call that is blocked.
EndsSafely(st, status, b) ==
  /\ st \in StateType /\ status \in KnownStatuses
  /\ IF status = "suspended" THEN ValidRequirement(st.requirement)
                             ELSE st.requirement = NoRequirement
  /\ status = "suspended" /\ st.requirement.origin = "tool" =>
       /\ b \in ToolCalls /\ b.id = st.requirement.call
       /\ Accepted(b)
       /\ LatestCall(st.messages, b)

\* The loop may go on with st and cs.
GoesOnSafely(st, cs) ==
  /\ st \in StateType /\ st.status = "running" /\ st.requirement = NoRequirement
  /\ cs \in Seq(ToolCalls)
  /\ \A i \in DOMAIN cs : Named(cs[i]) /\ LatestCall(st.messages, cs[i])

Frame == UNCHANGED <<given, input, round, approvals>>

\* The parts of the invariant that are not about effects, after a step of the loop.
Settled ==
  /\ LoopTyped /\ StatusOK /\ BudgetOK /\ CallsOK /\ BlockedOK /\ ReplayOK
  /\ ~ToReplay

LEMMA PublishesTyped ==
  ASSUME refused \in BOOLEAN, NEW es, NEW done, Publishes(es, done)
  PROVE  refused' \in BOOLEAN
BY DEF Publishes

LEMMA EndsKeeps ==
  ASSUME LoopTyped, StatusOK, NEW st, NEW status, NEW es, NEW done \in BOOLEAN,
         NEW b \in ToolCalls \cup {NoCall}, blocked' = b,
         EndsSafely(st, status, b), InBudget(st),
         Ends(st, status, es, done), Frame, effects' \in Seq(ToolCalls)
  PROVE  Settled'
<1>1. st \in StateType /\ status \in KnownStatuses
  BY DEF EndsSafely
<1>2. /\ run' = Transition(st, status) /\ pc' = "between" /\ calls' = <<>>
      /\ ctxDone' = done /\ Publishes(es \o FinalEvents(run'), done)
  BY DEF Ends
<1>3. /\ run' \in StateType /\ run'.status = status /\ run'.requirement = st.requirement
      /\ run'.messages = st.messages /\ run'.step = st.step
  BY <1>1, <1>2, TransitionTyped
<1>4. given' = given /\ input' = input /\ round' = round /\ approvals' = approvals
  BY DEF Frame
<1>5. LoopTyped'
  <2>1. refused' \in BOOLEAN
    BY <1>2, PublishesTyped DEF LoopTyped
  <2>2. calls' \in Seq(ToolCalls)
    BY <1>2
  <2>3. QED BY <1>2, <1>3, <1>4, <2>1, <2>2 DEF LoopTyped
<1>6. StatusOK'
  BY <1>2, <1>3, <1>4 DEF StatusOK, SuspensionInvariant, EndsSafely
<1>7. BudgetOK'
  BY <1>3, <1>4 DEF BudgetOK, InBudget
<1>8. CallsOK'
  <2>1. DOMAIN calls' = {}
    BY <1>2
  <2>2. QED BY <2>1 DEF CallsOK
<1>9. BlockedOK'
  BY <1>3 DEF BlockedOK, EndsSafely, Accepted
<1>10. ~ToReplay' /\ ReplayOK'
  BY <1>2 DEF ToReplay, ReplayOK
<1>11. QED BY <1>5, <1>6, <1>7, <1>8, <1>9, <1>10 DEF Settled

LEMMA ContinuesKeeps ==
  ASSUME LoopTyped, StatusOK, NEW st, NEW cs, NEW es,
         GoesOnSafely(st, cs), InBudget(st), Continues(st, cs, es), Frame,
         blocked' = blocked, effects' \in Seq(ToolCalls)
  PROVE  Settled'
<1>1. st \in StateType /\ cs \in Seq(ToolCalls) /\ st.status = "running"
      /\ st.requirement = NoRequirement
  BY DEF GoesOnSafely
<1>2. /\ run' = st /\ calls' = cs /\ ctxDone' = ctxDone /\ Publishes(es, ctxDone)
      /\ pc' = IF cs = <<>> THEN "thinking" ELSE "acting"
  BY DEF Continues
<1>3. pc' \in {"thinking", "acting"}
  BY <1>2
<1>4. given' = given /\ input' = input /\ round' = round /\ approvals' = approvals
  BY DEF Frame
<1>5. LoopTyped'
  <2>1. refused' \in BOOLEAN
    BY <1>2, PublishesTyped DEF LoopTyped
  <2>2. pc' = "acting" <=> calls' # <<>>
    BY <1>2
  <2>3. QED BY <1>1, <1>2, <1>3, <1>4, <2>1, <2>2 DEF LoopTyped
<1>6. StatusOK'
  BY <1>1, <1>2, <1>3, <1>4 DEF StatusOK, SuspensionInvariant
<1>7. BudgetOK'
  BY <1>2, <1>4 DEF BudgetOK, InBudget
<1>8. CallsOK'
  BY <1>2 DEF CallsOK, GoesOnSafely, Named
<1>9. BlockedOK'
  BY <1>1, <1>2 DEF BlockedOK
<1>10. ~ToReplay' /\ ReplayOK'
  BY <1>3 DEF ToReplay, ReplayOK
<1>11. QED BY <1>5, <1>6, <1>7, <1>8, <1>9, <1>10 DEF Settled

-----------------------------------------------------------------------------
(***************************************************************************)
(* Effects and approvals.                                                  *)
(***************************************************************************)

\* The approval of k that is still to be redeemed.
Unspent(k) == IF ToReplay /\ k = Last(approvals) THEN 1 ELSE 0

LEMMA ApprovalsRead ==
  ApprovalsOK <=> \A k \in ToolCalls : DeniedCall(k) =>
                    Times(effects, k) + Unspent(k) <= Times(approvals, k)
BY DEF ApprovalsOK, DeniedCall, Unspent

LEMMA ApprovalsReadNext ==
  ApprovalsOK' <=> \A k \in ToolCalls : DeniedCall(k) =>
                     Times(effects', k) + Unspent(k)' <= Times(approvals', k)
BY DEF ApprovalsOK, DeniedCall, Unspent, Command

LEMMA NothingRan ==
  ASSUME LoopTyped, ApprovalsOK, EffectsOK,
         effects' = effects, approvals' = approvals, ToReplay' => ToReplay
  PROVE  ApprovalsOK' /\ EffectsOK'
<1>1. EffectsOK'
  BY DEF EffectsOK, Accepted
<1>2. ASSUME NEW k \in ToolCalls, DeniedCall(k)
      PROVE  Times(effects', k) + Unspent(k)' <= Times(approvals', k)
  <2>1. Times(effects, k) + Unspent(k) <= Times(approvals, k)
    BY <1>2, ApprovalsRead
  <2>2. Times(effects, k) \in Nat /\ Times(approvals, k) \in Nat
    BY TimesTyped DEF LoopTyped
  <2>3. Unspent(k) \in {0, 1} /\ Unspent(k)' \in {0, 1} /\ (Unspent(k)' = 1 => Unspent(k) = 1)
    BY DEF Unspent
  <2>4. QED BY <2>1, <2>2, <2>3
<1>3. QED BY <1>1, <1>2, ApprovalsReadNext

\* k may be carried out, as r has it.
MayRun(k, r) ==
  /\ k \in ToolCalls /\ Accepted(k)
  /\ r.ran \in BOOLEAN
  /\ r.ran /\ DeniedCall(k) => ToReplay /\ k = Last(approvals)

LEMMA RanKeeps ==
  ASSUME LoopTyped, ApprovalsOK, EffectsOK, NEW k, NEW r, MayRun(k, r), Ran(k, r),
         approvals' = approvals, ~ToReplay'
  PROVE  effects' \in Seq(ToolCalls) /\ ApprovalsOK' /\ EffectsOK'
<1>0. effects \in Seq(ToolCalls) /\ approvals \in Seq(ToolCalls)
  BY DEF LoopTyped
<1>1. CASE ~r.ran
  <2>1. effects' = effects
    BY <1>1 DEF Ran
  <2>2. QED BY <1>0, <2>1, NothingRan
<1>2. CASE r.ran
  <2>1. effects' = Append(effects, k) /\ k \in ToolCalls
    BY <1>2 DEF Ran, MayRun
  <2>2. effects' \in Seq(ToolCalls)
    BY <1>0, <2>1, AppendProperties
  <2>3. EffectsOK'
    <3> DEFINE n == Len(effects)
    <3>1. /\ n \in Nat /\ DOMAIN effects = 1..n /\ DOMAIN effects' = 1..(n + 1)
          /\ effects'[n + 1] = k /\ \A i \in 1..n : effects'[i] = effects[i]
      <4>1. n \in Nat /\ DOMAIN effects = 1..n
        BY <1>0, LenProperties
      <4>2. Len(effects') = n + 1 /\ \A i \in 1..n : effects'[i] = effects[i]
        BY <1>0, <2>1, AppendProperties
      <4>3. effects'[n + 1] = k
        BY <1>0, <2>1, AppendProperties
      <4>4. DOMAIN effects' = 1..Len(effects')
        BY <2>2, LenProperties
      <4>5. QED BY <4>1, <4>2, <4>3, <4>4
    <3> HIDE DEF n
    <3>2. Accepted(k) /\ \A i \in 1..n : Accepted(effects[i])
      BY <3>1 DEF MayRun, EffectsOK
    <3>3. ASSUME NEW i \in 1..(n + 1) PROVE Accepted(effects'[i])
      <4>1. i \in 1..n \/ i = n + 1
        BY <3>1
      <4>2. QED BY <3>1, <3>2, <4>1
    <3>4. QED BY <3>1, <3>3 DEF EffectsOK, Accepted
  <2>4. ASSUME NEW x \in ToolCalls, DeniedCall(x)
        PROVE  Times(effects', x) + Unspent(x)' <= Times(approvals', x)
    <3>1. Times(effects, x) + Unspent(x) <= Times(approvals, x)
      BY <2>4, ApprovalsRead
    <3>2. Times(effects, x) \in Nat /\ Times(approvals, x) \in Nat
      BY <1>0, TimesTyped
    <3>3. Times(effects', x) = Times(effects, x) + (IF k = x THEN 1 ELSE 0)
      BY <1>0, <2>1, TimesAppend
    <3>4. Unspent(x)' = 0 /\ Unspent(x) \in {0, 1}
      BY DEF Unspent
    <3>5. k = x => Unspent(x) = 1
      BY <1>2, <2>4 DEF Unspent, MayRun
    <3>6. QED BY <3>1, <3>2, <3>3, <3>4, <3>5
  <2>5. QED BY <2>2, <2>3, <2>4, ApprovalsReadNext
<1>3. QED BY <1>1, <1>2 DEF MayRun

-----------------------------------------------------------------------------
(***************************************************************************)
(* The steps of the loop that carry nothing out.                           *)
(***************************************************************************)

LEMMA InvFrom ==
  ASSUME Settled', ApprovalsOK', EffectsOK'
  PROVE  LoopInv'
BY DEF Settled, LoopInv

LEMMA QuietEnds ==
  ASSUME LoopInv, NEW st, NEW status, NEW es, NEW done \in BOOLEAN,
         EndsSafely(st, status, blocked), InBudget(st),
         Ends(st, status, es, done), UNCHANGED <<given, input, Aux>>
  PROVE  LoopInv'
<1>1. /\ LoopTyped /\ StatusOK /\ ApprovalsOK /\ EffectsOK
      /\ blocked \in ToolCalls \cup {NoCall} /\ effects \in Seq(ToolCalls)
  BY DEF LoopInv, LoopTyped
<1>2. Frame /\ blocked' = blocked /\ effects' = effects /\ approvals' = approvals
  BY DEF Frame, Aux
<1>3. Settled'
  BY <1>1, <1>2, EndsKeeps
<1>4. ApprovalsOK' /\ EffectsOK'
  <2>1. ~ToReplay'
    BY <1>3 DEF Settled
  <2>2. QED BY <1>1, <1>2, <2>1, NothingRan
<1>5. QED BY <1>3, <1>4, InvFrom

LEMMA QuietContinues ==
  ASSUME LoopInv, NEW st, NEW cs, NEW es,
         GoesOnSafely(st, cs), InBudget(st), Continues(st, cs, es),
         UNCHANGED <<given, input, Aux>>
  PROVE  LoopInv'
<1>1. /\ LoopTyped /\ StatusOK /\ ApprovalsOK /\ EffectsOK
      /\ effects \in Seq(ToolCalls)
  BY DEF LoopInv, LoopTyped
<1>2. Frame /\ blocked' = blocked /\ effects' = effects /\ approvals' = approvals
  BY DEF Frame, Aux
<1>3. Settled'
  BY <1>1, <1>2, ContinuesKeeps
<1>4. ApprovalsOK' /\ EffectsOK'
  <2>1. ~ToReplay'
    BY <1>3 DEF Settled
  <2>2. QED BY <1>1, <1>2, <2>1, NothingRan
<1>5. QED BY <1>3, <1>4, InvFrom

\* A run that the loop works on has no requirement.
LEMMA Working ==
  ASSUME LoopInv, pc # "between"
  PROVE  /\ run \in StateType /\ run.requirement = NoRequirement
         /\ ctxDone \in BOOLEAN /\ InBudget(run)
         /\ pc # "entering" => run.status = "running"
<1>1. run \in StateType /\ ctxDone \in BOOLEAN
      /\ pc \in {"between", "entering", "replaying", "thinking", "acting"}
  BY DEF LoopInv, LoopTyped
<1>2. InBudget(run)
  BY DEF LoopInv, BudgetOK, InBudget
<1>3. SuspensionInvariant(run) /\ (pc = "entering" => run.status \in Resumable)
      /\ (pc \in {"replaying", "thinking", "acting"} => run.status = "running")
  BY DEF LoopInv, StatusOK
<1>4. run.status # "suspended"
  BY <1>1, <1>3 DEF Resumable
<1>5. run.requirement = NoRequirement
  BY <1>3, <1>4 DEF SuspensionInvariant
<1>6. QED BY <1>1, <1>2, <1>3, <1>5

\* A state without a requirement may be returned in any status but suspended.
LEMMA EndsUnsuspended ==
  ASSUME NEW st \in StateType, st.requirement = NoRequirement,
         NEW status \in {"failed", "cancelled", "completed", "max_steps_exceeded"}, NEW b
  PROVE  EndsSafely(st, status, b)
BY DEF EndsSafely, KnownStatuses, Statuses

LEMMA InterruptedKeeps == LoopInv /\ Interrupted => LoopInv'
<1> SUFFICES ASSUME LoopInv, Interrupted PROVE LoopInv'
  OBVIOUS
<1>1. pc # "between" /\ Ends(run, "cancelled", <<>>, TRUE) /\ UNCHANGED <<given, input, Aux>>
  BY DEF Interrupted
<1>2. run \in StateType /\ run.requirement = NoRequirement /\ InBudget(run)
  BY <1>1, Working
<1>3. EndsSafely(run, "cancelled", blocked)
  BY <1>2, EndsUnsuspended
<1>4. QED BY <1>1, <1>2, <1>3, QuietEnds

LEMMA ExceedKeeps == LoopInv /\ Exceed => LoopInv'
<1> SUFFICES ASSUME LoopInv, Exceed PROVE LoopInv'
  OBVIOUS
<1>1. /\ pc # "between" /\ Ends(run, "max_steps_exceeded", <<>>, ctxDone)
      /\ UNCHANGED <<given, input, Aux>>
  BY DEF Exceed
<1>2. /\ run \in StateType /\ run.requirement = NoRequirement
      /\ InBudget(run) /\ ctxDone \in BOOLEAN
  BY <1>1, Working
<1>3. EndsSafely(run, "max_steps_exceeded", blocked)
  BY <1>2, EndsUnsuspended
<1>4. QED BY <1>1, <1>2, <1>3, QuietEnds

\* The next message of the model, within the budget.
LEMMA ThoughtTyped ==
  ASSUME LoopInv, Thinks, NEW q \in RequirementSet, NEW cs \in CallLists \cup {<<>>}
  PROVE  /\ Thought(q, cs) \in StateType
         /\ Thought(q, cs).status = run.status
         /\ Thought(q, cs).requirement = run.requirement
         /\ Thought(q, cs).messages = Append(run.messages, Assistant(q, cs))
         /\ InBudget(Thought(q, cs))
<1>1. run \in StateType /\ input.max \in Int /\ run.step < input.max
  BY DEF LoopInv, LoopTyped, Thinks, BudgetLeft
<1>2. run.step \in Nat /\ run.messages \in Seq(MessageType)
  BY <1>1, StateFields
<1>3. Assistant(q, cs) \in MessageType
  BY MessagesTyped
<1>4. Append(run.messages, Assistant(q, cs)) \in Seq(MessageType) /\ run.step + 1 \in Nat
  BY <1>2, <1>3, AppendProperties
<1>5. run.step + 1 <= input.max
  BY <1>1, <1>2
<1>6. Thought(q, cs).step = run.step + 1
  BY <1>1 DEF Thought, StateType
<1>7. InBudget(Thought(q, cs))
  BY <1>5, <1>6 DEF InBudget
<1> HIDE DEF MessageType
<1>8. /\ Thought(q, cs) \in StateType
      /\ Thought(q, cs).status = run.status
      /\ Thought(q, cs).requirement = run.requirement
      /\ Thought(q, cs).messages = Append(run.messages, Assistant(q, cs))
  BY <1>1, <1>4 DEF Thought, StateType
<1>9. QED BY <1>7, <1>8

LEMMA ModelFailsKeeps == LoopInv /\ ModelFails => LoopInv'
<1> SUFFICES ASSUME LoopInv, ModelFails PROVE LoopInv'
  OBVIOUS
<1> DEFINE st == [run EXCEPT !.step = @ + 1]
<1>1. pc # "between" /\ Thinks /\ UNCHANGED <<given, input, Aux>>
  BY DEF ModelFails, Thinks
<1>2. run \in StateType /\ run.requirement = NoRequirement /\ ctxDone \in BOOLEAN
  BY <1>1, Working
<1>3. st \in StateType /\ st.requirement = NoRequirement /\ st.step = run.step + 1
  <2>1. run.step + 1 \in Nat
    BY <1>2, StateFields
  <2>2. QED BY <1>2, <2>1 DEF StateType
<1>4. InBudget(st)
  <2>1. input.max \in Int /\ run.step \in Nat /\ run.step < input.max
    BY <1>1, <1>2, StateFields DEF LoopInv, LoopTyped, Thinks, BudgetLeft
  <2>2. run.step + 1 <= input.max
    BY <2>1
  <2>3. QED BY <1>3, <2>2 DEF InBudget
<1>5. \E status \in {"failed", "cancelled"}, done \in BOOLEAN : Ends(st, status, <<>>, done)
  BY <1>2 DEF ModelFails
<1> HIDE DEF st
<1>6. PICK status \in {"failed", "cancelled"}, done \in BOOLEAN : Ends(st, status, <<>>, done)
  BY <1>5
<1>7. EndsSafely(st, status, blocked)
  BY <1>3, EndsUnsuspended
<1>8. QED BY <1>1, <1>4, <1>6, <1>7, QuietEnds

LEMMA ModelAnswersKeeps == LoopInv /\ ModelAnswers => LoopInv'
<1> SUFFICES ASSUME LoopInv, ModelAnswers PROVE LoopInv'
  OBVIOUS
<1> DEFINE st == Thought(NoRequirement, <<>>)
<1>1. /\ pc # "between" /\ Thinks /\ UNCHANGED <<given, input, Aux>>
      /\ Ends(st, "completed", Said, ctxDone)
  BY DEF ModelAnswers, Thinks
<1>2. run.requirement = NoRequirement /\ ctxDone \in BOOLEAN
  BY <1>1, Working
<1>3. st \in StateType /\ st.requirement = run.requirement /\ InBudget(st)
  BY <1>1, NothingRequired, ThoughtTyped
<1> HIDE DEF st
<1>4. EndsSafely(st, "completed", blocked)
  BY <1>2, <1>3, EndsUnsuspended
<1>5. QED BY <1>1, <1>2, <1>3, <1>4, QuietEnds

LEMMA ModelRequiresKeeps == LoopInv /\ ModelRequires => LoopInv'
<1> SUFFICES ASSUME LoopInv, ModelRequires PROVE LoopInv'
  OBVIOUS
<1>1. pc # "between" /\ Thinks /\ UNCHANGED <<given, input, Aux>>
  BY DEF ModelRequires, Thinks
<1>2. run.requirement = NoRequirement /\ ctxDone \in BOOLEAN
  BY <1>1, Working
<1>3. PICK q \in ModelRequirements, cs \in CallLists \cup {<<>>} :
        IF cs = <<>> /\ q.origin = "model" /\ ValidRequirement(q)
        THEN Ends([Thought(q, cs) EXCEPT !.requirement = q], "suspended", Said, ctxDone)
        ELSE Ends(Thought(q, cs), "failed", Said, ctxDone)
  BY DEF ModelRequires
<1>4. q \in RequirementSet
  BY DEF RequirementSet
<1>5. PICK st : st = Thought(q, cs)
  OBVIOUS
<1>6. st \in StateType /\ st.requirement = run.requirement /\ InBudget(st)
  BY <1>1, <1>4, <1>5, ThoughtTyped
<1>7. CASE Ends(st, "failed", Said, ctxDone)
  <2>1. EndsSafely(st, "failed", blocked)
    BY <1>2, <1>6, EndsUnsuspended
  <2>2. QED BY <1>1, <1>2, <1>6, <1>7, <2>1, QuietEnds
<1>8. CASE /\ q.origin = "model" /\ ValidRequirement(q)
           /\ Ends([st EXCEPT !.requirement = q], "suspended", Said, ctxDone)
  <2>1. PICK asked : asked = [st EXCEPT !.requirement = q]
    OBVIOUS
  <2>2. asked \in StateType /\ asked.requirement = q /\ asked.step = st.step
    BY <1>4, <1>6, <2>1 DEF StateType
  <2>3. EndsSafely(asked, "suspended", blocked)
    BY <1>8, <2>2 DEF EndsSafely, KnownStatuses, Statuses
  <2>4. InBudget(asked)
    BY <1>6, <2>2 DEF InBudget
  <2>5. Ends(asked, "suspended", Said, ctxDone)
    BY <1>8, <2>1
  <2>6. QED BY <1>1, <1>2, <2>3, <2>4, <2>5, QuietEnds
<1>9. QED BY <1>3, <1>5, <1>7, <1>8

LEMMA ModelCallsKeeps == LoopInv /\ ModelCalls => LoopInv'
<1> SUFFICES ASSUME LoopInv, ModelCalls PROVE LoopInv'
  OBVIOUS
<1>1. pc # "between" /\ pc # "entering" /\ Thinks /\ UNCHANGED <<given, input, Aux>>
  BY DEF ModelCalls, Thinks
<1>2. /\ run \in StateType /\ run.status = "running"
      /\ run.requirement = NoRequirement /\ ctxDone \in BOOLEAN
  BY <1>1, Working
<1>3. PICK cs \in CallLists :
        LET st == Thought(NoRequirement, cs) IN
        IF ShapeOK(cs) THEN Continues(st, cs, Said) ELSE Ends(st, "failed", Said, ctxDone)
  BY DEF ModelCalls
<1>4. PICK st : st = Thought(NoRequirement, cs)
  OBVIOUS
<1>5. PICK m : m = Assistant(NoRequirement, cs)
  OBVIOUS
<1>6. /\ st \in StateType /\ st.status = run.status /\ st.requirement = run.requirement
      /\ st.messages = Append(run.messages, m) /\ InBudget(st)
  BY <1>1, <1>4, <1>5, NothingRequired, ThoughtTyped
<1>7. CASE ~ShapeOK(cs)
  <2>1. EndsSafely(st, "failed", blocked)
    BY <1>2, <1>6, EndsUnsuspended
  <2>2. Ends(st, "failed", Said, ctxDone)
    BY <1>3, <1>4, <1>7
  <2>3. QED BY <1>1, <1>2, <1>6, <2>1, <2>2, QuietEnds
<1>8. CASE ShapeOK(cs)
  <2>1. m \in MessageType /\ m.calls = cs
    BY <1>5, NothingRequired, MessagesTyped
  <2>2. run.messages \in Seq(MessageType)
    BY <1>2, StateFields
  <2>3. ASSUME NEW i \in DOMAIN cs
        PROVE  Named(cs[i]) /\ LatestCall(st.messages, cs[i])
    BY <1>6, <1>8, <2>1, <2>2, LatestAppended
  <2>4. cs \in Seq(ToolCalls)
    BY CallsAssumption
  <2>5. GoesOnSafely(st, cs)
    BY <1>2, <1>6, <2>3, <2>4 DEF GoesOnSafely
  <2>6. Continues(st, cs, Said)
    BY <1>3, <1>4, <1>8
  <2>7. QED BY <1>1, <1>6, <2>5, <2>6, QuietContinues
<1>9. QED BY <1>7, <1>8

-----------------------------------------------------------------------------
(***************************************************************************)
(* The calls.                                                              *)
(***************************************************************************)

\* The first of the calls still to execute, and those behind it.
LEMMA ActingFacts ==
  ASSUME LoopInv, pc = "acting"
  PROVE  /\ Head(calls) \in ToolCalls /\ Named(Head(calls))
         /\ LatestCall(run.messages, Head(calls))
         /\ Tail(calls) \in Seq(ToolCalls)
         /\ \A i \in DOMAIN Tail(calls) :
              Named(Tail(calls)[i]) /\ LatestCall(run.messages, Tail(calls)[i])
<1>1. calls \in Seq(ToolCalls) /\ calls # <<>>
  BY DEF LoopInv, LoopTyped
<1>2. \A i \in DOMAIN calls : Named(calls[i]) /\ LatestCall(run.messages, calls[i])
  BY DEF LoopInv, CallsOK, Named
<1>3. PICK s : s = calls
  OBVIOUS
<1>4. s \in Seq(ToolCalls) /\ s # <<>>
      /\ \A i \in DOMAIN s : Named(s[i]) /\ LatestCall(run.messages, s[i])
  BY <1>1, <1>2, <1>3
<1>5. /\ Len(s) \in Nat /\ DOMAIN s = 1..Len(s) /\ Len(s) >= 1
      /\ Head(s) = s[1] /\ Head(s) \in ToolCalls
  BY <1>4, HeadTailProperties, LenProperties, EmptySeq
<1>6. /\ Tail(s) \in Seq(ToolCalls) /\ DOMAIN Tail(s) = 1..(Len(s) - 1)
      /\ \A i \in 1..(Len(s) - 1) : Tail(s)[i] = s[i + 1]
  BY <1>4, <1>5, HeadTailProperties, LenProperties
<1>7. 1 \in DOMAIN s /\ \A i \in 1..(Len(s) - 1) : i + 1 \in DOMAIN s
  BY <1>5
<1>8. \A i \in DOMAIN Tail(s) : Named(Tail(s)[i]) /\ LatestCall(run.messages, Tail(s)[i])
  BY <1>4, <1>6, <1>7
<1>9. QED BY <1>3, <1>4, <1>5, <1>6, <1>7, <1>8

\* What an observation of k makes of the run.
LEMMA ObservedTyped ==
  ASSUME run \in StateType, NEW k \in ToolCalls, NEW x, x.call = k.id, NEW q \in RequirementSet
  PROVE  /\ Observed(x, q) \in StateType
         /\ Observed(x, q).status = run.status
         /\ Observed(x, q).requirement = run.requirement
         /\ Observed(x, q).messages = Append(run.messages, Observation(k.id, q))
         /\ Observed(x, q).step = run.step
         /\ \A c : LatestCall(run.messages, c) => LatestCall(Observed(x, q).messages, c)
<1>1. PICK m : m = Observation(k.id, q)
  OBVIOUS
<1>2. m \in MessageType /\ m.calls = <<>>
  BY <1>1, CallIDTyped, MessagesTyped
<1>3. Observed(x, q) = Appended(run, m)
  BY <1>1 DEF Observed
<1>4. run.messages \in Seq(MessageType)
  BY StateFields
<1>5. /\ Observed(x, q) \in StateType
      /\ Observed(x, q).status = run.status
      /\ Observed(x, q).requirement = run.requirement
      /\ Observed(x, q).messages = Append(run.messages, m)
      /\ Observed(x, q).step = run.step
  BY <1>2, <1>3, AppendedTyped
<1>6. \A c : LatestCall(run.messages, c) => LatestCall(Append(run.messages, m), c)
  BY <1>2, <1>4, LatestStays
<1>7. QED BY <1>1, <1>5, <1>6

LEMMA RefuseCallKeeps == LoopInv /\ RefuseCall => LoopInv'
<1> SUFFICES ASSUME LoopInv, RefuseCall PROVE LoopInv'
  OBVIOUS
<1> DEFINE k == Head(calls)
           x == Result(k.id, k.name)
           st == Observed(x, NoRequirement)
<1>1. /\ pc # "between" /\ pc # "entering" /\ pc = "acting"
      /\ Continues(st, Tail(calls), <<ToolEvent(run, x)>>)
      /\ UNCHANGED <<given, input, Aux>>
  BY DEF RefuseCall
<1>2. /\ run \in StateType /\ run.status = "running"
      /\ run.requirement = NoRequirement /\ InBudget(run)
  BY <1>1, Working
<1>3. k \in ToolCalls /\ x.call = k.id
  BY <1>1, ActingFacts DEF Result
<1>4. /\ st \in StateType /\ st.status = run.status /\ st.requirement = run.requirement
      /\ st.step = run.step
      /\ \A c : LatestCall(run.messages, c) => LatestCall(st.messages, c)
  BY <1>2, <1>3, NothingRequired, ObservedTyped
<1> HIDE DEF st, x, k
<1>5. GoesOnSafely(st, Tail(calls))
  BY <1>1, <1>2, <1>4, ActingFacts DEF GoesOnSafely
<1>6. InBudget(st)
  BY <1>2, <1>4 DEF InBudget
<1>7. QED BY <1>1, <1>5, <1>6, QuietContinues

LEMMA RanTyped ==
  ASSUME LoopInv, NEW k, NEW r, MayRun(k, r), Ran(k, r)
  PROVE  effects' \in Seq(ToolCalls)
<1>1. effects \in Seq(ToolCalls) /\ k \in ToolCalls
  BY DEF LoopInv, LoopTyped, MayRun
<1>2. Append(effects, k) \in Seq(ToolCalls)
  BY <1>1, AppendProperties
<1>3. QED BY <1>1, <1>2 DEF Ran

LEMMA RanEnds ==
  ASSUME LoopInv, NEW k, NEW r, MayRun(k, r), Ran(k, r),
         NEW st, NEW status, NEW es, NEW done \in BOOLEAN,
         NEW b \in ToolCalls \cup {NoCall}, blocked' = b,
         EndsSafely(st, status, b), InBudget(st),
         Ends(st, status, es, done), Frame
  PROVE  LoopInv'
<1>1. LoopTyped /\ StatusOK /\ ApprovalsOK /\ EffectsOK
  BY DEF LoopInv
<1>2. effects' \in Seq(ToolCalls)
  BY RanTyped
<1>3. Settled'
  BY <1>1, <1>2, EndsKeeps
<1>4. ApprovalsOK' /\ EffectsOK'
  <2>1. ~ToReplay' /\ approvals' = approvals
    BY <1>3 DEF Settled, Frame
  <2>2. QED BY <1>1, <2>1, RanKeeps
<1>5. QED BY <1>3, <1>4, InvFrom

LEMMA RanContinues ==
  ASSUME LoopInv, NEW k, NEW r, MayRun(k, r), Ran(k, r), NEW st, NEW cs, NEW es,
         GoesOnSafely(st, cs), InBudget(st), Continues(st, cs, es), Frame,
         blocked' = blocked
  PROVE  LoopInv'
<1>1. LoopTyped /\ StatusOK /\ ApprovalsOK /\ EffectsOK
  BY DEF LoopInv
<1>2. effects' \in Seq(ToolCalls)
  BY RanTyped
<1>3. Settled'
  BY <1>1, <1>2, ContinuesKeeps
<1>4. ApprovalsOK' /\ EffectsOK'
  <2>1. ~ToReplay' /\ approvals' = approvals
    BY <1>3 DEF Settled, Frame
  <2>2. QED BY <1>1, <2>1, RanKeeps
<1>5. QED BY <1>3, <1>4, InvFrom

\* Outside a replay no denied command is carried out.
LEMMA LoopMayRun ==
  ASSUME NEW k \in ToolCalls, Named(k), Accepted(k), NEW r, ReturnOK(LoopOverride, k, r)
  PROVE  MayRun(k, r)
<1>1. LoopOverride # Override(PolicyRequirement(k))
  BY DEF LoopOverride, NoOverride, Override, PolicyRequirement, Named
<1>2. QED BY <1>1 DEF ReturnOK, MayRun

LEMMA ExecuteCallKeeps == LoopInv /\ ExecuteCall => LoopInv'
<1> SUFFICES ASSUME LoopInv, ExecuteCall PROVE LoopInv'
  OBVIOUS
<1>0. PICK k : k = Head(calls)
  OBVIOUS
<1>1. /\ pc # "between" /\ pc # "entering" /\ pc = "acting" /\ Accepted(k)
      /\ Frame
  BY <1>0 DEF ExecuteCall, Frame
<1>2. /\ run \in StateType /\ run.status = "running" /\ ctxDone \in BOOLEAN
      /\ run.requirement = NoRequirement /\ InBudget(run)
  BY <1>1, Working
<1>3. k \in ToolCalls /\ Named(k) /\ LatestCall(run.messages, k)
  BY <1>0, <1>1, ActingFacts
<1>4. blocked \in ToolCalls \cup {NoCall}
  BY DEF LoopInv, LoopTyped
<1>5. PICK r \in ToolReturns(LoopOverride, k, FALSE) :
        LET q  == Bound(k, r.requirement)
            x  == ResultOf(k, r.result)
            es == <<ToolEvent(run, x)>>
        IN
        /\ Ran(k, r)
        /\ \/ /\ r.gives = "answer"
              /\ Continues(Observed(x, NoRequirement), Tail(calls), es)
              /\ UNCHANGED blocked
           \/ /\ r.gives = "suspend" /\ SuspendRequestOK(k, r.requirement)
              /\ Ends([Observed(x, q) EXCEPT !.requirement = q], "suspended", es, ctxDone)
              /\ blocked' = k
           \/ /\ r.gives = "suspend" /\ ~SuspendRequestOK(k, r.requirement)
              /\ Ends(Observed(x, NoRequirement), "failed", es, ctxDone)
              /\ UNCHANGED blocked
           \/ /\ r.gives \in {"deadline", "interrupted"}
              /\ Ends(run, "cancelled", <<>>, r.gives = "interrupted")
              /\ UNCHANGED blocked
  BY <1>0 DEF ExecuteCall
<1>6. ReturnOK(LoopOverride, k, r)
  BY <1>3, ToolsOK
<1>7. MayRun(k, r) /\ Ran(k, r)
  BY <1>1, <1>3, <1>5, <1>6, LoopMayRun
<1>8. PICK x : x = ResultOf(k, r.result)
  OBVIOUS
<1>9. x.call = k.id
  BY <1>8, ResultCall
<1>10. PICK st : st = Observed(x, NoRequirement)
  OBVIOUS
<1>11. /\ st \in StateType /\ st.status = run.status /\ st.requirement = run.requirement
       /\ st.step = run.step
       /\ \A c : LatestCall(run.messages, c) => LatestCall(st.messages, c)
  BY <1>2, <1>3, <1>9, <1>10, NothingRequired, ObservedTyped
<1>12. InBudget(st)
  BY <1>2, <1>11 DEF InBudget
<1>13. ASSUME NEW es, Continues(st, Tail(calls), es), blocked' = blocked
       PROVE  LoopInv'
  <2>1. GoesOnSafely(st, Tail(calls))
    BY <1>1, <1>2, <1>11, ActingFacts DEF GoesOnSafely
  <2>2. QED BY <1>1, <1>7, <1>12, <1>13, <2>1, RanContinues
<1>14. ASSUME NEW es, Ends(st, "failed", es, ctxDone), blocked' = blocked
       PROVE  LoopInv'
  <2>1. EndsSafely(st, "failed", blocked)
    BY <1>2, <1>11, EndsUnsuspended
  <2>2. QED BY <1>1, <1>2, <1>4, <1>7, <1>12, <1>14, <2>1, RanEnds
<1>15. ASSUME NEW done \in BOOLEAN, Ends(run, "cancelled", <<>>, done), blocked' = blocked
       PROVE  LoopInv'
  <2>1. EndsSafely(run, "cancelled", blocked)
    BY <1>2, EndsUnsuspended
  <2>2. QED BY <1>1, <1>2, <1>4, <1>7, <1>15, <2>1, RanEnds
<1>16. ASSUME NEW es, NEW q, q = Bound(k, r.requirement), r.gives = "suspend",
              SuspendRequestOK(k, r.requirement),
              Ends([Observed(x, q) EXCEPT !.requirement = q], "suspended", es, ctxDone),
              blocked' = k
       PROVE  LoopInv'
  <2>1. q \in RequirementSet /\ q.call = k.id /\ ValidRequirement(q)
    BY <1>6, <1>16 DEF ReturnOK, SuspendRequestOK
  <2>2. PICK seen : seen = Observed(x, q)
    OBVIOUS
  <2>3. /\ seen \in StateType /\ seen.step = run.step
        /\ \A c : LatestCall(run.messages, c) => LatestCall(seen.messages, c)
    BY <1>2, <1>3, <1>9, <2>1, <2>2, ObservedTyped
  <2>4. PICK asked : asked = [seen EXCEPT !.requirement = q]
    OBVIOUS
  <2>5. /\ asked \in StateType /\ asked.requirement = q /\ asked.step = run.step
        /\ asked.messages = seen.messages
    BY <2>1, <2>3, <2>4 DEF StateType
  <2>6. EndsSafely(asked, "suspended", k)
    BY <1>1, <1>3, <2>1, <2>3, <2>5 DEF EndsSafely, KnownStatuses, Statuses
  <2>7. InBudget(asked)
    BY <1>2, <2>5 DEF InBudget
  <2>8. Ends(asked, "suspended", es, ctxDone) /\ blocked' = k
    BY <1>16, <2>2, <2>4
  <2>9. QED BY <1>1, <1>2, <1>3, <1>7, <2>6, <2>7, <2>8, RanEnds
<1>17. QED
  <2>1. (r.gives = "interrupted") \in BOOLEAN
    OBVIOUS
  <2>2. CASE r.gives = "answer"
    BY <1>5, <1>8, <1>10, <1>13, <2>2
  <2>3. CASE r.gives = "suspend" /\ SuspendRequestOK(k, r.requirement)
    BY <1>5, <1>8, <1>16, <2>3
  <2>4. CASE r.gives = "suspend" /\ ~SuspendRequestOK(k, r.requirement)
    BY <1>5, <1>8, <1>10, <1>14, <2>4
  <2>5. CASE r.gives \in {"deadline", "interrupted"}
    BY <1>5, <1>15, <2>1, <2>5
  <2>6. QED BY <1>5, <2>2, <2>3, <2>4, <2>5

-----------------------------------------------------------------------------
(***************************************************************************)
(* The replay of an approved call.                                         *)
(***************************************************************************)

\* What is found under the id of the requirement is the call that was approved, and
\* nothing stands in the way of its replay.
LEMMA Redeemed ==
  ASSUME LoopInv, ToReplay
  PROVE  /\ ReplayCall = Last(approvals) /\ ReplayCall \in ToolCalls
         /\ Accepted(ReplayCall)
         /\ ~ReplayRefused
<1>1. PICK q : q = input.resolved
  OBVIOUS
<1>2. PICK k : k = Last(approvals)
  OBVIOUS
<1>3. /\ ValidRequirement(q) /\ q.kind = "approval"
      /\ input.resolution.req = q.id /\ input.override = Override(q)
      /\ approvals # <<>> /\ k.id = q.call
      /\ Accepted(k) /\ LatestCall(run.messages, k)
  BY <1>1, <1>2 DEF LoopInv, ReplayOK
<1>4. k \in ToolCalls
  <2>1. PICK s : s = approvals
    OBVIOUS
  <2>2. s \in Seq(ToolCalls) /\ s # <<>>
    BY <1>3, <2>1 DEF LoopInv, LoopTyped
  <2>3. Len(s) \in 1..Len(s)
    BY <2>2, LenProperties, EmptySeq
  <2>4. s[Len(s)] \in ToolCalls
    BY <2>2, <2>3, ElementOfSeq
  <2>5. QED BY <1>2, <2>1, <2>4 DEF Last
<1>5. Named(k)
  BY <1>1, <1>3 DEF Named, ToReplay, ReplayRequested, ValidRequirement
<1>6. run.messages \in Seq(MessageType)
  BY StateFields DEF LoopInv, LoopTyped
<1>7. Announcing(run.messages, k.id) # {} /\ FindCall(run.messages, k.id) = k
  BY <1>3, <1>5, <1>6, LatestIsFound
<1>8. ReplayCall = k
  BY <1>1, <1>3, <1>7 DEF ReplayCall
<1>9. ~ReplayRefused
  BY <1>1, <1>3, <1>7 DEF ReplayRefused
<1>10. QED BY <1>2, <1>3, <1>4, <1>8, <1>9

LEMMA ReplayKeeps == LoopInv /\ Replay => LoopInv'
<1> SUFFICES ASSUME LoopInv, Replay PROVE LoopInv'
  OBVIOUS
<1>0. PICK k : k = ReplayCall
  OBVIOUS
<1>1. pc # "between" /\ pc # "entering" /\ pc = "replaying" /\ Frame /\ blocked' = blocked
  BY DEF Replay, Frame
<1>2. /\ run \in StateType /\ run.status = "running" /\ ctxDone \in BOOLEAN
      /\ run.requirement = NoRequirement /\ InBudget(run)
  BY <1>1, Working
<1>3. ToReplay
  BY <1>1 DEF LoopInv, ReplayOK, ToReplay
<1>4. k = Last(approvals) /\ k \in ToolCalls /\ Accepted(k)
  BY <1>0, <1>3, Redeemed
<1>5. blocked \in ToolCalls \cup {NoCall}
  BY DEF LoopInv, LoopTyped
<1>6. PICK r \in ToolReturns(input.override, k, ctxDone) :
        /\ Ran(k, r)
        /\ \/ /\ r.gives = "answer"
              /\ LET x == ResultOf(k, r.result) IN
                 Continues(Observed(x, NoRequirement), <<>>, <<ToolEvent(run, x)>>)
           \/ r.gives = "suspend" /\ Ends(run, "failed", <<>>, ctxDone)
           \/ r.gives = "deadline" /\ Ends(run, "cancelled", <<>>, ctxDone)
           \/ r.gives = "interrupted" /\ Ends(run, "cancelled", <<>>, TRUE)
  BY <1>0 DEF Replay
<1>7. ReturnOK(input.override, k, r)
  BY <1>2, <1>4, ToolsOK
<1>8. MayRun(k, r) /\ Ran(k, r)
  BY <1>3, <1>4, <1>6, <1>7 DEF MayRun, ReturnOK
<1>9. ASSUME NEW status \in {"failed", "cancelled"}, NEW done \in BOOLEAN,
             Ends(run, status, <<>>, done)
      PROVE  LoopInv'
  <2>1. EndsSafely(run, status, blocked)
    BY <1>2, EndsUnsuspended
  <2>2. QED BY <1>1, <1>2, <1>5, <1>8, <1>9, <2>1, RanEnds
<1>10. ASSUME NEW x, x = ResultOf(k, r.result), NEW es,
              Continues(Observed(x, NoRequirement), <<>>, es)
       PROVE  LoopInv'
  <2>1. x.call = k.id
    BY <1>10, ResultCall
  <2>2. PICK st : st = Observed(x, NoRequirement)
    OBVIOUS
  <2>3. /\ st \in StateType /\ st.status = run.status /\ st.requirement = run.requirement
        /\ st.step = run.step
    BY <1>2, <1>4, <2>1, <2>2, NothingRequired, ObservedTyped
  <2>4. GoesOnSafely(st, <<>>)
    <3>1. <<>> \in Seq(ToolCalls) /\ DOMAIN <<>> = {}
      OBVIOUS
    <3>2. QED BY <1>2, <2>3, <3>1 DEF GoesOnSafely
  <2>5. InBudget(st)
    BY <1>2, <2>3 DEF InBudget
  <2>6. Continues(st, <<>>, es)
    BY <1>10, <2>2
  <2>7. QED BY <1>1, <1>8, <2>4, <2>5, <2>6, RanContinues
<1>11. QED BY <1>2, <1>6, <1>9, <1>10

LEMMA EnterKeeps == LoopInv /\ Enter => LoopInv'
<1> SUFFICES ASSUME LoopInv, Enter PROVE LoopInv'
  OBVIOUS
<1>1. /\ pc # "between" /\ pc = "entering" /\ UNCHANGED <<given, input, Aux>>
  BY DEF Enter
<1>2. /\ run \in StateType /\ ctxDone \in BOOLEAN
      /\ run.requirement = NoRequirement /\ InBudget(run)
  BY <1>1, Working
<1>3. PICK st : st = Transition(run, "running")
  OBVIOUS
<1>4. PICK answered : answered = IF input.resolution = NoResolution THEN st
                                                        ELSE Appended(st, UserMessage)
  OBVIOUS
<1>5. IF ReplayRequested /\ ReplayRefused
      THEN Ends(answered, "failed", <<>>, ctxDone)
      ELSE /\ run' = answered
           /\ pc' = IF ReplayRequested THEN "replaying" ELSE "thinking"
           /\ UNCHANGED <<calls, ctxDone, events, refused>>
  BY <1>3, <1>4 DEF Enter
<1>6. /\ st \in StateType /\ st.status = "running" /\ st.requirement = NoRequirement
      /\ st.messages = run.messages /\ st.step = run.step
  BY <1>2, <1>3, TransitionTyped DEF KnownStatuses, Statuses
<1>7. /\ answered \in StateType /\ answered.status = "running"
      /\ answered.requirement = NoRequirement /\ answered.step = run.step
      /\ \A c : LatestCall(run.messages, c) => LatestCall(answered.messages, c)
  <2>1. CASE input.resolution = NoResolution
    BY <1>4, <1>6, <2>1
  <2>2. CASE input.resolution # NoResolution
    <3>1. UserMessage \in MessageType /\ UserMessage.calls = <<>>
      BY MessagesTyped
    <3>2. PICK m : m = UserMessage
      OBVIOUS
    <3>3. /\ answered \in StateType /\ answered.status = st.status
          /\ answered.requirement = st.requirement /\ answered.step = st.step
          /\ answered.messages = Append(run.messages, m)
      BY <1>4, <1>6, <2>2, <3>1, <3>2, AppendedTyped
    <3>4. run.messages \in Seq(MessageType)
      BY <1>2, StateFields
    <3>5. \A c : LatestCall(run.messages, c) => LatestCall(Append(run.messages, m), c)
      BY <3>1, <3>2, <3>4, LatestStays
    <3>6. QED BY <1>6, <3>3, <3>5
  <2>3. QED BY <2>1, <2>2
<1>8. InBudget(answered)
  BY <1>2, <1>7 DEF InBudget
<1>9. CASE ReplayRequested /\ ReplayRefused
  <2>1. EndsSafely(answered, "failed", blocked)
    BY <1>7, EndsUnsuspended
  <2>2. QED BY <1>1, <1>2, <1>5, <1>8, <1>9, <2>1, QuietEnds
<1>10. CASE ~(ReplayRequested /\ ReplayRefused)
  <2>1. /\ run' = answered /\ pc' = IF ReplayRequested THEN "replaying" ELSE "thinking"
        /\ calls' = calls /\ ctxDone' = ctxDone /\ refused' = refused
        /\ given' = given /\ input' = input /\ round' = round
        /\ effects' = effects /\ approvals' = approvals /\ blocked' = blocked
    BY <1>1, <1>5, <1>10 DEF Aux
  <2>2. LoopTyped /\ StatusOK /\ BudgetOK /\ ReplayOK /\ ApprovalsOK /\ EffectsOK
    BY DEF LoopInv
  <2>3. calls = <<>>
    BY <1>1, <2>2 DEF LoopTyped
  <2>4. pc' \in {"replaying", "thinking"}
    BY <2>1
  <2>5. LoopTyped'
    BY <1>7, <2>1, <2>2, <2>3, <2>4 DEF LoopTyped
  <2>6. StatusOK'
    BY <1>7, <2>1, <2>2, <2>4 DEF StatusOK, SuspensionInvariant
  <2>7. BudgetOK'
    BY <1>8, <2>1 DEF BudgetOK, InBudget
  <2>8. CallsOK'
    <3>1. DOMAIN calls' = {}
      BY <2>1, <2>3
    <3>2. QED BY <3>1 DEF CallsOK
  <2>9. BlockedOK'
    BY <1>7, <2>1 DEF BlockedOK
  <2>10. ToReplay' => ToReplay
    BY <1>1, <2>1 DEF ToReplay, ReplayRequested
  <2>11. ReplayOK'
    <3>1. pc' = "replaying" => ReplayRequested'
      BY <2>1 DEF ReplayRequested
    <3>2. ASSUME ToReplay
          PROVE  LET q == input.resolved  k == Last(approvals) IN
                 /\ ValidRequirement(q) /\ q.kind = "approval"
                 /\ input.resolution.req = q.id /\ input.override = Override(q)
                 /\ approvals # <<>> /\ k.id = q.call
                 /\ Accepted(k)
                 /\ LatestCall(answered.messages, k)
      BY <1>7, <2>2, <3>2 DEF ReplayOK
    <3>3. QED BY <2>1, <2>10, <3>1, <3>2 DEF ReplayOK, Accepted
  <2>12. ApprovalsOK' /\ EffectsOK'
    BY <2>1, <2>2, <2>10, NothingRan
  <2>13. QED BY <2>5, <2>6, <2>7, <2>8, <2>9, <2>11, <2>12 DEF LoopInv
<1>11. QED BY <1>9, <1>10

-----------------------------------------------------------------------------
(***************************************************************************)
(* The runner.                                                             *)
(***************************************************************************)

InputShape(in) ==
  /\ in = [max |-> in.max, resolution |-> in.resolution, resolved |-> in.resolved,
           override |-> in.override]
  /\ in.max \in Int

\* What the runner hands over leaves what is not about approvals intact.
LEMMA HandOverKeeps ==
  ASSUME LoopInv, NEW st \in StateType, st.requirement = NoRequirement,
         st.status \in Resumable, NEW in, InputShape(in), HandOver(st, in),
         approvals' \in Seq(ToolCalls)
  PROVE  /\ LoopTyped' /\ StatusOK' /\ BudgetOK' /\ CallsOK' /\ BlockedOK' /\ EffectsOK'
         /\ run'.messages = st.messages
<1>1. /\ given' = [st EXCEPT !.version = run.version + 1] /\ run' = given' /\ input' = in
      /\ pc' = "entering" /\ calls' = <<>> /\ ctxDone' = FALSE /\ refused' = FALSE
      /\ round < MaxExecutions /\ round' = round + 1
      /\ effects' = effects /\ blocked' = blocked
  BY DEF HandOver
<1>2. LoopTyped /\ EffectsOK
  BY DEF LoopInv
<1>3. run.version + 1 \in Nat
  BY <1>2, StateFields DEF LoopTyped
<1>4. /\ given' \in StateType /\ given'.requirement = NoRequirement
      /\ given'.status \in Resumable /\ given'.messages = st.messages
  BY <1>1, <1>3 DEF StateType
<1>5. round' \in 0..MaxExecutions
  BY <1>1, <1>2, BoundsAssumption DEF LoopTyped
<1>6. LoopTyped'
  <2>1. calls' \in Seq(ToolCalls) /\ calls' = <<>>
    BY <1>1
  <2>2. /\ input' = [max |-> input'.max, resolution |-> input'.resolution,
                     resolved |-> input'.resolved, override |-> input'.override]
        /\ input'.max \in Int
    BY <1>1 DEF InputShape
  <2>3. effects' \in Seq(ToolCalls) /\ blocked' \in ToolCalls \cup {NoCall}
    BY <1>1, <1>2 DEF LoopTyped
  <2>4. run' \in StateType /\ given' \in StateType
    BY <1>1, <1>4
  <2>5. pc' = "entering" /\ ctxDone' = FALSE /\ refused' = FALSE
    BY <1>1
  <2>6. QED BY <1>5, <2>1, <2>2, <2>3, <2>4, <2>5 DEF LoopTyped
<1>7. StatusOK'
  BY <1>1, <1>4 DEF StatusOK, SuspensionInvariant, Resumable
<1>8. BudgetOK'
  BY <1>1 DEF BudgetOK
<1>9. CallsOK'
  <2>1. DOMAIN calls' = {}
    BY <1>1
  <2>2. QED BY <2>1 DEF CallsOK
<1>10. BlockedOK'
  BY <1>1, <1>4 DEF BlockedOK, Resumable
<1>11. EffectsOK'
  BY <1>1, <1>2 DEF EffectsOK, Accepted
<1>12. QED BY <1>1, <1>4, <1>6, <1>7, <1>8, <1>9, <1>10, <1>11

LEMMA CarryKeeps == LoopInv /\ Carry => LoopInv'
<1> SUFFICES ASSUME LoopInv, Carry PROVE LoopInv'
  OBVIOUS
<1>1. PICK max \in MaxSteps, said \in {<<>>, <<UserMessage>>} :
        HandOver([run EXCEPT !.messages = @ \o said], [NoInput EXCEPT !.max = max])
  BY DEF Carry
<1>2. PICK st : st = [run EXCEPT !.messages = @ \o said]
  OBVIOUS
<1>3. PICK in : in = [NoInput EXCEPT !.max = max]
  OBVIOUS
<1>4. LoopTyped /\ StatusOK /\ ApprovalsOK /\ EffectsOK
  BY DEF LoopInv
<1>5. run \in StateType /\ approvals \in Seq(ToolCalls)
  BY <1>4 DEF LoopTyped
<1>6. run.status \in Resumable /\ run.requirement = NoRequirement
  <2>1. run.status \in KnownStatuses /\ run.status \notin Terminal \cup {"suspended"}
    BY <1>5, StateFields DEF Carry
  <2>2. run.status \in Resumable
    BY <2>1 DEF KnownStatuses, Statuses, Terminal, Resumable
  <2>3. SuspensionInvariant(run)
    BY <1>4 DEF StatusOK
  <2>4. QED BY <2>1, <2>2, <2>3 DEF SuspensionInvariant
<1>7. st \in StateType /\ st.requirement = NoRequirement /\ st.status \in Resumable
  <2>1. run.messages \in Seq(MessageType)
    BY <1>5, StateFields
  <2>2. said \in Seq(MessageType)
    <3>1. PICK m : m = UserMessage
      OBVIOUS
    <3>2. m \in MessageType /\ said \in {<<>>, <<m>>}
      BY <3>1, MessagesTyped
    <3>3. <<>> \in Seq(MessageType)
      OBVIOUS
    <3>4. <<m>> \in Seq(MessageType)
      BY <3>2
    <3>5. QED BY <3>2, <3>3, <3>4
  <2>3. run.messages \o said \in Seq(MessageType)
    BY <2>1, <2>2, ConcatProperties
  <2> HIDE DEF MessageType
  <2>4. QED BY <1>2, <1>5, <1>6, <2>3 DEF StateType
<1>8. InputShape(in) /\ in.resolved = NoRequirement
  BY <1>3, BoundsAssumption DEF NoInput, InputShape
<1>9. approvals' = approvals /\ HandOver(st, in)
  BY <1>1, <1>2, <1>3 DEF Carry
<1>10. /\ LoopTyped' /\ StatusOK' /\ BudgetOK' /\ CallsOK' /\ BlockedOK'
  BY <1>5, <1>7, <1>8, <1>9, HandOverKeeps
<1>11. effects' = effects /\ input' = in /\ pc' = "entering"
  BY <1>9 DEF HandOver
<1>12. ~ReplayRequested'
  <2>0. NoRequirement.origin # "tool"
    BY DEF NoRequirement
  <2>1. in.resolved.origin # "tool"
    BY <1>8, <2>0
  <2>2. input' = in
    BY <1>11
  <2>3. input'.resolved.origin # "tool"
    BY <2>1, <2>2
  <2>4. QED BY <2>3 DEF ReplayRequested
<1>13. ReplayOK' /\ ~ToReplay'
  BY <1>11, <1>12 DEF ReplayOK, ToReplay
<1>14. ApprovalsOK' /\ EffectsOK'
  BY <1>4, <1>9, <1>11, <1>13, NothingRan
<1>15. QED BY <1>10, <1>13, <1>14 DEF LoopInv

LEMMA ResumeKeeps == LoopInv /\ Resume => LoopInv'
<1> SUFFICES ASSUME LoopInv, Resume PROVE LoopInv'
  OBVIOUS
<1>1. PICK q : q = run.requirement
  OBVIOUS
<1>2. PICK max \in MaxSteps, outcome \in OutcomesOf(q.kind) :
        LET approved == q.origin = "tool" /\ outcome = "approved"
        IN /\ HandOver([run EXCEPT !.status = "running", !.requirement = NoRequirement],
                       [max |-> max, resolved |-> q,
                        resolution |-> [req |-> q.id, kind |-> q.kind, outcome |-> outcome],
                        override |-> IF approved THEN Override(q) ELSE NoOverride])
           /\ approvals' = IF approved THEN Append(approvals, blocked) ELSE approvals
  BY <1>1 DEF Resume
<1>3. PICK st : st = [run EXCEPT !.status = "running", !.requirement = NoRequirement]
  OBVIOUS
<1>4. PICK approved \in BOOLEAN : approved <=> q.origin = "tool" /\ outcome = "approved"
  OBVIOUS
<1>5. PICK in : in = [max |-> max, resolved |-> q,
                      resolution |-> [req |-> q.id, kind |-> q.kind, outcome |-> outcome],
                      override |-> IF approved THEN Override(q) ELSE NoOverride]
  OBVIOUS
<1>6. /\ HandOver(st, in)
      /\ approvals' = IF approved THEN Append(approvals, blocked) ELSE approvals
  BY <1>2, <1>3, <1>4, <1>5
<1>7. LoopTyped /\ StatusOK /\ BlockedOK /\ ApprovalsOK /\ EffectsOK
  BY DEF LoopInv
<1>8. run \in StateType /\ approvals \in Seq(ToolCalls) /\ effects \in Seq(ToolCalls)
  BY <1>7 DEF LoopTyped
<1>9. ValidRequirement(q) /\ run.status = "suspended"
  BY <1>1, <1>7 DEF Resume, StatusOK, SuspensionInvariant
<1>10. /\ st \in StateType /\ st.requirement = NoRequirement /\ st.status \in Resumable
       /\ st.messages = run.messages
  BY <1>3, <1>8, NothingRequired DEF StateType, Resumable, KnownStatuses, Statuses
<1>11. InputShape(in)
  <2>1. max \in Int
    BY BoundsAssumption
  <2>2. QED BY <1>5, <2>1 DEF InputShape
<1>12. approved => blocked \in ToolCalls /\ blocked.id = q.call /\ Accepted(blocked)
                   /\ LatestCall(run.messages, blocked)
  BY <1>1, <1>4, <1>7, <1>9 DEF BlockedOK
<1>13. approvals' \in Seq(ToolCalls)
  BY <1>6, <1>8, <1>12, AppendProperties
<1>14. /\ LoopTyped' /\ StatusOK' /\ BudgetOK' /\ CallsOK' /\ BlockedOK' /\ EffectsOK'
       /\ run'.messages = run.messages
  BY <1>6, <1>10, <1>11, <1>13, HandOverKeeps
<1>15. effects' = effects /\ input' = in /\ pc' = "entering" /\ pc = "between"
  BY <1>6 DEF HandOver
<1>16. ReplayRequested' => approved /\ q.kind = "approval"
  BY <1>4, <1>5, <1>15 DEF ReplayRequested
<1>17. ~ToReplay
  BY <1>15 DEF ToReplay
<1>18. ReplayOK'
  <2>1. CASE ~ReplayRequested'
    BY <1>15, <2>1 DEF ReplayOK, ToReplay
  <2>2. CASE ReplayRequested'
    <3>1. approved /\ q.kind = "approval" /\ approvals' = Append(approvals, blocked)
      BY <1>6, <1>16, <2>2
    <3>2. /\ input'.resolved = q /\ input'.resolution.req = q.id
          /\ input'.override = Override(q)
      BY <1>5, <1>15, <3>1
    <3>3. Last(approvals') = blocked /\ approvals' # <<>>
      BY <1>8, <1>12, <3>1, LastAppend
    <3>4. pc' # "replaying"
      BY <1>15
    <3>5. PICK k : k = blocked
      OBVIOUS
    <3>6. /\ k.id = q.call /\ Accepted(k) /\ LatestCall(run'.messages, k)
      BY <1>12, <1>14, <3>1, <3>5
    <3>7. Last(approvals)' = k
      BY <3>3, <3>5 DEF Last
    <3>8. QED BY <1>9, <3>1, <3>2, <3>3, <3>4, <3>6, <3>7 DEF ReplayOK, Accepted
  <2>3. QED BY <2>1, <2>2
<1>19. ApprovalsOK'
  <2>1. ASSUME NEW k \in ToolCalls, DeniedCall(k)
        PROVE  Times(effects', k) + Unspent(k)' <= Times(approvals', k)
    <3>1. Times(effects, k) + Unspent(k) <= Times(approvals, k)
      BY <1>7, <2>1, ApprovalsRead
    <3>2. Times(effects, k) \in Nat /\ Times(approvals, k) \in Nat
      BY <1>8, TimesTyped
    <3>3. Unspent(k) = 0
      BY <1>17 DEF Unspent
    <3>4. CASE ~approved
      <4>1. Unspent(k)' = 0 /\ approvals' = approvals
        BY <1>6, <1>16, <3>4 DEF Unspent, ToReplay
      <4>2. QED BY <1>15, <3>1, <3>2, <3>3, <4>1
    <3>5. CASE approved
      <4>1. approvals' = Append(approvals, blocked) /\ blocked \in ToolCalls
        BY <1>6, <1>12, <3>5
      <4>2. Times(approvals', k) = Times(approvals, k) + (IF blocked = k THEN 1 ELSE 0)
        BY <1>8, <4>1, TimesAppend
      <4>3. Last(approvals') = blocked
        BY <1>8, <4>1, LastAppend
      <4>4. Unspent(k)' \in {0, 1} /\ (Unspent(k)' = 1 => blocked = k)
        BY <4>3 DEF Unspent, Last
      <4>5. QED BY <1>15, <3>1, <3>2, <3>3, <4>2, <4>4
    <3>6. QED BY <3>4, <3>5
  <2>2. QED BY <2>1, ApprovalsReadNext
<1>20. QED BY <1>14, <1>18, <1>19 DEF LoopInv

-----------------------------------------------------------------------------
(***************************************************************************)
(* The loop.                                                               *)
(***************************************************************************)

LEMMA InitInv == Init => LoopInv
<1> SUFFICES ASSUME Init PROVE LoopInv
  OBVIOUS
<1>1. run \in StateType /\ given = run
  <2>1. PICK m : m = UserMessage
    OBVIOUS
  <2>2. m \in MessageType
    BY <2>1, MessagesTyped
  <2>3. <<m>> \in Seq(MessageType)
    BY <2>2
  <2>4. "pending" \in KnownStatuses
    BY DEF KnownStatuses, Statuses
  <2>5. run = [id |-> "run", version |-> 0, step |-> 0, status |-> "pending",
               requirement |-> NoRequirement, messages |-> <<m>>]
    BY <2>1 DEF Init
  <2> HIDE DEF MessageType
  <2>6. run \in StateType
    BY <2>3, <2>4, <2>5, NothingRequired DEF StateType
  <2>7. QED BY <2>6 DEF Init
<1>2. /\ run.status = "pending" /\ run.requirement = NoRequirement
  BY DEF Init
<1>3. <<>> \in Seq(ToolCalls) /\ DOMAIN <<>> = {}
  OBVIOUS
<1>4. LoopTyped
  <2>1. InputShape(input)
    BY DEF Init, NoInput, InputShape
  <2>2. round \in 0..MaxExecutions
    BY BoundsAssumption DEF Init
  <2>3. QED BY <1>1, <1>3, <2>1, <2>2 DEF Init, LoopTyped, InputShape
<1>5. StatusOK
  BY <1>1, <1>2 DEF Init, StatusOK, SuspensionInvariant, Resumable
<1>6. BudgetOK
  BY <1>1 DEF BudgetOK
<1>7. CallsOK /\ EffectsOK
  BY <1>3 DEF Init, CallsOK, EffectsOK
<1>8. BlockedOK
  BY <1>2 DEF BlockedOK
<1>9. ~ToReplay /\ ReplayOK
  BY DEF Init, ToReplay, ReplayOK
<1>10. ApprovalsOK
  <2>1. ASSUME NEW k \in ToolCalls, DeniedCall(k)
        PROVE  Times(effects, k) + Unspent(k) <= Times(approvals, k)
    <3>1. effects = approvals /\ effects \in Seq(ToolCalls)
      BY <1>3 DEF Init
    <3>2. Times(effects, k) \in Nat
      BY <3>1, TimesTyped
    <3>3. Unspent(k) = 0
      BY <1>9 DEF Unspent
    <3>4. QED BY <3>1, <3>2, <3>3
  <2>2. QED BY <2>1, ApprovalsRead
<1>11. QED BY <1>4, <1>5, <1>6, <1>7, <1>8, <1>9, <1>10 DEF LoopInv

\* A step that leaves all but the context alone.
LEMMA ContextKeeps ==
  ASSUME LoopInv, ctxDone' \in BOOLEAN,
         UNCHANGED <<run, given, input, pc, calls, refused, round, effects, approvals, blocked>>
  PROVE  LoopInv'
<1>1. LoopTyped'
  BY DEF LoopInv, LoopTyped
<1>2. StatusOK' /\ BudgetOK'
  BY DEF LoopInv, StatusOK, BudgetOK
<1>3. CallsOK' /\ BlockedOK'
  BY DEF LoopInv, CallsOK, BlockedOK, Accepted
<1>4. ReplayOK' /\ (ToReplay' <=> ToReplay)
  BY DEF LoopInv, ReplayOK, ToReplay, ReplayRequested, Accepted
<1>5. ApprovalsOK' /\ EffectsOK'
  BY <1>4, NothingRan DEF LoopInv
<1>6. QED BY <1>1, <1>2, <1>3, <1>4, <1>5 DEF LoopInv

LEMMA EndContextKeeps == LoopInv /\ EndContext => LoopInv'
<1> SUFFICES ASSUME LoopInv, EndContext PROVE LoopInv'
  OBVIOUS
<1>1. UNCHANGED <<run, given, input, pc, calls, refused, round, effects, approvals, blocked>>
      /\ ctxDone' \in BOOLEAN
  BY DEF EndContext, Aux
<1>2. QED BY <1>1, ContextKeeps

LEMMA StutterKeeps == LoopInv /\ UNCHANGED vars => LoopInv'
<1> SUFFICES ASSUME LoopInv, UNCHANGED vars PROVE LoopInv'
  OBVIOUS
<1>1. UNCHANGED <<run, given, input, pc, calls, refused, round, effects, approvals, blocked>>
      /\ ctxDone' \in BOOLEAN
  BY DEF vars, Aux, LoopInv, LoopTyped
<1>2. QED BY <1>1, ContextKeeps

LEMMA LoopStepKeeps == LoopInv /\ LoopStep => LoopInv'
BY EnterKeeps, ReplayKeeps, ModelFailsKeeps, ModelRequiresKeeps, ModelAnswersKeeps,
   ModelCallsKeeps, RefuseCallKeeps, ExecuteCallKeeps, InterruptedKeeps, ExceedKeeps
DEF LoopStep

LEMMA NextInv == LoopInv /\ [Next]_vars => LoopInv'
<1>1. Quiet => UNCHANGED vars
  BY DEF Quiet
<1>2. QED BY <1>1, CarryKeeps, ResumeKeeps, LoopStepKeeps, EndContextKeeps, StutterKeeps
          DEF Next

\* The inductive invariant of the loop: every call still to execute, blocked or to be
\* replayed is the latest of its id, and an approval is redeemed once
\* (agentreact/react_loop.go:91 to 304, agent/runner.go:612).
THEOREM LoopInvariant == Spec => []LoopInv
<1>1. Init => LoopInv
  BY InitInv
<1>2. LoopInv /\ [Next]_vars => LoopInv'
  BY NextInv
<1>3. QED BY <1>1, <1>2, PTL DEF Spec

LEMMA InvApproved == LoopInv => DeniedCallsAreApproved
<1> SUFFICES ASSUME LoopInv, NEW k \in ToolCalls, DeniedCall(k)
             PROVE  Times(effects, k) <= Times(approvals, k)
  BY DEF DeniedCallsAreApproved, DeniedCall
<1>1. Times(effects, k) + Unspent(k) <= Times(approvals, k)
  BY ApprovalsRead DEF LoopInv
<1>2. Times(effects, k) \in Nat /\ Times(approvals, k) \in Nat
  BY TimesTyped DEF LoopInv, LoopTyped
<1>3. Unspent(k) \in {0, 1}
  BY DEF Unspent
<1>4. QED BY <1>1, <1>2, <1>3

\* A denied command is carried out no more often than it was approved, whatever the
\* model calls and under whatever ids (toolset/bash.go:28).
THEOREM DeniedCallsRunOnApproval == Spec => []DeniedCallsAreApproved
BY LoopInvariant, InvApproved, PTL

LEMMA InvRedeemed == LoopInv => ApprovalIsRedeemed
<1> SUFFICES ASSUME LoopInv PROVE ApprovalIsRedeemed
  OBVIOUS
<1>1. pc = "replaying" => ToReplay
  BY DEF LoopInv, ReplayOK, ToReplay
<1>2. pc = "entering" /\ ReplayRequested => ToReplay
  BY DEF ToReplay
<1>3. QED BY <1>1, <1>2, Redeemed DEF ApprovalIsRedeemed

\* An approval that the runner accepted is never refused, and the call that is replayed
\* is the one that was blocked (agentreact/react_loop.go:331, 395).
THEOREM ApprovalsAreRedeemed == Spec => []ApprovalIsRedeemed
BY LoopInvariant, InvRedeemed, PTL

LEMMA InvTypeOK == LoopInv => TypeOK
<1> SUFFICES ASSUME LoopInv PROVE TypeOK
  OBVIOUS
<1>1. run \in StateType /\ given \in StateType
  BY DEF LoopInv, LoopTyped
<1>2. ValidRunState(given)
  <2>1. given.step \in Nat /\ given.version \in Nat /\ given.status \in KnownStatuses
    BY <1>1, StateFields
  <2>2. given.step >= 0 /\ given.version >= 0
    BY <2>1
  <2>3. SuspensionInvariant(given)
    BY DEF LoopInv, StatusOK, SuspensionInvariant, Resumable
  <2>4. QED BY <2>1, <2>2, <2>3 DEF ValidRunState
<1>3. run.status \in KnownStatuses
  BY <1>1, StateFields
<1>4. \A i \in DOMAIN run.messages :
        LET m == run.messages[i] IN
        /\ m.role \in {"user", "assistant", "tool"}
        /\ m.calls \in CallLists \cup {<<>>}
        /\ m.call \in CallIDs
  <2>1. PICK ms : ms = run.messages
    OBVIOUS
  <2>2. ms \in Seq(MessageType)
    BY <1>1, <2>1, StateFields
  <2>3. \A i \in DOMAIN ms : ms[i] \in MessageType
    <3> HIDE DEF MessageType
    <3>1. QED BY <2>2, ElementOfSeq, LenProperties
  <2>4. \A i \in DOMAIN ms : /\ ms[i].role \in {"user", "assistant", "tool"}
                             /\ ms[i].calls \in CallLists \cup {<<>>}
                             /\ ms[i].call \in CallIDs
    BY <2>3 DEF MessageType
  <2>5. QED BY <2>1, <2>4
<1>5. /\ pc \in {"between", "entering", "replaying", "thinking", "acting"}
      /\ pc = "acting" <=> calls # <<>>
      /\ {ctxDone, refused} \subseteq BOOLEAN
      /\ round \in 0..MaxExecutions
      /\ blocked \in ToolCalls \cup {NoCall}
  BY DEF LoopInv, LoopTyped
<1>6. ASSUME NEW s \in Seq(ToolCalls) PROVE ToSet(s) \subseteq ToolCalls
  BY ElementOfSeq, LenProperties DEF ToSet
<1>7. ToSet(calls) \subseteq ToolCalls
  BY <1>6 DEF LoopInv, LoopTyped
<1>8. ToSet(effects) \subseteq ToolCalls
  BY <1>6 DEF LoopInv, LoopTyped
<1>9. ToSet(approvals) \subseteq ToolCalls
  BY <1>6 DEF LoopInv, LoopTyped
<1>10. run.step = given.step \/ run.step <= input.max
  BY DEF LoopInv, BudgetOK
<1>11. QED BY <1>2, <1>3, <1>4, <1>5, <1>7, <1>8, <1>9, <1>10 DEF TypeOK

\* Every variable keeps its type, and no execution goes beyond its step budget
\* (agentreact/react_loop.go:147).
THEOREM LoopTypeCorrect == Spec => []TypeOK
BY LoopInvariant, InvTypeOK, PTL

\* A schema that allows no other fields lists the ones it has.
ClosedIsDescribed == \A t \in DOMAIN Schemas : Schemas[t].closed => Schemas[t].described

LEMMA InvWellFormed ==
  ASSUME ClosedIsDescribed
  PROVE  LoopInv => EffectsAreWellFormed
<1> SUFFICES ASSUME LoopInv, NEW i \in DOMAIN effects, NEW k, k = effects[i]
             PROVE  /\ k.name \in DOMAIN Schemas
                    /\ Schemas[k.name].required \subseteq DOMAIN k.args
                    /\ \A f \in DOMAIN k.args :
                         \/ f \notin DOMAIN Schemas[k.name].types /\ ~Schemas[k.name].closed
                         \/ KindOf[k.args[f]] \in KindsOfType(Schemas[k.name].types[f])
  BY DEF EffectsAreWellFormed
<1>1. k.name \in DOMAIN Schemas /\ ArgumentsOK(Schemas[k.name], k.args)
  BY DEF LoopInv, EffectsOK, Accepted
<1>2. PICK schema : schema = Schemas[k.name]
  OBVIOUS
<1>3. schema.closed => schema.described
  BY <1>1, <1>2 DEF ClosedIsDescribed
<1>4. schema.required \subseteq DOMAIN k.args
  BY <1>1, <1>2 DEF ArgumentsOK
<1>5. ASSUME NEW f \in DOMAIN k.args
      PROVE  \/ f \notin DOMAIN schema.types /\ ~schema.closed
             \/ KindOf[k.args[f]] \in KindsOfType(schema.types[f])
  <2>1. IF f \in DOMAIN schema.types
        THEN schema.types[f] # Unreadable /\ KindOf[k.args[f]] \in KindsOfType(schema.types[f])
        ELSE ~(schema.described /\ schema.closed)
    BY <1>1, <1>2 DEF ArgumentsOK
  <2>2. QED BY <1>3, <2>1
<1>6. QED BY <1>1, <1>2, <1>4, <1>5

\* Whatever is carried out, a replay too, had arguments that its tool's schema accepts
\* (agentreact/react_loop.go:218, agentreact/tool_validation.go:26).
THEOREM WhatRunsIsWellFormed ==
  ASSUME ClosedIsDescribed
  PROVE  Spec => []EffectsAreWellFormed
BY LoopInvariant, InvWellFormed, PTL

-----------------------------------------------------------------------------
(***************************************************************************)
(* What is carried out is recorded.                                        *)
(***************************************************************************)

\* The ids of the calls in s.
IDSeq(s) == [i \in DOMAIN s |-> s[i].id]

LEMMA IDSeqTyped ==
  ASSUME NEW s \in Seq(ToolCalls)
  PROVE  IDSeq(s) \in Seq(CallIDs)
<1>1. Len(s) \in Nat /\ DOMAIN s = 1..Len(s)
  BY LenProperties
<1>2. \A i \in 1..Len(s) : s[i].id \in CallIDs
  BY ElementOfSeq, CallIDTyped
<1>3. [i \in 1..Len(s) |-> s[i].id] \in Seq(CallIDs)
  BY <1>1, <1>2
<1>4. QED BY <1>1, <1>3 DEF IDSeq

LEMMA IDSeqAppend ==
  ASSUME NEW s \in Seq(ToolCalls), NEW k \in ToolCalls
  PROVE  IDSeq(Append(s, k)) = Append(IDSeq(s), k.id)
<1> DEFINE t == Append(s, k)
           n == Len(s)
<1>1. n \in Nat /\ DOMAIN s = 1..n /\ IDSeq(s) \in Seq(CallIDs) /\ k.id \in CallIDs
  BY LenProperties, IDSeqTyped, CallIDTyped
<1>2. t \in Seq(ToolCalls) /\ Len(t) = n + 1 /\ \A i \in 1..n : t[i] = s[i]
  BY AppendProperties
<1>3. t[n + 1] = k
  BY AppendProperties
<1>4. DOMAIN t = 1..(n + 1) /\ IDSeq(t) \in Seq(CallIDs)
  BY <1>2, LenProperties, IDSeqTyped
<1>5. Len(IDSeq(s)) = n /\ \A i \in 1..n : IDSeq(s)[i] = s[i].id
  BY <1>1, LenProperties DEF IDSeq
<1>6. Len(IDSeq(t)) = n + 1 /\ \A i \in 1..(n + 1) : IDSeq(t)[i] = t[i].id
  <2> HIDE DEF t
  <2>1. QED BY <1>1, <1>4, LenProperties DEF IDSeq
<1>7. PICK a : a = IDSeq(s)
  OBVIOUS
<1>8. PICK x : x = k.id
  OBVIOUS
<1>9. a \in Seq(CallIDs) /\ x \in CallIDs /\ Len(a) = n /\ \A i \in 1..n : a[i] = s[i].id
  BY <1>1, <1>5, <1>7, <1>8
<1>10. /\ Append(a, x) \in Seq(CallIDs) /\ Len(Append(a, x)) = n + 1
       /\ \A i \in 1..n : Append(a, x)[i] = a[i]
  BY <1>9, AppendProperties
<1>11. Append(a, x)[n + 1] = x
  BY <1>9, AppendProperties
<1>12. PICK b : b = Append(a, x)
  OBVIOUS
<1>13. PICK c : c = IDSeq(t)
  OBVIOUS
<1>14. ASSUME NEW i \in 1..(n + 1) PROVE b[i] = c[i]
  <2>0. i \in 1..n \/ i = n + 1
    BY <1>1
  <2>1. CASE i \in 1..n
    BY <1>2, <1>6, <1>9, <1>10, <1>12, <1>13, <2>1
  <2>2. CASE i = n + 1
    BY <1>3, <1>6, <1>8, <1>11, <1>12, <1>13, <2>2
  <2>3. QED BY <2>0, <2>1, <2>2
<1>15. b = c
  <2>1. b \in Seq(CallIDs) /\ c \in Seq(CallIDs) /\ Len(b) = n + 1 /\ Len(c) = n + 1
    BY <1>4, <1>6, <1>10, <1>12, <1>13
  <2>2. QED BY <1>14, <2>1, SeqEqual
<1>16. QED BY <1>7, <1>8, <1>12, <1>13, <1>15

\* How often a call with the id was carried out, and how often that was recorded.
Done(id)     == Times(IDSeq(effects), id)
Recorded(id) == Times(run.messages, Observation(id, NoRequirement))

RecordedOK(id) == Done(id) <= Recorded(id) + (IF run.status = "cancelled" THEN 1 ELSE 0)

LEMMA RecordedRead ==
  /\ EffectsAreRecorded  <=> \A id \in CallIDs : RecordedOK(id)
  /\ EffectsAreRecorded' <=> \A id \in CallIDs : RecordedOK(id)'
BY DEF EffectsAreRecorded, RecordedOK, Done, Recorded, IDSeq

\* A step that records what it does: nothing ran, or the call that ran has its
\* observation, or the run is cancelled under it.
Records ==
  \/ /\ effects' = effects
     /\ \/ run'.messages = run.messages
        \/ \E m \in MessageType : run'.messages = Append(run.messages, m)
  \/ \E k \in ToolCalls :
       /\ effects' = Append(effects, k)
       /\ run'.messages = Append(run.messages, Observation(k.id, NoRequirement))
  \/ \E k \in ToolCalls :
       effects' = Append(effects, k) /\ run'.messages = run.messages /\ run'.status = "cancelled"

LEMMA RecordsKeeps ==
  ASSUME LoopInv, EffectsAreRecorded, run.status # "cancelled", Records
  PROVE  EffectsAreRecorded'
<1>1. /\ run.messages \in Seq(MessageType) /\ effects \in Seq(ToolCalls)
      /\ IDSeq(effects) \in Seq(CallIDs)
  BY StateFields, IDSeqTyped DEF LoopInv, LoopTyped
<1>2. SUFFICES ASSUME NEW id \in CallIDs PROVE RecordedOK(id)'
  BY RecordedRead
<1>3. Done(id) <= Recorded(id)
  <2>1. RecordedOK(id)
    BY RecordedRead
  <2>2. Recorded(id) \in Nat
    BY <1>1, TimesTyped DEF Recorded
  <2>3. (IF run.status = "cancelled" THEN 1 ELSE 0) = 0
    OBVIOUS
  <2>4. Done(id) <= Recorded(id) + 0
    BY <2>1, <2>3 DEF RecordedOK
  <2>5. QED BY <2>2, <2>4
<1>4. Done(id) \in Nat /\ Recorded(id) \in Nat
  BY <1>1, TimesTyped DEF Done, Recorded
<1>5. PICK cut \in {0, 1} : cut = IF run'.status = "cancelled" THEN 1 ELSE 0
  OBVIOUS
<1>6. RecordedOK(id)' <=> Done(id)' <= Recorded(id)' + cut
  BY <1>5 DEF RecordedOK
<1>7. ASSUME NEW m \in MessageType, run'.messages = Append(run.messages, m)
      PROVE  Recorded(id)' = Recorded(id) + (IF m = Observation(id, NoRequirement) THEN 1 ELSE 0)
  <2>1. PICK o : o = Observation(id, NoRequirement)
    OBVIOUS
  <2>2. Recorded(id) = Times(run.messages, o) /\ Recorded(id)' = Times(run'.messages, o)
    BY <2>1 DEF Recorded, Observation, Message, NoRequirement
  <2>3. Times(Append(run.messages, m), o) = Times(run.messages, o) + (IF m = o THEN 1 ELSE 0)
    BY <1>1, TimesAppend
  <2>4. QED BY <1>7, <2>1, <2>2, <2>3
<1>8. ASSUME NEW k \in ToolCalls, effects' = Append(effects, k)
      PROVE  Done(id)' = Done(id) + (IF k.id = id THEN 1 ELSE 0)
  <2>1. IDSeq(effects)' = Append(IDSeq(effects), k.id) /\ k.id \in CallIDs
    BY <1>1, <1>8, IDSeqAppend, CallIDTyped DEF IDSeq
  <2>2. QED BY <1>1, <2>1, TimesAppend DEF Done
<1>9. effects' = effects => Done(id)' = Done(id)
  BY DEF Done, IDSeq
<1>10. run'.messages = run.messages => Recorded(id)' = Recorded(id)
  BY DEF Recorded, Observation, Message, NoRequirement
<1>11. CASE effects' = effects /\ run'.messages = run.messages
  <2>1. Done(id)' = Done(id) /\ Recorded(id)' = Recorded(id)
    BY <1>9, <1>10, <1>11
  <2>2. QED BY <1>3, <1>4, <1>6, <2>1
<1>12. ASSUME effects' = effects, NEW m \in MessageType,
              run'.messages = Append(run.messages, m)
       PROVE  RecordedOK(id)'
  <2>1. Done(id)' = Done(id)
    BY <1>9, <1>12
  <2>2. Recorded(id)' = Recorded(id) + (IF m = Observation(id, NoRequirement) THEN 1 ELSE 0)
    BY <1>7, <1>12
  <2>3. Recorded(id)' \in {Recorded(id), Recorded(id) + 1}
    BY <1>4, <2>2
  <2>4. QED BY <1>3, <1>4, <1>6, <2>1, <2>3
<1>13. ASSUME NEW k \in ToolCalls, effects' = Append(effects, k),
              run'.messages = Append(run.messages, Observation(k.id, NoRequirement))
       PROVE  RecordedOK(id)'
  <2>1. PICK m : m = Observation(k.id, NoRequirement)
    OBVIOUS
  <2>2. m \in MessageType
    BY <2>1, CallIDTyped, NothingRequired, MessagesTyped
  <2>3. k.id = id => m = Observation(id, NoRequirement)
    BY <2>1
  <2>4. Recorded(id)' = Recorded(id) + (IF m = Observation(id, NoRequirement) THEN 1 ELSE 0)
    BY <1>7, <1>13, <2>1, <2>2
  <2>5. Done(id)' = Done(id) + (IF k.id = id THEN 1 ELSE 0)
    BY <1>8, <1>13
  <2>6. QED BY <1>3, <1>4, <1>6, <2>3, <2>4, <2>5
<1>14. ASSUME NEW k \in ToolCalls, effects' = Append(effects, k),
              run'.messages = run.messages, run'.status = "cancelled"
       PROVE  RecordedOK(id)'
  <2>1. Recorded(id)' = Recorded(id)
    BY <1>10, <1>14
  <2>2. Done(id)' = Done(id) + (IF k.id = id THEN 1 ELSE 0)
    BY <1>8, <1>14
  <2>3. Done(id)' \in {Done(id), Done(id) + 1}
    BY <1>4, <2>2
  <2>4. cut = 1
    BY <1>5, <1>14
  <2>5. QED BY <1>3, <1>4, <1>6, <2>1, <2>3, <2>4
<1>15. QED BY <1>11, <1>12, <1>13, <1>14 DEF Records

\* The messages of what the loop returns or goes on with.
LEMMA StepMessages ==
  ASSUME NEW st \in StateType
  PROVE  /\ \A status \in KnownStatuses : \A es, done :
              Ends(st, status, es, done) => run'.messages = st.messages /\ run'.status = status
         /\ \A cs, es : Continues(st, cs, es) => run'.messages = st.messages
<1>1. ASSUME NEW status \in KnownStatuses, NEW es, NEW done, Ends(st, status, es, done)
      PROVE  run'.messages = st.messages /\ run'.status = status
  <2>1. run' = Transition(st, status)
    BY <1>1 DEF Ends
  <2>2. QED BY <2>1, TransitionTyped
<1>2. ASSUME NEW cs, NEW es, Continues(st, cs, es)
      PROVE  run'.messages = st.messages
  BY <1>2 DEF Continues
<1>3. QED BY <1>1, <1>2

LEMMA FinalStatuses ==
  {"failed", "cancelled", "completed", "suspended", "max_steps_exceeded"} \subseteq KnownStatuses
BY DEF KnownStatuses, Statuses

LEMMA EnterRecords == LoopInv /\ Enter => Records
<1> SUFFICES ASSUME LoopInv, Enter PROVE Records
  OBVIOUS
<1>1. pc # "between" /\ effects' = effects
  BY DEF Enter, Aux
<1>2. run \in StateType
  BY <1>1, Working
<1>3. PICK st : st = Transition(run, "running")
  OBVIOUS
<1>4. PICK answered : answered = IF input.resolution = NoResolution THEN st
                                                        ELSE Appended(st, UserMessage)
  OBVIOUS
<1>5. Ends(answered, "failed", <<>>, ctxDone) \/ run' = answered
  BY <1>3, <1>4 DEF Enter
<1>6. st \in StateType /\ st.messages = run.messages
  BY <1>2, <1>3, TransitionTyped DEF KnownStatuses, Statuses
<1>7. PICK m \in MessageType : m = UserMessage
  BY MessagesTyped
<1>8. /\ answered \in StateType
      /\ answered.messages = run.messages \/ answered.messages = Append(run.messages, m)
  BY <1>4, <1>6, <1>7, AppendedTyped
<1>9. run'.messages = answered.messages
  BY <1>5, <1>8, FinalStatuses, StepMessages
<1>10. QED BY <1>1, <1>7, <1>8, <1>9 DEF Records

LEMMA ModelRecords ==
  LoopInv /\ (ModelFails \/ ModelRequires \/ ModelAnswers \/ ModelCalls) => Records
<1> SUFFICES ASSUME LoopInv, ModelFails \/ ModelRequires \/ ModelAnswers \/ ModelCalls
             PROVE  Records
  OBVIOUS
<1>1. pc # "between" /\ Thinks /\ effects' = effects
  BY DEF ModelFails, ModelRequires, ModelAnswers, ModelCalls, Thinks, Aux
<1>2. run \in StateType
  BY <1>1, Working
<1>3. CASE ModelFails
  <2>1. PICK st : st = [run EXCEPT !.step = @ + 1]
    OBVIOUS
  <2>2. st \in StateType /\ st.messages = run.messages
    <3>1. run.step + 1 \in Nat
      BY <1>2, StateFields
    <3>2. QED BY <1>2, <2>1, <3>1 DEF StateType
  <2>3. \/ Ends(st, "failed", <<>>, ctxDone) \/ Ends(st, "cancelled", <<>>, ctxDone)
        \/ Ends(st, "cancelled", <<>>, TRUE)
    BY <1>3, <2>1 DEF ModelFails
  <2>4. run'.messages = run.messages
    BY <2>2, <2>3, FinalStatuses, StepMessages
  <2>5. QED BY <1>1, <2>4 DEF Records
<1>4. ASSUME NEW q \in RequirementSet, NEW cs \in CallLists \cup {<<>>}, NEW st,
             \/ st = Thought(q, cs)
             \/ st = [Thought(q, cs) EXCEPT !.requirement = q],
             \/ \E status \in {"failed", "suspended", "completed"} :
                  Ends(st, status, Said, ctxDone)
             \/ Continues(st, cs, Said)
      PROVE  Records
  <2>1. PICK said : said = Thought(q, cs)
    OBVIOUS
  <2>2. PICK m \in MessageType : m = Assistant(q, cs)
    BY MessagesTyped
  <2>3. said \in StateType /\ said.messages = Append(run.messages, m)
    BY <1>1, <2>1, <2>2, ThoughtTyped
  <2>4. st \in StateType /\ st.messages = said.messages
    <3>1. CASE st = said
      BY <2>3, <3>1
    <3>2. CASE st = [said EXCEPT !.requirement = q]
      BY <2>3, <3>2 DEF StateType
    <3>3. QED BY <1>4, <2>1, <3>1, <3>2
  <2>5. run'.messages = st.messages
    BY <1>4, <2>4, FinalStatuses, StepMessages
  <2>6. QED BY <1>1, <2>3, <2>4, <2>5 DEF Records
<1>5. CASE ModelRequires
  <2>1. PICK q \in ModelRequirements, cs \in CallLists \cup {<<>>} :
          \/ Ends([Thought(q, cs) EXCEPT !.requirement = q], "suspended", Said, ctxDone)
          \/ Ends(Thought(q, cs), "failed", Said, ctxDone)
    BY <1>5 DEF ModelRequires
  <2>2. q \in RequirementSet
    BY DEF RequirementSet
  <2>3. QED BY <1>4, <2>1, <2>2
<1>6. CASE ModelAnswers
  <2>1. Ends(Thought(NoRequirement, <<>>), "completed", Said, ctxDone)
    BY <1>6 DEF ModelAnswers
  <2>2. QED BY <1>4, <2>1, NothingRequired
<1>7. CASE ModelCalls
  <2>1. PICK cs \in CallLists :
          \/ Continues(Thought(NoRequirement, cs), cs, Said)
          \/ Ends(Thought(NoRequirement, cs), "failed", Said, ctxDone)
    BY <1>7 DEF ModelCalls
  <2>2. QED BY <1>4, <2>1, NothingRequired
<1>8. QED BY <1>3, <1>5, <1>6, <1>7

\* A call that ran and was answered, and one the run was cancelled under.
LEMMA AnsweredRecords ==
  ASSUME run \in StateType, NEW k \in ToolCalls, NEW r, r.ran \in BOOLEAN, Ran(k, r),
         NEW x, x.call = k.id, NEW cs, NEW es,
         Continues(Observed(x, NoRequirement), cs, es)
  PROVE  Records
<1>1. PICK st : st = Observed(x, NoRequirement)
  OBVIOUS
<1>2. st \in StateType /\ st.messages = Append(run.messages, Observation(k.id, NoRequirement))
  BY <1>1, NothingRequired, ObservedTyped
<1>3. run'.messages = Append(run.messages, Observation(k.id, NoRequirement))
  BY <1>1, <1>2, StepMessages
<1>4. Observation(k.id, NoRequirement) \in MessageType
  BY CallIDTyped, NothingRequired, MessagesTyped
<1>5. effects' = effects \/ effects' = Append(effects, k)
  BY DEF Ran
<1>6. QED BY <1>3, <1>4, <1>5 DEF Records

LEMMA CutRecords ==
  ASSUME run \in StateType, NEW k \in ToolCalls, NEW r, r.ran \in BOOLEAN, Ran(k, r),
         NEW es, NEW done, Ends(run, "cancelled", es, done)
  PROVE  Records
<1>1. run'.messages = run.messages /\ run'.status = "cancelled"
  BY FinalStatuses, StepMessages
<1>2. effects' = effects \/ effects' = Append(effects, k)
  BY DEF Ran
<1>3. QED BY <1>1, <1>2 DEF Records

LEMMA ReplayRecords == LoopInv /\ Replay => Records
<1> SUFFICES ASSUME LoopInv, Replay PROVE Records
  OBVIOUS
<1>0. PICK k : k = ReplayCall
  OBVIOUS
<1>1. pc # "between" /\ pc = "replaying"
  BY DEF Replay
<1>2. run \in StateType /\ ctxDone \in BOOLEAN
  BY <1>1, Working
<1>3. ToReplay
  BY <1>1 DEF LoopInv, ReplayOK, ToReplay
<1>4. k \in ToolCalls
  BY <1>0, <1>3, Redeemed
<1>5. PICK r \in ToolReturns(input.override, k, ctxDone) :
        /\ Ran(k, r)
        /\ \/ /\ r.gives = "answer"
              /\ LET x == ResultOf(k, r.result) IN
                 Continues(Observed(x, NoRequirement), <<>>, <<ToolEvent(run, x)>>)
           \/ r.gives = "suspend" /\ Ends(run, "failed", <<>>, ctxDone)
           \/ r.gives = "deadline" /\ Ends(run, "cancelled", <<>>, ctxDone)
           \/ r.gives = "interrupted" /\ Ends(run, "cancelled", <<>>, TRUE)
  BY <1>0 DEF Replay
<1>6. r.ran \in BOOLEAN /\ (r.gives = "suspend" => ~r.ran)
  BY <1>2, <1>4, ToolsOK DEF ReturnOK
<1>7. PICK x : x = ResultOf(k, r.result)
  OBVIOUS
<1>8. x.call = k.id
  BY <1>7, ResultCall
<1>9. CASE Continues(Observed(x, NoRequirement), <<>>, <<ToolEvent(run, x)>>)
  BY <1>2, <1>4, <1>5, <1>6, <1>8, <1>9, AnsweredRecords
<1>10. CASE r.gives = "suspend" /\ Ends(run, "failed", <<>>, ctxDone)
  <2>1. effects' = effects
    BY <1>5, <1>6, <1>10 DEF Ran
  <2>2. run'.messages = run.messages
    BY <1>2, <1>10, FinalStatuses, StepMessages
  <2>3. QED BY <2>1, <2>2 DEF Records
<1>11. CASE \E done : Ends(run, "cancelled", <<>>, done)
  BY <1>2, <1>4, <1>5, <1>6, <1>11, CutRecords
<1>12. QED BY <1>5, <1>7, <1>9, <1>10, <1>11

LEMMA CallRecords == LoopInv /\ (RefuseCall \/ ExecuteCall) => Records
<1> SUFFICES ASSUME LoopInv, RefuseCall \/ ExecuteCall PROVE Records
  OBVIOUS
<1>0. PICK k : k = Head(calls)
  OBVIOUS
<1>1. pc # "between" /\ pc = "acting"
  BY DEF RefuseCall, ExecuteCall
<1>2. run \in StateType
  BY <1>1, Working
<1>3. k \in ToolCalls
  BY <1>0, <1>1, ActingFacts
<1>4. CASE RefuseCall
  <2>1. PICK x : x = Result(k.id, k.name)
    OBVIOUS
  <2>2. x.call = k.id
    BY <2>1 DEF Result
  <2>3. Continues(Observed(x, NoRequirement), Tail(calls), <<ToolEvent(run, x)>>)
        /\ effects' = effects
    BY <1>0, <1>4, <2>1 DEF RefuseCall, Aux
  <2>4. PICK r : r = [ran |-> FALSE]
    OBVIOUS
  <2>5. r.ran \in BOOLEAN /\ Ran(k, r)
    BY <2>3, <2>4 DEF Ran
  <2>6. QED BY <1>2, <1>3, <2>2, <2>3, <2>5, AnsweredRecords
<1>5. CASE ExecuteCall
  <2>1. PICK r \in ToolReturns(LoopOverride, k, FALSE) :
          LET q  == Bound(k, r.requirement)
              x  == ResultOf(k, r.result)
              es == <<ToolEvent(run, x)>>
          IN
          /\ Ran(k, r)
          /\ \/ /\ r.gives = "answer"
                /\ Continues(Observed(x, NoRequirement), Tail(calls), es)
             \/ /\ r.gives = "suspend"
                /\ Ends([Observed(x, q) EXCEPT !.requirement = q], "suspended", es, ctxDone)
             \/ /\ r.gives = "suspend"
                /\ Ends(Observed(x, NoRequirement), "failed", es, ctxDone)
             \/ /\ r.gives \in {"deadline", "interrupted"}
                /\ Ends(run, "cancelled", <<>>, r.gives = "interrupted")
    BY <1>0, <1>5 DEF ExecuteCall
  <2>2. ReturnOK(LoopOverride, k, r)
    BY <1>3, ToolsOK
  <2>3. r.ran \in BOOLEAN /\ (r.gives = "suspend" => ~r.ran)
    BY <2>2 DEF ReturnOK
  <2>4. PICK x : x = ResultOf(k, r.result)
    OBVIOUS
  <2>5. x.call = k.id
    BY <2>4, ResultCall
  <2>6. PICK es : es = <<ToolEvent(run, x)>>
    OBVIOUS
  <2>7. CASE Continues(Observed(x, NoRequirement), Tail(calls), es)
    BY <1>2, <1>3, <2>1, <2>3, <2>5, <2>7, AnsweredRecords
  <2>8. CASE Ends(run, "cancelled", <<>>, r.gives = "interrupted")
    BY <1>2, <1>3, <2>1, <2>3, <2>8, CutRecords
  <2>9. ASSUME r.gives = "suspend", NEW q \in RequirementSet, NEW st,
               \/ st = Observed(x, q)
               \/ st = [Observed(x, q) EXCEPT !.requirement = q],
               NEW status \in {"suspended", "failed"}, Ends(st, status, es, ctxDone)
        PROVE  Records
    <3>1. effects' = effects
      BY <2>1, <2>3, <2>9 DEF Ran
    <3>2. PICK m \in MessageType : m = Observation(k.id, q)
      BY <1>3, CallIDTyped, MessagesTyped
    <3>3. PICK seen : seen = Observed(x, q)
      OBVIOUS
    <3>4. seen \in StateType /\ seen.messages = Append(run.messages, m)
      BY <1>2, <1>3, <2>5, <3>2, <3>3, ObservedTyped
    <3>5. st \in StateType /\ st.messages = seen.messages
      <4>1. CASE st = seen
        BY <3>4, <4>1
      <4>2. CASE st = [seen EXCEPT !.requirement = q]
        BY <3>4, <4>2 DEF StateType
      <4>3. QED BY <2>9, <3>3, <4>1, <4>2
    <3>6. run'.messages = st.messages
      BY <2>9, <3>5, FinalStatuses, StepMessages
    <3>7. QED BY <3>1, <3>2, <3>4, <3>5, <3>6 DEF Records
  <2>10. CASE r.gives = "suspend" /\ Ends(Observed(x, NoRequirement), "failed", es, ctxDone)
    BY <2>9, <2>10, NothingRequired
  <2>11. CASE /\ r.gives = "suspend"
              /\ Ends([Observed(x, Bound(k, r.requirement))
                         EXCEPT !.requirement = Bound(k, r.requirement)],
                      "suspended", es, ctxDone)
    <3>1. Bound(k, r.requirement) \in RequirementSet
      BY <2>2, <2>11 DEF ReturnOK
    <3>2. QED BY <2>9, <2>11, <3>1
  <2>12. QED BY <2>1, <2>4, <2>6, <2>7, <2>8, <2>10, <2>11
<1>6. QED BY <1>4, <1>5

LEMMA StopRecords == LoopInv /\ (Interrupted \/ Exceed) => Records
<1> SUFFICES ASSUME LoopInv, Interrupted \/ Exceed PROVE Records
  OBVIOUS
<1>1. pc # "between" /\ effects' = effects
  BY DEF Interrupted, Exceed, Aux
<1>2. run \in StateType
  BY <1>1, Working
<1>3. \/ Ends(run, "cancelled", <<>>, TRUE)
      \/ Ends(run, "max_steps_exceeded", <<>>, ctxDone)
  BY DEF Interrupted, Exceed
<1>4. run'.messages = run.messages
  BY <1>2, <1>3, FinalStatuses, StepMessages
<1>5. QED BY <1>1, <1>4 DEF Records

LEMMA RunnerRecords == LoopInv /\ (Carry \/ Resume) => Records
<1> SUFFICES ASSUME LoopInv, Carry \/ Resume PROVE Records
  OBVIOUS
<1>1. run \in StateType
  BY DEF LoopInv, LoopTyped
<1>2. run.messages \in Seq(MessageType) /\ run.version + 1 \in Nat
  BY <1>1, StateFields
<1>3. CASE Carry
  <2>1. PICK max \in MaxSteps, said \in {<<>>, <<UserMessage>>} :
          HandOver([run EXCEPT !.messages = @ \o said], [NoInput EXCEPT !.max = max])
    BY <1>3 DEF Carry
  <2>2. PICK m \in MessageType : m = UserMessage
    BY MessagesTyped
  <2>3. PICK ms : ms = run.messages \o said
    OBVIOUS
  <2>4. ms = run.messages \/ ms = Append(run.messages, m)
    BY <1>2, <2>2, <2>3, ConcatEmptySeq, AppendIsConcat
  <2>5. run' = [[run EXCEPT !.messages = ms] EXCEPT !.version = run.version + 1]
        /\ effects' = effects
    BY <2>1, <2>3 DEF HandOver
  <2>6. run'.messages = ms
    BY <1>1, <2>5 DEF StateType
  <2>7. QED BY <2>4, <2>5, <2>6 DEF Records
<1>4. CASE Resume
  <2>1. PICK in :
          HandOver([run EXCEPT !.status = "running", !.requirement = NoRequirement], in)
    BY <1>4 DEF Resume
  <2>2. PICK st : st = [run EXCEPT !.status = "running", !.requirement = NoRequirement]
    OBVIOUS
  <2>3. st \in StateType /\ st.messages = run.messages
    BY <1>1, <2>2, NothingRequired DEF StateType, KnownStatuses, Statuses
  <2>4. run' = [st EXCEPT !.version = run.version + 1] /\ effects' = effects
    BY <2>1, <2>2 DEF HandOver
  <2>5. run'.messages = run.messages
    BY <2>3, <2>4 DEF StateType
  <2>6. QED BY <2>4, <2>5 DEF Records
<1>5. QED BY <1>3, <1>4

\* No step starts from a run that was cancelled.
LEMMA NotCancelled ==
  ASSUME LoopInv, LoopStep \/ Carry \/ Resume
  PROVE  run.status # "cancelled"
<1>1. CASE LoopStep
  <2>1. pc # "between"
    BY <1>1 DEF LoopStep, Enter, Replay, ModelFails, ModelRequires, ModelAnswers, ModelCalls,
                Thinks, RefuseCall, ExecuteCall, Interrupted, Exceed
  <2>2. run.status = "running" \/ run.status \in Resumable
    BY <2>1 DEF LoopInv, StatusOK, LoopTyped
  <2>3. QED BY <2>2 DEF Resumable
<1>2. CASE Carry
  BY <1>2 DEF Carry, Terminal
<1>3. CASE Resume
  BY <1>3 DEF Resume
<1>4. QED BY <1>1, <1>2, <1>3

LEMMA InitRecorded == Init => EffectsAreRecorded
<1> SUFFICES ASSUME Init, NEW id \in CallIDs PROVE RecordedOK(id)
  BY RecordedRead
<1>1. effects = <<>> /\ run.messages = <<UserMessage>> /\ run.status = "pending"
  BY DEF Init
<1>2. Done(id) = 0
  <2>1. {i \in DOMAIN IDSeq(effects) : IDSeq(effects)[i] = id} = {}
    BY <1>1 DEF IDSeq
  <2>2. Cardinality({}) = 0
    BY FS_EmptySet
  <2>3. QED BY <2>1, <2>2 DEF Done, Times
<1>3. Recorded(id) \in Nat
  <2>1. PICK m \in MessageType : m = UserMessage
    BY MessagesTyped
  <2>2. <<m>> \in Seq(MessageType)
    OBVIOUS
  <2>3. QED BY <1>1, <2>1, <2>2, TimesTyped DEF Recorded
<1>4. PICK cut \in {0, 1} : cut = IF run.status = "cancelled" THEN 1 ELSE 0
  OBVIOUS
<1>5. 0 <= Recorded(id) + cut
  BY <1>3
<1>6. QED BY <1>2, <1>4, <1>5 DEF RecordedOK

\* What a tool carried out has its observation in the transcript, but for the last call
\* of a run that was cancelled under it (agentreact/react_loop.go:264 to 278).
THEOREM EffectsReachTranscript == Spec => []EffectsAreRecorded
<1>1. Init => EffectsAreRecorded
  BY InitRecorded
<1>2. LoopInv /\ EffectsAreRecorded /\ [Next]_vars => EffectsAreRecorded'
  <2> SUFFICES ASSUME LoopInv, EffectsAreRecorded, [Next]_vars PROVE EffectsAreRecorded'
    OBVIOUS
  <2>1. CASE LoopStep \/ Carry \/ Resume
    <3>1. Records
      BY <2>1, EnterRecords, ReplayRecords, ModelRecords, CallRecords, StopRecords,
         RunnerRecords DEF LoopStep
    <3>2. run.status # "cancelled"
      BY <2>1, NotCancelled
    <3>3. QED BY <3>1, <3>2, RecordsKeeps
  <2>2. CASE EndContext \/ Quiet \/ UNCHANGED vars
    <3>1. run' = run /\ effects' = effects
      BY <2>2 DEF EndContext, Quiet, vars, Aux
    <3>2. QED BY <3>1 DEF EffectsAreRecorded, Times, CallIDs, Observation, Message, NoRequirement
  <2>3. QED BY <2>1, <2>2 DEF Next
<1>3. QED BY <1>1, <1>2, LoopInvariant, PTL DEF Spec

-----------------------------------------------------------------------------
(***************************************************************************)
(* Under the retry wrapper.                                                *)
(***************************************************************************)

\* An attempt knows of no resolution, so it replays nothing.
RetryInv == LoopInv /\ attempt \in Nat /\ (attempt > 0 => ~ReplayRequested)

LEMMA BeginKeeps == RetryInv /\ Begin => RetryInv'
<1> SUFFICES ASSUME RetryInv, Begin PROVE RetryInv'
  OBVIOUS
<1>1. /\ input' = AttemptInput /\ attempt' = 1
      /\ UNCHANGED <<run, given, pc, calls, ctxDone, refused, round, effects, approvals, blocked>>
      /\ pc = "entering"
  BY DEF Begin, Aux
<1>2. LoopTyped /\ StatusOK /\ BudgetOK /\ CallsOK /\ BlockedOK /\ ApprovalsOK /\ EffectsOK
  BY DEF RetryInv, LoopInv
<1>3. /\ input' = [max |-> input.max, resolution |-> NoResolution,
                   resolved |-> NoRequirement, override |-> input.override]
  BY <1>1, <1>2 DEF AttemptInput, LoopTyped
<1>4. ~ReplayRequested'
  <2>1. NoRequirement.origin # "tool"
    BY DEF NoRequirement
  <2>2. input'.resolved = NoRequirement
    BY <1>3
  <2>3. QED BY <2>1, <2>2 DEF ReplayRequested
<1>5. LoopTyped'
  BY <1>1, <1>2, <1>3 DEF LoopTyped
<1>6. StatusOK'
  BY <1>1, <1>2 DEF StatusOK
<1>7. BudgetOK'
  BY <1>1, <1>2, <1>3 DEF BudgetOK
<1>8. CallsOK' /\ BlockedOK'
  BY <1>1, <1>2 DEF CallsOK, BlockedOK, Accepted
<1>9. ReplayOK' /\ ~ToReplay'
  BY <1>1, <1>4 DEF ReplayOK, ToReplay
<1>10. ApprovalsOK' /\ EffectsOK'
  BY <1>1, <1>2, <1>9, NothingRan
<1>11. QED BY <1>1, <1>4, <1>5, <1>6, <1>7, <1>8, <1>9, <1>10 DEF RetryInv, LoopInv

LEMMA CallTooLateKeeps == RetryInv /\ CallTooLate => RetryInv'
<1> SUFFICES ASSUME RetryInv, CallTooLate PROVE RetryInv'
  OBVIOUS
<1>1. /\ pc = "entering" /\ pc' = "between" /\ attempt' = attempt /\ attempt = 0
      /\ UNCHANGED <<run, given, input, calls, ctxDone, refused, round, effects, approvals, blocked>>
  BY DEF CallTooLate, Aux
<1>2. LoopTyped /\ StatusOK /\ BudgetOK /\ CallsOK /\ BlockedOK /\ ApprovalsOK /\ EffectsOK
  BY DEF RetryInv, LoopInv
<1>3. calls = <<>>
  BY <1>1, <1>2 DEF LoopTyped
<1>4. LoopTyped'
  BY <1>1, <1>2, <1>3 DEF LoopTyped
<1>5. StatusOK'
  BY <1>1, <1>2 DEF StatusOK
<1>6. BudgetOK'
  BY <1>1, <1>2 DEF BudgetOK
<1>7. CallsOK' /\ BlockedOK'
  BY <1>1, <1>2 DEF CallsOK, BlockedOK, Accepted
<1>8. ReplayOK' /\ ~ToReplay'
  BY <1>1 DEF ReplayOK, ToReplay
<1>9. ApprovalsOK' /\ EffectsOK'
  BY <1>1, <1>2, <1>8, NothingRan
<1>10. attempt' \in Nat /\ ~(attempt' > 0)
  BY <1>1
<1>11. QED BY <1>4, <1>5, <1>6, <1>7, <1>8, <1>9, <1>10 DEF RetryInv, LoopInv

LEMMA AgainKeeps == RetryInv /\ Again => RetryInv'
<1> SUFFICES ASSUME RetryInv, Again PROVE RetryInv'
  OBVIOUS
<1>1. /\ pc = "between" /\ attempt > 0 /\ attempt' = attempt + 1 /\ run' = given
      /\ pc' = "entering" /\ refused' = FALSE
      /\ UNCHANGED <<given, input, calls, ctxDone, round, effects, approvals, blocked>>
  BY DEF Again, Over, Aux
<1>2. LoopTyped /\ StatusOK /\ ApprovalsOK /\ EffectsOK /\ attempt \in Nat /\ ~ReplayRequested
  BY <1>1 DEF RetryInv, LoopInv
<1>3. calls = <<>>
  BY <1>1, <1>2 DEF LoopTyped
<1>4. LoopTyped'
  BY <1>1, <1>2, <1>3 DEF LoopTyped
<1>5. StatusOK'
  BY <1>1, <1>2 DEF StatusOK, SuspensionInvariant, Resumable
<1>6. BudgetOK'
  BY <1>1 DEF BudgetOK
<1>7. CallsOK'
  <2>1. DOMAIN calls' = {}
    BY <1>1, <1>3
  <2>2. QED BY <2>1 DEF CallsOK
<1>8. BlockedOK'
  BY <1>1, <1>2 DEF BlockedOK, StatusOK, Resumable
<1>9. ~ReplayRequested'
  BY <1>1, <1>2 DEF ReplayRequested
<1>10. ReplayOK' /\ ~ToReplay'
  BY <1>1, <1>9 DEF ReplayOK, ToReplay
<1>11. ApprovalsOK' /\ EffectsOK'
  BY <1>1, <1>2, <1>10, NothingRan
<1>12. attempt' \in Nat
  BY <1>1, <1>2
<1>13. QED BY <1>4, <1>5, <1>6, <1>7, <1>8, <1>9, <1>10, <1>11, <1>12 DEF RetryInv, LoopInv

LEMMA RetryInitInv == RetryInit => RetryInv
<1> SUFFICES ASSUME RetryInit PROVE RetryInv
  OBVIOUS
<1>1. LoopInv
  BY InitInv DEF RetryInit
<1>2. attempt \in Nat /\ ~(attempt > 0)
  BY DEF RetryInit
<1>3. QED BY <1>1, <1>2 DEF RetryInv

LEMMA RetryNextInv == RetryInv /\ [RetryNext]_retryVars => RetryInv'
<1> SUFFICES ASSUME RetryInv, [RetryNext]_retryVars PROVE RetryInv'
  OBVIOUS
<1>0. LoopInv /\ attempt \in Nat
  BY DEF RetryInv
<1>1. CASE attempt = 0 /\ (Carry \/ Resume \/ Quiet) /\ UNCHANGED attempt
  <2>1. LoopInv'
    BY <1>0, <1>1, CarryKeeps, ResumeKeeps, StutterKeeps DEF Quiet
  <2>2. attempt' = 0
    BY <1>1
  <2>3. attempt' \in Nat /\ ~(attempt' > 0)
    BY <2>2
  <2>4. QED BY <2>1, <2>3 DEF RetryInv
<1>2. CASE attempt > 0 /\ LoopStep /\ UNCHANGED attempt
  <2>1. LoopInv'
    BY <1>0, <1>2, LoopStepKeeps
  <2>2. input' = input
    BY <1>2 DEF LoopStep, Enter, Replay, ModelFails, ModelRequires, ModelAnswers, ModelCalls,
                RefuseCall, ExecuteCall, Interrupted, Exceed
  <2>3. attempt' = attempt /\ (ReplayRequested' <=> ReplayRequested)
    BY <1>2, <2>2 DEF ReplayRequested
  <2>4. QED BY <2>1, <2>3 DEF RetryInv
<1>3. CASE (EndContext /\ UNCHANGED attempt) \/ EndContextBetween \/ Hand \/ UNCHANGED retryVars
  <2>1. UNCHANGED <<run, given, input, pc, calls, refused, round, effects, approvals, blocked>>
        /\ ctxDone' \in BOOLEAN
    BY <1>0, <1>3 DEF EndContext, EndContextBetween, Hand, retryVars, vars, Aux,
                      LoopInv, LoopTyped
  <2>2. LoopInv'
    BY <1>0, <2>1, ContextKeeps
  <2>3. ReplayRequested' <=> ReplayRequested
    BY <2>1 DEF ReplayRequested
  <2>4. attempt' = attempt \/ attempt' = 0
    BY <1>3 DEF EndContext, EndContextBetween, Hand, retryVars
  <2>5. attempt' \in Nat /\ (attempt' > 0 => attempt > 0)
    BY <1>0, <2>4
  <2>6. QED BY <2>2, <2>3, <2>5 DEF RetryInv
<1>4. QED BY <1>1, <1>2, <1>3, BeginKeeps, CallTooLateKeeps, AgainKeeps
          DEF RetryNext, WrapperStep

\* The same under the retry wrapper, however many attempts it makes: an approval is not
\* spent twice by an attempt that is repeated (policy/retry/retry.go:48).
THEOREM RetriedCallsRunOnApproval == RetrySpec => []DeniedCallsAreApproved
<1>1. RetryInit => RetryInv
  BY RetryInitInv
<1>2. RetryInv /\ [RetryNext]_retryVars => RetryInv'
  BY RetryNextInv
<1>3. RetryInv => DeniedCallsAreApproved
  BY InvApproved DEF RetryInv
<1>4. QED BY <1>1, <1>2, <1>3, PTL DEF RetrySpec
=============================================================================
