---------------------------- MODULE EngineProofs ----------------------------
(***************************************************************************)
(* Facts about EngineContract for every requirement, command and           *)
(* transcript: what an engine outcome keeps of the state it was given, and *)
(* that the React loop honours the contract the runner checks; and what    *)
(* the edits of CommandRules keep.                                         *)
(***************************************************************************)
EXTENDS CommandRules, SequenceTheorems, TLAPS

-----------------------------------------------------------------------------
(***************************************************************************)
(* Prefixes.                                                               *)
(***************************************************************************)

\* A prefix, read element by element.
LEMMA PrefixElements ==
  ASSUME NEW S, NEW s \in Seq(S), NEW t \in Seq(S)
  PROVE  IsPrefix(s, t) <=> /\ Len(s) <= Len(t)
                            /\ \A i \in 1..Len(s) : s[i] = t[i]
<1> DEFINE n == Len(s)
<1>0. n \in Nat /\ Len(t) \in Nat
  BY LenProperties
<1>1. CASE n <= Len(t)
  <2>1. /\ SubSeq(s, 1, n) \in Seq(S)
        /\ Len(SubSeq(s, 1, n)) = n
        /\ \A i \in 1..n : SubSeq(s, 1, n)[i] = s[i]
    <3>1. \A i \in 1..n : s[i] \in S
      BY ElementOfSeq
    <3> HIDE DEF n
    <3>2. QED BY <1>0, <3>1, SubSeqProperties
  <2>2. /\ SubSeq(t, 1, n) \in Seq(S)
        /\ Len(SubSeq(t, 1, n)) = n
        /\ \A i \in 1..n : SubSeq(t, 1, n)[i] = t[i]
    <3>1. \A i \in 1..n : t[i] \in S
      BY <1>0, <1>1, ElementOfSeq
    <3> HIDE DEF n
    <3>2. QED BY <1>0, <3>1, SubSeqProperties
  <2>3. SubSeq(s, 1, n) = SubSeq(t, 1, n) <=> \A i \in 1..n : s[i] = t[i]
    <3> HIDE DEF n
    <3>1. QED BY <1>0, <2>1, <2>2, SeqEqual
  <2>4. QED BY <1>1, <2>3 DEF IsPrefix
<1>2. CASE ~(n <= Len(t))
  BY <1>2 DEF IsPrefix
<1>3. QED BY <1>1, <1>2

\* A transcript extends itself.
LEMMA PrefixReflexive ==
  ASSUME NEW S, NEW s \in Seq(S)
  PROVE  IsPrefix(s, s)
BY PrefixElements, LenProperties

\* What extends an extension of a transcript extends the transcript.
LEMMA PrefixTransitive ==
  ASSUME NEW S, NEW s \in Seq(S), NEW t \in Seq(S), NEW u \in Seq(S),
         IsPrefix(s, t), IsPrefix(t, u)
  PROVE  IsPrefix(s, u)
BY PrefixElements, LenProperties

\* Messages added at the end extend a transcript.
LEMMA PrefixConcat ==
  ASSUME NEW S, NEW s \in Seq(S), NEW t \in Seq(S)
  PROVE  /\ s \o t \in Seq(S)
         /\ IsPrefix(s, s \o t)
<1>1. /\ s \o t \in Seq(S)
      /\ Len(s \o t) = Len(s) + Len(t)
      /\ \A i \in 1..Len(s) : (s \o t)[i] = s[i]
  BY LenProperties, ConcatProperties
<1>2. Len(s) <= Len(s \o t)
  BY <1>1, LenProperties
<1>3. QED BY <1>1, <1>2, PrefixElements

\* One message added at the end extends a transcript.
LEMMA PrefixAppend ==
  ASSUME NEW S, NEW s \in Seq(S), NEW m \in S
  PROVE  /\ Append(s, m) \in Seq(S)
         /\ IsPrefix(s, Append(s, m))
<1>1. Append(s, m) \in Seq(S)
  BY AppendProperties
<1>2. \A i \in 1..Len(s) : Append(s, m)[i] = s[i]
  BY AppendProperties
<1>3. Len(s) <= Len(Append(s, m))
  BY AppendProperties, LenProperties
<1>4. QED BY <1>1, <1>2, <1>3, PrefixElements

-----------------------------------------------------------------------------
(***************************************************************************)
(* What an outcome keeps.                                                  *)
(***************************************************************************)

\* Messages are messages.
LEMMA MessagesTyped ==
  ASSUME NEW c \in Cmds, NEW k \in Calls, NEW q \in RequirementType
  PROVE  /\ UserMessage(c) \in MessageType
         /\ Answer(c) \in MessageType
         /\ AssistantRequires(c, q) \in MessageType
         /\ AssistantCalls(c, k) \in MessageType
         /\ Observation(c, k) \in MessageType
<1>1. NoRequirement \in RequirementType
  BY DEF RequirementType
<1>2. "" \in Calls
  <2>1. NoRequirement.call = ""
    BY DEF NoRequirement
  <2>2. NoRequirement.call \in Calls
    BY <1>1 DEF Calls
  <2>3. QED BY <2>1, <2>2
<1>3. QED
  BY <1>1, <1>2 DEF UserMessage, Answer, AssistantRequires, AssistantCalls, Observation,
                    Message, MessageType

\* What an engine may return: the input state but for its own fields, typed but for
\* the step, which it may set back; and some lifecycle events.
EngineStateType == [id : Runs, version : Nat, step : Int, status : Statuses,
                    requirement : RequirementType, messages : Seq(MessageType)]

OutcomeOf(prev) ==
  [state : {st \in EngineStateType : st.version = prev.version},
   failed : BOOLEAN, events : Seq(EngineEvents), replayed : BOOLEAN]

\* A state an execution advances is typed, keeps its id and version, and extends the
\* transcript it was given.
LEMMA AdvanceExtends ==
  ASSUME NEW prev \in StateType, NEW by \in Nat, NEW status \in Statuses,
         NEW q \in RequirementType, NEW m \in Seq(MessageType)
  PROVE  LET next == Advance(prev, by, status, q, m) IN
         /\ next \in StateType
         /\ next.id = prev.id /\ next.version = prev.version
         /\ next.step = prev.step + by
         /\ next.status = status /\ next.requirement = q
         /\ next.messages = prev.messages \o m
         /\ IsPrefix(prev.messages, next.messages)
<1>1. prev.messages \in Seq(MessageType)
  BY DEF StateType
<1>2. /\ prev.messages \o m \in Seq(MessageType)
      /\ IsPrefix(prev.messages, prev.messages \o m)
  BY <1>1, PrefixConcat
<1>3. prev.step + by \in Nat
  BY DEF StateType
<1>4. Advance(prev, by, status, q, m) \in StateType
  BY <1>2, <1>3 DEF Advance, StateType
<1>5. LET next == Advance(prev, by, status, q, m) IN
      /\ next.id = prev.id /\ next.version = prev.version
      /\ next.step = prev.step + by
      /\ next.status = status /\ next.requirement = q
      /\ next.messages = prev.messages \o m
  BY DEF Advance, StateType
<1>6. QED BY <1>2, <1>4, <1>5

\* An execution that ends without a suspension (failRun, cancelRun and the loop's
\* ends) returns a typed outcome.
LEMMA EndsTyped ==
  ASSUME NEW prev \in StateType, NEW by \in Nat,
         NEW status \in {"completed", "failed", "cancelled", "max_steps_exceeded"},
         NEW m \in Seq(MessageType), NEW event \in EngineEvents,
         NEW replayed \in BOOLEAN, NEW done \in BOOLEAN
  PROVE  LET out == Ends(prev, by, status, m, event, replayed, done) IN
         out \in OutcomeOf(prev) /\ ValidEngineOutput(prev, out.state)
<1> DEFINE next == Advance(prev, by, status, NoRequirement, m)
           events == IF done THEN <<>> ELSE <<event>>
<1>1. NoRequirement \in RequirementType /\ status \in Statuses
  BY DEF RequirementType, Statuses
<1>2. next \in StateType /\ next.id = prev.id /\ next.version = prev.version
  BY <1>1, AdvanceExtends
<1>3. next.step = prev.step + by /\ next.status # "suspended"
      /\ IsPrefix(prev.messages, next.messages)
  BY <1>1, AdvanceExtends
<1>4. events \in Seq(EngineEvents)
  OBVIOUS
<1>5. next \in EngineStateType
  BY <1>2 DEF StateType, EngineStateType
<1>6. ValidEngineOutput(prev, next)
  <2>1. prev.step \in Nat
    BY DEF StateType
  <2> HIDE DEF next
  <2>2. next.step >= prev.step
    BY <1>3, <2>1
  <2>3. QED BY <1>2, <1>3, <2>2 DEF ValidEngineOutput, Provenance
<1> HIDE DEF next, events
<1>7. Outcome(next, status # "completed", events, replayed) \in OutcomeOf(prev)
  BY <1>2, <1>4, <1>5 DEF Outcome, OutcomeOf
<1>8. Outcome(next, status # "completed", events, replayed).state = next
  BY DEF Outcome
<1>9. QED BY <1>6, <1>7, <1>8 DEF Ends, next, events

\* What an engine adds to the transcript is what follows the transcript it was given.
LEMMA AdditionsAre ==
  ASSUME NEW prev, NEW next, NEW m \in Seq(MessageType), prev.messages \in Seq(MessageType),
         next.messages = prev.messages \o m
  PROVE  Additions(prev, next) = m
<1> DEFINE s == prev.messages
           t == SubSeq(s \o m, Len(s) + 1, Len(s) + Len(m))
<1>1. /\ s \o m \in Seq(MessageType)
      /\ Len(s \o m) = Len(s) + Len(m)
      /\ \A i \in 1..Len(m) : (s \o m)[Len(s) + i] = m[i]
  <2> s \in Seq(MessageType)
    OBVIOUS
  <2> HIDE DEF s
  <2>1. /\ s \o m \in Seq(MessageType)
        /\ Len(s \o m) = Len(s) + Len(m)
        /\ \A i \in 1..Len(s) + Len(m) :
             (s \o m)[i] = IF i <= Len(s) THEN s[i] ELSE m[i - Len(s)]
    BY ConcatProperties
  <2>2. Len(s) \in Nat /\ Len(m) \in Nat
    BY LenProperties
  <2>3. ASSUME NEW i \in 1..Len(m)
        PROVE  (s \o m)[Len(s) + i] = m[i]
    <3>1. /\ Len(s) + i \in 1..Len(s) + Len(m)
          /\ ~(Len(s) + i <= Len(s))
          /\ Len(s) + i - Len(s) = i
      BY <2>2
    <3>2. QED BY <2>1, <3>1
  <2>4. QED BY <2>1, <2>3
<1>2. Len(s) \in Nat /\ Len(m) \in Nat
  BY LenProperties
<1>3. \A i \in (Len(s) + 1)..(Len(s) + Len(m)) : (s \o m)[i] \in MessageType
  <2> SUFFICES ASSUME NEW i \in (Len(s) + 1)..(Len(s) + Len(m))
               PROVE  (s \o m)[i] \in MessageType
    OBVIOUS
  <2>1. i \in 1..Len(s \o m)
    BY <1>1, <1>2
  <2>2. QED BY <1>1, <2>1, ElementOfSeq
<1>4. /\ t \in Seq(MessageType)
      /\ Len(t) = Len(m)
      /\ \A i \in 1..Len(m) : t[i] = m[i]
  <2> HIDE DEF s
  <2>1. /\ t \in Seq(MessageType)
        /\ Len(t) = Len(m)
        /\ \A i \in 1..Len(m) : t[i] = (s \o m)[Len(s) + 1 + i - 1]
    BY <1>2, <1>3, SubSeqProperties
  <2>2. QED BY <1>1, <1>2, <2>1
<1>5. t = m
  BY <1>4, SeqEqual
<1>6. QED BY <1>1, <1>5 DEF Additions

\* The messages that raise a requirement are what the runner looks for.
LEMMA RaisingIsProvenance ==
  ASSUME NEW c \in Cmds, NEW q \in Requirements, NEW m \in Seq(MessageType)
  PROVE  LET t == m \o Raising(c, q) IN
         /\ t \in Seq(MessageType)
         /\ q.origin = "model" => AssistantRequired(t, q)
         /\ q.origin = "tool" => Observed(t, q.call) /\ Announced(t, q.call)
<1> DEFINE n == Len(m)
           t == m \o Raising(c, q)
<1>1. /\ q \in RequirementType
      /\ q.call \in Calls
      /\ q # NoRequirement
      /\ q.origin = "tool" => q.call # ""
  <2>1. ValidRequirement(q) /\ q \in RequirementType
    BY RequirementsAssumption DEF RequirementType
  <2>2. q.id # "" /\ (q.origin = "tool" => q.call # "")
    BY <2>1 DEF ValidRequirement
  <2>3. NoRequirement.id = ""
    BY DEF NoRequirement
  <2>4. q.call \in Calls
    BY <2>1 DEF Calls
  <2>5. QED BY <2>1, <2>2, <2>3, <2>4
<1>2. n \in Nat
  BY LenProperties
<1>3. CASE q.origin = "model"
  <2> DEFINE a == AssistantRequires(c, q)
  <2>1. a \in MessageType
    BY <1>1, MessagesTyped
  <2>2. t = m \o <<a>>
    BY <1>3 DEF Raising
  <2>3. a.role = "assistant" /\ a.requirement = q
    BY DEF AssistantRequires, Message
  <2> HIDE DEF a
  <2>4. t \in Seq(MessageType) /\ Len(t) = n + 1 /\ t[n + 1] = a
    BY <2>1, <2>2, <1>2, ConcatProperties
  <2>5. n + 1 \in DOMAIN t
    BY <2>4, <1>2, LenProperties
  <2>6. AssistantRequired(t, q)
    BY <2>3, <2>4, <2>5, <1>1 DEF AssistantRequired, SameRequirement
  <2>7. QED BY <2>4, <2>6, <1>3
<1>4. CASE q.origin # "model"
  <2> DEFINE a == AssistantCalls(c, q.call)
             o == Observation(c, q.call)
  <2>1. a \in MessageType /\ o \in MessageType
    BY <1>1, MessagesTyped
  <2>2. t = m \o <<a, o>>
    BY <1>4 DEF Raising
  <2> HIDE DEF a, o
  <2>3. t \in Seq(MessageType) /\ Len(t) = n + 2 /\ t[n + 1] = a /\ t[n + 2] = o
    <3>1. <<a, o>> \in Seq(MessageType) /\ Len(<<a, o>>) = 2
      BY <2>1
    <3>2. /\ t \in Seq(MessageType)
          /\ Len(t) = n + 2
          /\ \A i \in 1..n + 2 : t[i] = IF i <= n THEN m[i] ELSE <<a, o>>[i - n]
      BY <2>2, <3>1, <1>2, ConcatProperties
    <3>3. t[n + 1] = <<a, o>>[1] /\ t[n + 2] = <<a, o>>[2]
      <4>1. n + 1 \in 1..n + 2 /\ n + 2 \in 1..n + 2 /\ ~(n + 1 <= n) /\ ~(n + 2 <= n)
            /\ (n + 1) - n = 1 /\ (n + 2) - n = 2
        BY <1>2
      <4> HIDE DEF t, n
      <4>2. QED BY <3>2, <4>1
    <3>4. QED BY <3>2, <3>3
  <2>4. n + 1 \in DOMAIN t /\ n + 2 \in DOMAIN t
    BY <2>3, <1>2, LenProperties
  <2>5. /\ a.role = "assistant" /\ a.call = q.call
        /\ o.role = "tool" /\ o.call = q.call
    BY DEF a, o, AssistantCalls, Observation, Message
  <2>6. q.origin = "tool" => Observed(t, q.call) /\ Announced(t, q.call)
    BY <2>3, <2>4, <2>5, <1>1 DEF Observed, Announced
  <2>7. QED BY <2>3, <2>6, <1>4
<1>5. QED BY <1>3, <1>4

\* So does one that ends with a suspension, by the model or by a tool.
LEMMA SuspendsTyped ==
  ASSUME NEW c \in Cmds, NEW prev \in StateType, NEW q \in Requirements,
         NEW m \in Seq(MessageType), NEW replayed \in BOOLEAN
  PROVE  LET out == Suspends(c, prev, q, m, replayed) IN
         out \in OutcomeOf(prev) /\ ValidEngineOutput(prev, out.state)
<1> DEFINE added == m \o Raising(c, q)
           next == Advance(prev, 1, "suspended", q, added)
<1>1. /\ added \in Seq(MessageType)
      /\ q.origin = "model" => AssistantRequired(added, q)
      /\ q.origin = "tool" => Observed(added, q.call) /\ Announced(added, q.call)
  BY RaisingIsProvenance
<1>2. q \in RequirementType /\ "suspended" \in Statuses /\ prev.messages \in Seq(MessageType)
  BY DEF RequirementType, Statuses, StateType
<1>0. 1 \in Nat
  OBVIOUS
<1> HIDE DEF added
<1>3. /\ next \in StateType /\ next.id = prev.id /\ next.version = prev.version
      /\ next.step = prev.step + 1 /\ next.requirement = q
      /\ next.messages = prev.messages \o added
      /\ IsPrefix(prev.messages, next.messages)
  <2>1. next \in StateType /\ next.id = prev.id /\ next.version = prev.version
    BY <1>1, <1>2, <1>0, AdvanceExtends
  <2>2. next.step = prev.step + 1 /\ next.requirement = q
    BY <1>1, <1>2, <1>0, AdvanceExtends
  <2>3. next.messages = prev.messages \o added
    BY <1>1, <1>2, <1>0, AdvanceExtends
  <2>4. IsPrefix(prev.messages, next.messages)
    BY <1>1, <1>2, <1>0, AdvanceExtends
  <2>5. QED BY <2>1, <2>2, <2>3, <2>4
<1> HIDE DEF next
<1>4. Additions(prev, next) = added
  BY <1>1, <1>2, <1>3, AdditionsAre
<1>5. q.origin = "model" \/ q.origin = "tool"
  BY RequirementsAssumption DEF ValidRequirement, RequirementOrigins
<1>6. q.origin = "tool" => Announced(next.messages, q.call)
  <2> SUFFICES ASSUME Announced(added, q.call)
               PROVE  Announced(next.messages, q.call)
    BY <1>1
  <2>1. PICK i \in DOMAIN added : /\ added[i].role = "assistant" /\ added[i].call = q.call
                                  /\ q.call # ""
    BY DEF Announced
  <2> DEFINE n == Len(prev.messages)
  <2>2. /\ n \in Nat /\ Len(added) \in Nat /\ i \in 1..Len(added)
        /\ Len(next.messages) = n + Len(added)
        /\ next.messages \in Seq(MessageType)
    BY <1>1, <1>2, <1>3, LenProperties, ConcatProperties
  <2>3. n + i \in 1..n + Len(added) /\ ~(n + i <= n) /\ (n + i) - n = i
    BY <2>2
  <2>4. next.messages[n + i] = added[i]
    BY <1>1, <1>2, <1>3, <2>3, ConcatProperties
  <2>5. n + i \in DOMAIN next.messages
    BY <2>2, <2>3, LenProperties
  <2>6. QED BY <2>1, <2>4, <2>5 DEF Announced
<1>7. Provenance(prev, next)
  BY <1>1, <1>3, <1>4, <1>5, <1>6 DEF Provenance
<1>8. next.step >= prev.step
  <2>1. prev.step \in Nat
    BY DEF StateType
  <2>2. QED BY <1>3, <2>1
<1>9. ValidEngineOutput(prev, next)
  BY <1>3, <1>7, <1>8 DEF ValidEngineOutput
<1>10. next \in EngineStateType
  BY <1>3 DEF StateType, EngineStateType
<1>11. <<>> \in Seq(EngineEvents)
  OBVIOUS
<1>12. Outcome(next, FALSE, <<>>, replayed) \in OutcomeOf(prev)
  BY <1>3, <1>10, <1>11 DEF Outcome, OutcomeOf
<1>13. Outcome(next, FALSE, <<>>, replayed).state = next
  BY DEF Outcome
<1>14. QED BY <1>9, <1>12, <1>13 DEF Suspends, next, added

\* Every way the loop ends returns a typed outcome.
LEMMA LoopTyped ==
  ASSUME NEW c \in Cmds, NEW prev \in StateType, NEW m \in Seq(MessageType),
         NEW replayed \in BOOLEAN, NEW done \in BOOLEAN,
         NEW out \in LoopOutcomes(c, prev, m, replayed, done)
  PROVE  out \in OutcomeOf(prev) /\ ValidEngineOutput(prev, out.state)
<1>1. Append(m, Answer(c)) \in Seq(MessageType)
  <2>1. NoRequirement \in RequirementType
    BY DEF RequirementType
  <2>2. "" \in Calls
    <3>1. NoRequirement.call = ""
      BY DEF NoRequirement
    <3>2. QED BY <2>1, <3>1 DEF Calls
  <2>3. QED BY <2>1, <2>2, MessagesTyped, AppendProperties
<1> DEFINE cancelled == Ends(prev, 0, "cancelled", m, "run_cancelled", replayed, done)
           exceeded == Ends(prev, 0, "max_steps_exceeded", m, "run_failed", replayed, done)
           failed == Ends(prev, 1, "failed", m, "run_failed", replayed, done)
           completed == Ends(prev, 1, "completed", Append(m, Answer(c)), "run_completed",
                             replayed, done)
<1>2. /\ "run_cancelled" \in EngineEvents /\ "run_failed" \in EngineEvents
      /\ "run_completed" \in EngineEvents
  BY DEF EngineEvents
<1>3. \/ out \in {cancelled, exceeded, failed, completed}
      \/ \E q \in Requirements : out = Suspends(c, prev, q, m, replayed)
  BY DEF LoopOutcomes
<1>4. ASSUME NEW q \in Requirements, out = Suspends(c, prev, q, m, replayed)
      PROVE  out \in OutcomeOf(prev) /\ ValidEngineOutput(prev, out.state)
  BY <1>4, SuspendsTyped
<1>5. CASE out \in {cancelled, exceeded, failed, completed}
  <2>1. 0 \in Nat /\ 1 \in Nat
    OBVIOUS
  <2>2. CASE out = cancelled
    BY <1>2, <2>1, <2>2, EndsTyped
  <2>3. CASE out = exceeded
    BY <1>2, <2>1, <2>3, EndsTyped
  <2>4. CASE out = failed
    BY <1>2, <2>1, <2>4, EndsTyped
  <2>5. CASE out = completed
    BY <1>1, <1>2, <2>1, <2>5, EndsTyped
  <2>6. QED BY <1>5, <2>2, <2>3, <2>4, <2>5
<1>6. QED BY <1>3, <1>4, <1>5

\* The React loop keeps the contract that validateEngineOutput checks, for every
\* input state that is not suspended, so the runner never throws its work away:
\* a suspension of the loop carries the message that raised it, a tool's also the
\* call it blocks, and the transcript and the step only grow.
THEOREM ReactKeepsContract ==
  ASSUME NEW c \in Cmds, NEW prev \in StateType, NEW resolution,
         NEW resolved \in RequirementType, NEW done \in BOOLEAN,
         NEW out \in ReactOutcomes(c, prev, resolution, resolved, done)
  PROVE  /\ out \in OutcomeOf(prev)
         /\ prev.status # "suspended" => ValidEngineOutput(prev, out.state)
<1> DEFINE answered == Answered(c, resolution)
           m == answered \o Replayed(c, resolution, resolved)
           replay == ReplayRequested(resolution, resolved)
           found == Announced(prev.messages, resolved.call)
           fails == Ends(prev, 0, "failed", answered, "run_failed", replay /\ found, done)
           cancels == Ends(prev, 0, "cancelled", answered, "run_cancelled", replay, done)
           refused == Outcome(prev, TRUE, <<>>, FALSE)
<1>1. replay \in BOOLEAN /\ (replay /\ found) \in BOOLEAN
  BY DEF ReplayRequested
<1>2. resolved.call \in Calls /\ NoRequirement \in RequirementType
  BY DEF Calls, RequirementType
<1>3. answered \in Seq(MessageType)
  BY <1>2, MessagesTyped DEF Answered
<1>4. Replayed(c, resolution, resolved) \in Seq(MessageType)
  BY <1>2, MessagesTyped DEF Replayed
<1>5. m \in Seq(MessageType)
  BY <1>3, <1>4, ConcatProperties
<1>6. \/ out = refused
      \/ out \in {fails, cancels}
      \/ out \in LoopOutcomes(c, prev, m, TRUE, done)
      \/ out \in LoopOutcomes(c, prev, m, FALSE, done)
  BY DEF ReactOutcomes
<1>7. CASE out = refused
  <2>1. prev \in EngineStateType /\ prev.step \in Nat /\ prev.messages \in Seq(MessageType)
    BY DEF StateType, EngineStateType
  <2>2. <<>> \in Seq(EngineEvents)
    OBVIOUS
  <2>3. refused \in OutcomeOf(prev) /\ refused.state = prev
    BY <2>1, <2>2 DEF Outcome, OutcomeOf
  <2>4. IsPrefix(prev.messages, prev.messages) /\ prev.step >= prev.step
    BY <2>1, PrefixReflexive
  <2>5. prev.status # "suspended" => ValidEngineOutput(prev, prev)
    BY <2>4 DEF ValidEngineOutput, Provenance
  <2>6. QED BY <1>7, <2>3, <2>5
<1>8. CASE out \in {fails, cancels}
  <2>1. "run_cancelled" \in EngineEvents /\ "run_failed" \in EngineEvents
    BY DEF EngineEvents
  <2>2. 0 \in Nat
    OBVIOUS
  <2> HIDE DEF answered, replay, found
  <2>3. CASE out = fails
    BY <1>1, <1>3, <2>1, <2>2, <2>3, EndsTyped
  <2>4. CASE out = cancels
    BY <1>1, <1>3, <2>1, <2>2, <2>4, EndsTyped
  <2>5. QED BY <1>8, <2>3, <2>4
<1>9. CASE out \in LoopOutcomes(c, prev, m, TRUE, done) \/ out \in LoopOutcomes(c, prev, m, FALSE, done)
  BY <1>5, <1>9, LoopTyped
<1>10. QED BY <1>6, <1>7, <1>8, <1>9

\* The retry wrapper returns typed outcomes.
LEMMA RetryTyped ==
  ASSUME NEW c \in Cmds, NEW prev \in StateType, NEW done \in BOOLEAN,
         NEW out \in RetryOutcomes(c, prev, done)
  PROVE  out \in OutcomeOf(prev)
<1>1. NoRequirement \in RequirementType /\ FALSE \in BOOLEAN
  BY DEF RequirementType
<1>2. CASE done
  <2>1. out = Outcome(prev, TRUE, <<>>, FALSE)
    BY <1>2 DEF RetryOutcomes
  <2>2. prev \in EngineStateType
    BY DEF StateType, EngineStateType
  <2>3. <<>> \in Seq(EngineEvents)
    OBVIOUS
  <2>4. QED BY <2>1, <2>2, <2>3 DEF Outcome, OutcomeOf
<1>3. CASE ~done
  <2> DEFINE outs == ReactOutcomes(c, prev, NoResolution, NoRequirement, FALSE)
  <2>1. \/ out \in outs
        \/ \E o \in outs : out = [o EXCEPT !.events = <<"run_failed">> \o @]
    BY <1>3 DEF RetryOutcomes
  <2>2. \A o \in outs : o \in OutcomeOf(prev)
    BY <1>1, ReactKeepsContract
  <2>3. <<"run_failed">> \in Seq(EngineEvents)
    <3>1. "run_failed" \in EngineEvents
      BY DEF EngineEvents
    <3>2. QED BY <3>1
  <2> HIDE DEF outs
  <2>4. ASSUME NEW o \in outs, out = [o EXCEPT !.events = <<"run_failed">> \o @]
        PROVE  out \in OutcomeOf(prev)
    <3>1. o \in OutcomeOf(prev) /\ o.events \in Seq(EngineEvents)
      BY <2>2 DEF OutcomeOf
    <3>2. <<"run_failed">> \o o.events \in Seq(EngineEvents)
      BY <2>3, <3>1, ConcatProperties
    <3>3. QED BY <2>4, <3>1, <3>2 DEF OutcomeOf
  <2>5. QED BY <2>1, <2>2, <2>4
<1>4. QED BY <1>2, <1>3

\* An engine that breaks the contract returns states of the type too, but for the
\* step it sets back.
LEMMA RogueTyped ==
  ASSUME NEW c \in Cmds, NEW prev \in StateType, NEW out \in RogueOutcomes(c, prev)
  PROVE  out \in OutcomeOf(prev)
<1> DEFINE answered == Advance(prev, 1, "completed", NoRequirement, <<Answer(c)>>)
           Of(st) == st \in EngineStateType /\ st.version = prev.version
<1>1. /\ NoRequirement \in RequirementType /\ "" \in Statuses
      /\ "suspended" \in Statuses /\ "completed" \in Statuses
      /\ Requirements \subseteq RequirementType
      /\ \A q \in Requirements : q.call \in Calls
  BY DEF RequirementType, Statuses, Calls
<1>2. "" \in Calls
  <2>1. NoRequirement.call = ""
    BY DEF NoRequirement
  <2>2. QED BY <1>1, <2>1 DEF Calls
<1>3. Answer(c) \in MessageType /\ \A q \in Requirements : Observation(c, q.call) \in MessageType
  BY <1>1, <1>2, MessagesTyped
<1>4. <<Answer(c)>> \in Seq(MessageType) /\ 1 \in Nat
  BY <1>3
<1>5. /\ answered \in StateType /\ answered.version = prev.version
      /\ answered.messages = prev.messages \o <<Answer(c)>>
  <2> DEFINE m == <<Answer(c)>>
  <2> HIDE DEF m
  <2>1. m \in Seq(MessageType)
    BY <1>4 DEF m
  <2> DEFINE next == Advance(prev, 1, "completed", NoRequirement, m)
  <2>2. 1 \in Nat
    OBVIOUS
  <2>3. NoRequirement \in RequirementType /\ "completed" \in Statuses
    BY <1>1
  <2>4. next \in StateType /\ next.version = prev.version
    BY <2>1, <2>2, <2>3, AdvanceExtends
  <2>5. next.messages = prev.messages \o m
    BY <2>1, <2>2, <2>3, AdvanceExtends
  <2>6. QED BY <2>4, <2>5 DEF m
<1> HIDE DEF answered
<1>6. /\ answered.messages \in Seq(MessageType) /\ answered.messages # <<>>
      /\ answered.step \in Nat
  <2>1. prev.messages \in Seq(MessageType) /\ Len(<<Answer(c)>>) = 1
    BY DEF StateType
  <2>2. Len(answered.messages) = Len(prev.messages) + 1 /\ Len(prev.messages) \in Nat
    BY <1>4, <1>5, <2>1, ConcatProperties, LenProperties
  <2>3. answered.messages # <<>>
    BY <2>2
  <2>4. QED BY <1>5, <2>3 DEF StateType
<1>7. PICK st : out = Outcome(st, FALSE, <<>>, FALSE) /\
        \/ \E r \in Runs \ {prev.id} : st = [answered EXCEPT !.id = r]
        \/ st = [answered EXCEPT !.step = @ - 2]
        \/ st = [answered EXCEPT !.messages = <<>>]
        \/ st = [answered EXCEPT !.messages = <<Answer(c)>> \o Tail(@)]
        \/ st = [answered EXCEPT !.status = "suspended"]
        \/ st = [answered EXCEPT !.status = ""]
        \/ \E q \in Requirements :
             st = [answered EXCEPT !.status = "suspended", !.requirement = q]
        \/ \E q \in Requirements :
             st = [answered EXCEPT !.status = "suspended", !.requirement = q,
                                   !.messages = Append(@, Observation(c, q.call))]
  BY DEF RogueOutcomes, answered
<1>8. Of(st)
  <2>0. answered \in EngineStateType
    BY <1>5 DEF StateType, EngineStateType
  <2>1. ASSUME NEW r \in Runs, st = [answered EXCEPT !.id = r] PROVE Of(st)
    BY <2>0, <1>5, <2>1 DEF EngineStateType
  <2>2. ASSUME st = [answered EXCEPT !.step = @ - 2] PROVE Of(st)
    <3>1. answered.step - 2 \in Int
      BY <1>6
    <3>2. QED BY <2>0, <1>5, <2>2, <3>1 DEF EngineStateType
  <2>3. ASSUME NEW m \in Seq(MessageType), st = [answered EXCEPT !.messages = m] PROVE Of(st)
    BY <2>0, <1>5, <2>3 DEF EngineStateType
  <2>4. /\ <<>> \in Seq(MessageType)
        /\ <<Answer(c)>> \o Tail(answered.messages) \in Seq(MessageType)
    <3>1. Tail(answered.messages) \in Seq(MessageType)
      BY <1>6, HeadTailProperties
    <3>2. QED BY <1>4, <3>1, ConcatProperties
  <2>5. ASSUME NEW s \in Statuses, st = [answered EXCEPT !.status = s] PROVE Of(st)
    BY <2>0, <1>5, <2>5 DEF EngineStateType
  <2>6. ASSUME NEW q \in Requirements,
               st = [answered EXCEPT !.status = "suspended", !.requirement = q]
        PROVE  Of(st)
    BY <2>0, <1>1, <1>5, <2>6 DEF EngineStateType
  <2>7. ASSUME NEW q \in Requirements,
               st = [answered EXCEPT !.status = "suspended", !.requirement = q,
                                     !.messages = Append(@, Observation(c, q.call))]
        PROVE  Of(st)
    <3>1. Append(answered.messages, Observation(c, q.call)) \in Seq(MessageType)
      BY <1>3, <1>6, AppendProperties
    <3>2. QED BY <2>0, <1>1, <1>5, <2>7, <3>1 DEF EngineStateType
  <2>8. QED BY <1>1, <1>7, <2>1, <2>2, <2>3, <2>4, <2>5, <2>6, <2>7
<1>9. <<>> \in Seq(EngineEvents)
  OBVIOUS
<1>10. QED BY <1>7, <1>8, <1>9 DEF Outcome, OutcomeOf

\* Whatever is wired as engine returns a typed state that still carries the version
\* it was given: nothing checks that, and optimistic concurrency rests on it.
LEMMA EngineTyped ==
  ASSUME NEW c \in Cmds, NEW prev \in StateType, NEW resolution,
         NEW resolved \in RequirementType, NEW done \in BOOLEAN,
         NEW out \in EngineOutcomes(c, prev, resolution, resolved, done)
  PROVE  out \in OutcomeOf(prev)
<1>1. \/ out \in ReactOutcomes(c, prev, resolution, resolved, done)
      \/ out \in RetryOutcomes(c, prev, done)
      \/ out \in RogueOutcomes(c, prev)
  BY DEF EngineOutcomes
<1>2. QED BY <1>1, ReactKeepsContract, RetryTyped, RogueTyped

-----------------------------------------------------------------------------
(***************************************************************************)
(* What commands make of a state (CommandRules).                           *)
(***************************************************************************)

\* A run that is not in the store is a typed state.
LEMMA NoRunTyped ==
  ASSUME NEW r \in Runs
  PROVE  /\ NoRun(r) \in StateType
         /\ NoRun(r).id = r /\ NoRun(r).version = 0 /\ NoRun(r).step = 0
         /\ NoRun(r).status = "" /\ NoRun(r).messages = <<>>
<1>1. NoRequirement \in RequirementType /\ "" \in Statuses /\ <<>> \in Seq(MessageType)
  BY DEF RequirementType, Statuses
<1>2. QED BY <1>1 DEF NoRun, StateType

\* The state dispatchStart builds is typed.
LEMMA StartStateTyped ==
  ASSUME NEW c \in Cmds
  PROVE  /\ StartState(c) \in StateType
         /\ StartState(c).id = run(c) /\ StartState(c).version = 0
         /\ StartState(c).step = 0
<1>1. run(c) \in Runs
  BY CommandsAssumption DEF run
<1>2. <<UserMessage(c)>> \in Seq(MessageType)
  <2>1. NoRequirement \in RequirementType
    BY DEF RequirementType
  <2>2. NoRequirement \in RequirementType /\ NoRequirement.call \in Calls
    BY <2>1 DEF Calls
  <2>3. UserMessage(c) \in MessageType
    BY <2>2, MessagesTyped
  <2>4. QED BY <2>3
<1>3. NoRequirement \in RequirementType /\ "pending" \in Statuses
  BY DEF RequirementType, Statuses
<1>4. QED BY <1>1, <1>2, <1>3 DEF StartState, NoRun, StateType

\* next is st but for its status, its requirement and messages behind the others.
EditOf(st, next) ==
  /\ next \in StateType
  /\ next.id = st.id /\ next.version = st.version /\ next.step = st.step
  /\ IsPrefix(st.messages, next.messages)

\* The edits of the commands keep a state's type, its id, version and step, and extend
\* its transcript.
LEMMA EditsExtend ==
  ASSUME NEW c \in Cmds, NEW st \in StateType
  PROVE  EditOf(st, Resumed(st)) /\ EditOf(st, Cancelled(st)) /\ EditOf(st, Instructed(c, st))
<1>1. /\ st.messages \in Seq(MessageType)
      /\ IsPrefix(st.messages, st.messages)
  BY PrefixReflexive DEF StateType
<1>2. /\ NoRequirement \in RequirementType
      /\ "running" \in Statuses /\ "cancelled" \in Statuses
  BY DEF RequirementType, Statuses
<1>3. UserMessage(c) \in MessageType
  <2>1. NoRequirement.call \in Calls
    BY <1>2 DEF Calls
  <2>2. QED BY <1>2, <2>1, MessagesTyped
<1>4. /\ Append(st.messages, UserMessage(c)) \in Seq(MessageType)
      /\ IsPrefix(st.messages, Append(st.messages, UserMessage(c)))
  BY <1>1, <1>3, PrefixAppend
<1>5. EditOf(st, Resumed(st))
  BY <1>1, <1>2 DEF EditOf, Resumed, Transition, StateType
<1>6. EditOf(st, Cancelled(st))
  BY <1>1, <1>2 DEF EditOf, Cancelled, Transition, StateType
<1>7. EditOf(st, Instructed(c, st))
  BY <1>4 DEF EditOf, Instructed, StateType
<1>8. QED BY <1>5, <1>6, <1>7

-----------------------------------------------------------------------------
(***************************************************************************)
(* Replays.                                                                *)
(***************************************************************************)

\* A known status, and a valid requirement exactly if it is the suspended one.
Settled(st) == st.status \in KnownStatuses /\ SuspensionInvariant(st)

\* Every end of an execution leaves a settled state and says whether it replayed.
LEMMA EndsSettle ==
  ASSUME NEW prev \in StateType, NEW by \in Nat,
         NEW status \in {"completed", "failed", "cancelled", "max_steps_exceeded"},
         NEW m \in Seq(MessageType), NEW event, NEW replayed, NEW done
  PROVE  LET out == Ends(prev, by, status, m, event, replayed, done) IN
         out.replayed = replayed /\ Settled(out.state)
<1> DEFINE next == Advance(prev, by, status, NoRequirement, m)
<1>1. NoRequirement \in RequirementType /\ status \in Statuses /\ status \in KnownStatuses
  BY DEF RequirementType, Statuses, KnownStatuses
<1>2. next.status = status /\ next.requirement = NoRequirement
  BY <1>1, AdvanceExtends
<1>3. Settled(next)
  BY <1>1, <1>2 DEF Settled, SuspensionInvariant
<1>4. /\ Ends(prev, by, status, m, event, replayed, done).state = next
      /\ Ends(prev, by, status, m, event, replayed, done).replayed = replayed
  BY DEF Ends, Outcome
<1>5. QED BY <1>3, <1>4

\* So does every suspension.
LEMMA SuspendsSettle ==
  ASSUME NEW c \in Cmds, NEW prev \in StateType, NEW q \in Requirements,
         NEW m \in Seq(MessageType), NEW replayed
  PROVE  LET out == Suspends(c, prev, q, m, replayed) IN
         out.replayed = replayed /\ Settled(out.state)
<1> DEFINE t == m \o Raising(c, q)
           next == Advance(prev, 1, "suspended", q, t)
<1>1. /\ q \in RequirementType /\ 1 \in Nat
      /\ "suspended" \in Statuses /\ "suspended" \in KnownStatuses
  BY DEF RequirementType, Statuses, KnownStatuses
<1>2. t \in Seq(MessageType)
  BY RaisingIsProvenance
<1>3. next.status = "suspended" /\ next.requirement = q
  <2> HIDE DEF t
  <2>1. QED BY <1>1, <1>2, AdvanceExtends
<1>4. Settled(next)
  BY <1>1, <1>3, RequirementsAssumption DEF Settled, SuspensionInvariant
<1>5. /\ Suspends(c, prev, q, m, replayed).state = next
      /\ Suspends(c, prev, q, m, replayed).replayed = replayed
  BY DEF Suspends, Outcome
<1>6. QED BY <1>4, <1>5

\* And every way the loop ends.
LEMMA LoopSettles ==
  ASSUME NEW c \in Cmds, NEW prev \in StateType, NEW m \in Seq(MessageType),
         NEW replayed, NEW done, NEW out \in LoopOutcomes(c, prev, m, replayed, done)
  PROVE  out.replayed = replayed /\ Settled(out.state)
<1>1. Append(m, Answer(c)) \in Seq(MessageType) /\ 0 \in Nat /\ 1 \in Nat
  <2>1. NoRequirement \in RequirementType
    BY DEF RequirementType
  <2>2. NoRequirement.call \in Calls
    BY <2>1 DEF Calls
  <2>3. QED BY <2>1, <2>2, MessagesTyped, AppendProperties
<1>2. \/ \E by \in {0, 1} :
           \E status \in {"completed", "failed", "cancelled", "max_steps_exceeded"} :
             \E t \in {m, Append(m, Answer(c))} : \E event :
               out = Ends(prev, by, status, t, event, replayed, done)
      \/ \E q \in Requirements : out = Suspends(c, prev, q, m, replayed)
  BY DEF LoopOutcomes
<1>3. ASSUME NEW q \in Requirements, out = Suspends(c, prev, q, m, replayed)
      PROVE  out.replayed = replayed /\ Settled(out.state)
  BY <1>3, SuspendsSettle
<1>4. ASSUME NEW by \in {0, 1},
             NEW status \in {"completed", "failed", "cancelled", "max_steps_exceeded"},
             NEW t \in {m, Append(m, Answer(c))}, NEW event,
             out = Ends(prev, by, status, t, event, replayed, done)
      PROVE  out.replayed = replayed /\ Settled(out.state)
  <2>1. t \in Seq(MessageType) /\ by \in Nat
    BY <1>1
  <2>2. QED BY <1>4, <2>1, EndsSettle
<1>5. QED BY <1>2, <1>3, <1>4

\* The React loop, seen by whether it replays: it does if it was asked to and found
\* the call, unless it refuses the state or fails before.
LEMMA ReactReplays ==
  ASSUME NEW c \in Cmds, NEW prev \in StateType, NEW resolution,
         NEW resolved \in RequirementType, NEW done \in BOOLEAN,
         NEW out \in ReactOutcomes(c, prev, resolution, resolved, done)
  PROVE  /\ out.replayed =>
              /\ ReplayRequested(resolution, resolved)
              /\ prev.status # "suspended"
              /\ Settled(out.state)
         /\ /\ ReplayRequested(resolution, resolved)
            /\ Announced(prev.messages, resolved.call)
            /\ prev.status # "suspended" /\ TransitionOK(prev, "running")
            => out.replayed
<1> DEFINE answered == Answered(c, resolution)
           m == answered \o Replayed(c, resolution, resolved)
           replay == ReplayRequested(resolution, resolved)
           found == Announced(prev.messages, resolved.call)
           fails == Ends(prev, 0, "failed", answered, "run_failed", replay /\ found, done)
           cancels == Ends(prev, 0, "cancelled", answered, "run_cancelled", replay, done)
           refuses == prev.status = "suspended" \/ ~TransitionOK(prev, "running")
<1>1. resolved.call \in Calls /\ NoRequirement \in RequirementType
  BY DEF Calls, RequirementType
<1>2. answered \in Seq(MessageType)
  BY <1>1, MessagesTyped DEF Answered
<1>3. Replayed(c, resolution, resolved) \in Seq(MessageType)
  BY <1>1, MessagesTyped DEF Replayed
<1>4. m \in Seq(MessageType)
  BY <1>2, <1>3, ConcatProperties
<1>5. \/ refuses /\ out = Outcome(prev, TRUE, <<>>, FALSE)
      \/ ~refuses /\ replay /\ (out = fails \/ (found /\ out = cancels))
      \/ ~refuses /\ replay /\ found /\ out \in LoopOutcomes(c, prev, m, TRUE, done)
      \/ ~refuses /\ ~replay /\ out \in LoopOutcomes(c, prev, m, FALSE, done)
  BY DEF ReactOutcomes
<1>6. /\ fails.replayed = (replay /\ found) /\ Settled(fails.state)
      /\ cancels.replayed = replay /\ Settled(cancels.state)
  <2> HIDE DEF answered, replay, found
  <2>1. 0 \in Nat
    OBVIOUS
  <2>2. QED BY <1>2, <2>1, EndsSettle
<1>7. Outcome(prev, TRUE, <<>>, FALSE).replayed = FALSE
  BY DEF Outcome
<1> HIDE DEF fails, cancels, m, replay, found
<1>8. CASE out \in LoopOutcomes(c, prev, m, TRUE, done) /\ ~refuses /\ replay /\ found
  <2>1. out.replayed = TRUE /\ Settled(out.state)
    BY <1>4, <1>8, LoopSettles
  <2>2. QED BY <1>8, <2>1 DEF replay, found
<1>9. CASE out \in LoopOutcomes(c, prev, m, FALSE, done) /\ ~refuses /\ ~replay
  <2>1. out.replayed = FALSE /\ Settled(out.state)
    BY <1>4, <1>9, LoopSettles
  <2>2. QED BY <1>9, <2>1 DEF replay, found
<1>10. CASE ~refuses /\ replay /\ (out = fails \/ (found /\ out = cancels))
  BY <1>6, <1>10 DEF replay, found
<1>11. CASE refuses /\ out = Outcome(prev, TRUE, <<>>, FALSE)
  BY <1>7, <1>11
<1>12. QED BY <1>5, <1>8, <1>9, <1>10, <1>11

\* Whatever is wired as engine, a call is only replayed for an approved requirement of
\* a tool, and the state that comes with it is one the runner and the store accept.
LEMMA ReplaysAreSaved ==
  ASSUME NEW c \in Cmds, NEW prev \in StateType, NEW resolution,
         NEW resolved \in RequirementType, NEW done \in BOOLEAN,
         NEW out \in EngineOutcomes(c, prev, resolution, resolved, done), out.replayed
  PROVE  /\ ReplayRequested(resolution, resolved)
         /\ ValidEngineOutput(prev, out.state)
         /\ ValidRunState(out.state)
<1>1. CASE out \in ReactOutcomes(c, prev, resolution, resolved, done)
  <2>1. /\ ReplayRequested(resolution, resolved) /\ prev.status # "suspended"
        /\ Settled(out.state)
    BY <1>1, ReactReplays
  <2>2. ValidEngineOutput(prev, out.state) /\ out \in OutcomeOf(prev)
    BY <1>1, <2>1, ReactKeepsContract
  <2>3. /\ out.state.version \in Nat /\ out.state.step \in Int /\ prev.step \in Nat
        /\ out.state.step >= prev.step
    BY <2>2 DEF OutcomeOf, EngineStateType, StateType, ValidEngineOutput
  <2>4. out.state.version >= 0 /\ out.state.step >= 0
    BY <2>3
  <2>5. QED BY <2>1, <2>2, <2>4 DEF ValidRunState, Settled
<1>2. CASE out \in RetryOutcomes(c, prev, done)
  <2> DEFINE outs == ReactOutcomes(c, prev, NoResolution, NoRequirement, FALSE)
  <2>1. \/ out = Outcome(prev, TRUE, <<>>, FALSE)
        \/ out \in outs
        \/ \E o \in outs : out = [o EXCEPT !.events = <<"run_failed">> \o @]
    BY <1>2 DEF RetryOutcomes
  <2>2. ASSUME NEW o \in outs PROVE o.replayed = FALSE /\ o \in OutcomeOf(prev)
    <3>1. NoRequirement \in RequirementType /\ FALSE \in BOOLEAN
      BY DEF RequirementType
    <3>2. ~ReplayRequested(NoResolution, NoRequirement)
      BY DEF ReplayRequested, NoResolution
    <3>3. o \in OutcomeOf(prev)
      BY <3>1, ReactKeepsContract
    <3>4. ~o.replayed
      BY <3>1, <3>2, ReactReplays
    <3>5. o.replayed \in BOOLEAN
      BY <3>3 DEF OutcomeOf
    <3>6. QED BY <3>3, <3>4, <3>5
  <2> HIDE DEF outs
  <2>3. out # Outcome(prev, TRUE, <<>>, FALSE)
    BY DEF Outcome
  <2>4. ASSUME NEW o \in outs, out = [o EXCEPT !.events = <<"run_failed">> \o @]
        PROVE  FALSE
    <3>1. o.replayed = FALSE /\ o \in OutcomeOf(prev)
      BY <2>2
    <3>2. out.replayed = o.replayed
      BY <2>4, <3>1 DEF OutcomeOf
    <3>3. QED BY <3>1, <3>2
  <2>5. QED BY <2>1, <2>2, <2>3, <2>4
<1>3. CASE out \in RogueOutcomes(c, prev)
  <2>1. PICK st : out = Outcome(st, FALSE, <<>>, FALSE)
    BY <1>3 DEF RogueOutcomes
  <2>2. QED BY <2>1 DEF Outcome
<1>4. QED BY <1>1, <1>2, <1>3 DEF EngineOutcomes
=============================================================================
