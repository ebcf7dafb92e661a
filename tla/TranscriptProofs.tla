-------------------------- MODULE TranscriptProofs --------------------------
(***************************************************************************)
(* Proofs about the transcript the loop of ReactLoop writes: what it tells *)
(* its sink of it, what the runner's contract sees in it, how it answers   *)
(* the calls of the model, and what a provider is sent of it.  The folds   *)
(* (FlattenSeq, Normalized) are read one element at a time: each is the    *)
(* last value of a function on the positions, and what holds of every      *)
(* sequence holds because a shortest counterexample would have a shorter   *)
(* one.                                                                    *)
(***************************************************************************)
EXTENDS ReactProofs, WellFoundedInduction

-----------------------------------------------------------------------------
(***************************************************************************)
(* The folds, one element at a time.                                       *)
(***************************************************************************)

\* Every set of numbers has a least one.
LEMMA LeastNumber ==
  ASSUME NEW S \in SUBSET Nat, S # {}
  PROVE  \E n \in S : \A m \in S : n <= m
<1>1. IsWellFoundedOn(OpToRel(<, Nat), Nat)
  BY NatLessThanWellFounded
<1>2. PICK n \in S : \A m \in S : ~(<<m, n>> \in OpToRel(<, Nat))
  BY <1>1, WFMin
<1>3. \A m \in S : ~(m < n)
  BY <1>2 DEF OpToRel
<1>4. QED BY <1>3

\* f concatenates the first n elements of s, one after the other.
Concatenates(f, s, n) ==
  f = [i \in 1..n |-> IF i = 1 THEN s[i] ELSE f[i - 1] \o s[i]]

\* s and t have the same first k elements.
Agree(s, t, k) == \A i \in 1..k : s[i] = t[i]

LEMMA ConcatenationExists ==
  ASSUME NEW s, NEW n \in Nat
  PROVE  \E f : Concatenates(f, s, n)
<1> DEFINE Bad == {m \in Nat : ~ \E f : Concatenates(f, s, m)}
<1> SUFFICES ASSUME Bad # {} PROVE FALSE
  OBVIOUS
<1>1. PICK m \in Bad : \A k \in Bad : m <= k
  BY LeastNumber
<1>2. m # 0
  <2>1. PICK f : f = [i \in 1..0 |-> 0]
    OBVIOUS
  <2>2. Concatenates(f, s, 0)
    BY <2>1 DEF Concatenates
  <2>3. QED BY <2>2
<1>3. m - 1 \in Nat /\ m - 1 \notin Bad
  BY <1>1, <1>2
<1>4. PICK f : Concatenates(f, s, m - 1)
  BY <1>3
<1>5. PICK g : g = [i \in 1..m |-> IF i = m THEN (IF m = 1 THEN s[m] ELSE f[m - 1] \o s[m])
                                            ELSE f[i]]
  OBVIOUS
<1>6. \A i \in 1..(m - 1) : f[i] = IF i = 1 THEN s[i] ELSE f[i - 1] \o s[i]
  BY <1>4 DEF Concatenates
<1>7. \A i \in 1..m : g[i] = IF i = 1 THEN s[i] ELSE g[i - 1] \o s[i]
  BY <1>3, <1>5, <1>6
<1>8. Concatenates(g, s, m)
  BY <1>5, <1>7 DEF Concatenates
<1>9. QED BY <1>8

LEMMA ConcatenationStep ==
  ASSUME NEW s, NEW n \in Nat, NEW f, Concatenates(f, s, n), NEW i \in 1..n
  PROVE  f[i] = IF i = 1 THEN s[i] ELSE f[i - 1] \o s[i]
<1>1. PICK h : h = [j \in 1..n |-> IF j = 1 THEN s[j] ELSE f[j - 1] \o s[j]]
  OBVIOUS
<1>2. h[i] = IF i = 1 THEN s[i] ELSE f[i - 1] \o s[i]
  BY <1>1
<1>3. f = h
  BY <1>1 DEF Concatenates
<1>4. QED BY <1>2, <1>3

LEMMA ConcatenationUnique ==
  ASSUME NEW s, NEW t, NEW f, NEW g, NEW m \in Nat, NEW n \in Nat, NEW k \in Nat,
         k <= m, k <= n, Agree(s, t, k), Concatenates(f, s, m), Concatenates(g, t, n)
  PROVE  Agree(f, g, k)
<1> DEFINE Bad == {i \in 1..k : f[i] # g[i]}
<1> SUFFICES ASSUME Bad # {} PROVE FALSE
  BY DEF Agree
<1>1. Bad \in SUBSET Nat
  OBVIOUS
<1>2. PICK i \in Bad : \A j \in Bad : i <= j
  BY <1>1, LeastNumber
<1>3. i \in 1..m /\ i \in 1..n /\ s[i] = t[i] /\ f[i] # g[i]
  BY <1>2 DEF Agree
<1>4. /\ f[i] = IF i = 1 THEN s[i] ELSE f[i - 1] \o s[i]
      /\ g[i] = IF i = 1 THEN t[i] ELSE g[i - 1] \o t[i]
  BY <1>3, ConcatenationStep
<1>5. i # 1 => f[i - 1] = g[i - 1]
  <2>1. i # 1 => i - 1 \in 1..k /\ i - 1 < i
    BY <1>2
  <2>2. i # 1 => i - 1 \notin Bad
    BY <1>1, <1>2, <2>1
  <2>3. QED BY <2>1, <2>2
<1>6. QED BY <1>3, <1>4, <1>5

LEMMA FlattenIs ==
  ASSUME NEW S, NEW s \in Seq(S), Len(s) # 0
  PROVE  \E f : Concatenates(f, s, Len(s)) /\ FlattenSeq(s) = f[Len(s)]
<1>1. Len(s) \in Nat
  BY LenProperties
<1> DEFINE f == CHOOSE f : Concatenates(f, s, Len(s))
<1>2. Concatenates(f, s, Len(s))
  BY <1>1, ConcatenationExists
<1>3. FlattenSeq(s) = f[Len(s)]
  BY DEF FlattenSeq, Concatenates
<1>4. QED BY <1>2, <1>3

\* Flattening one sequence more appends it.
LEMMA FlattenAppend ==
  ASSUME NEW T, NEW s \in Seq(Seq(T)), NEW e \in Seq(T)
  PROVE  /\ FlattenSeq(<<>>) = <<>>
         /\ FlattenSeq(s) \in Seq(T) => FlattenSeq(Append(s, e)) = FlattenSeq(s) \o e
<1> DEFINE n == Len(s)
           t == Append(s, e)
<1>1. /\ n \in Nat /\ t \in Seq(Seq(T)) /\ Len(t) = n + 1
      /\ t[n + 1] = e /\ \A i \in 1..n : s[i] = t[i]
  BY LenProperties, AppendProperties
<1>2. FlattenSeq(<<>>) = <<>>
  BY DEF FlattenSeq
<1> HIDE DEF n, t
<1>3. PICK g : Concatenates(g, t, n + 1) /\ FlattenSeq(t) = g[n + 1]
  <2>1. Len(t) # 0 /\ Len(t) = n + 1
    BY <1>1
  <2>2. \E g : Concatenates(g, t, Len(t)) /\ FlattenSeq(t) = g[Len(t)]
    BY <1>1, <2>1, FlattenIs
  <2>3. QED BY <2>1, <2>2
<1>4. g[n + 1] = IF n = 0 THEN t[n + 1] ELSE g[n] \o t[n + 1]
  <2>1. n + 1 \in Nat /\ n + 1 \in 1..(n + 1) /\ (n + 1) - 1 = n /\ (n + 1 = 1 <=> n = 0)
    BY <1>1
  <2>2. g[n + 1] = IF n + 1 = 1 THEN t[n + 1] ELSE g[(n + 1) - 1] \o t[n + 1]
    BY <1>3, <2>1, ConcatenationStep
  <2>3. QED BY <2>1, <2>2
<1>5. CASE n = 0
  <2>1. s = <<>>
    BY <1>5, EmptySeq DEF n
  <2>2. FlattenSeq(t) = e
    BY <1>1, <1>3, <1>4, <1>5
  <2>3. <<>> \o e = e
    BY ConcatEmptySeq
  <2>4. QED BY <1>2, <2>1, <2>2, <2>3 DEF t
<1>6. CASE n # 0
  <2>1. PICK f : Concatenates(f, s, n) /\ FlattenSeq(s) = f[n]
    BY <1>6, FlattenIs DEF n
  <2>2. f[n] = g[n]
    <3>1. PICK m : m = n + 1
      OBVIOUS
    <3>2. m \in Nat /\ n \in Nat /\ n <= n /\ n <= m /\ n \in 1..n
      BY <1>1, <1>6, <3>1
    <3>3. Concatenates(f, s, n) /\ Concatenates(g, t, m) /\ Agree(s, t, n)
      BY <1>1, <1>3, <2>1, <3>1 DEF Agree
    <3>4. Agree(f, g, n)
      BY <3>2, <3>3, ConcatenationUnique
    <3>5. QED BY <3>2, <3>4 DEF Agree
  <2>3. QED BY <1>1, <1>2, <1>3, <1>4, <1>6, <2>1, <2>2 DEF t
<1>7. QED BY <1>5, <1>6

\* A set of numbers up to a bound has a greatest one.
LEMMA GreatestNumber ==
  ASSUME NEW n \in Nat, NEW S \in SUBSET (1..n), S # {}
  PROVE  Max(S) \in S /\ \A x \in S : x <= Max(S)
<1> DEFINE Bounds == {b \in Nat : \A x \in S : x <= b}
<1>1. Bounds \in SUBSET Nat /\ Bounds # {}
  <2>1. n \in Bounds
    OBVIOUS
  <2>2. QED BY <2>1
<1>2. PICK b \in Bounds : \A c \in Bounds : b <= c
  BY <1>1, LeastNumber
<1>3. b \in S
  <2> SUFFICES ASSUME b \notin S PROVE FALSE
    OBVIOUS
  <2>1. \A x \in S : x \in Nat /\ x >= 1 /\ x <= b /\ x # b
    BY <1>2
  <2>2. PICK y \in S : y \in Nat /\ y >= 1 /\ y <= b
    BY <2>1
  <2>3. b \in Nat /\ b # 0
    BY <1>2, <2>2
  <2>4. b - 1 \in Nat /\ \A x \in S : x <= b - 1
    BY <2>1, <2>3
  <2>5. b - 1 \in Bounds
    BY <2>4
  <2>6. QED BY <1>2, <2>5
<1>4. \A x \in S : b >= x
  BY <1>2
<1>5. S \in SUBSET Int
  OBVIOUS
<1>6. Max(S) = b
  BY <1>3, <1>4, <1>5, MaxIs
<1>7. QED BY <1>2, <1>3, <1>6

\* f normalizes any selection of the first n messages.
Normalizes(f, ms, n) ==
  f = [s \in SUBSET (1..n) |->
         IF s = {} THEN Nothing ELSE NormalizeNext(f[s \ {Max(s)}], ms[Max(s)])]

LEMMA NormalizesStep ==
  ASSUME NEW ms, NEW n \in Nat, NEW f, Normalizes(f, ms, n), NEW s \in SUBSET (1..n)
  PROVE  f[s] = IF s = {} THEN Nothing ELSE NormalizeNext(f[s \ {Max(s)}], ms[Max(s)])
<1>1. PICK h : h = [t \in SUBSET (1..n) |->
                      IF t = {} THEN Nothing ELSE NormalizeNext(f[t \ {Max(t)}], ms[Max(t)])]
  OBVIOUS
<1>2. h[s] = IF s = {} THEN Nothing ELSE NormalizeNext(f[s \ {Max(s)}], ms[Max(s)])
  BY <1>1
<1>3. f = h
  BY <1>1 DEF Normalizes
<1>4. QED BY <1>2, <1>3

LEMMA NormalizationExists ==
  ASSUME NEW ms, NEW n \in Nat
  PROVE  \E f : Normalizes(f, ms, n)
<1> DEFINE Bad == {m \in Nat : ~ \E f : Normalizes(f, ms, m)}
<1> SUFFICES ASSUME Bad # {} PROVE FALSE
  OBVIOUS
<1>1. PICK m \in Bad : \A k \in Bad : m <= k
  BY LeastNumber
<1>2. m \in Nat
  BY <1>1
<1>3. m # 0
  <2>1. PICK f : f = [s \in SUBSET (1..0) |-> Nothing]
    OBVIOUS
  <2>2. 1..0 = {}
    OBVIOUS
  <2>3. \A s \in SUBSET (1..0) : s = {}
    BY <2>2
  <2>4. [s \in SUBSET (1..0) |-> Nothing]
        = [s \in SUBSET (1..0) |->
             IF s = {} THEN Nothing ELSE NormalizeNext(f[s \ {Max(s)}], ms[Max(s)])]
    BY <2>3
  <2>5. Normalizes(f, ms, 0)
    BY <2>1, <2>4 DEF Normalizes
  <2>6. QED BY <2>5
<1>4. m - 1 \in Nat /\ m - 1 \notin Bad
  BY <1>1, <1>3
<1>5. PICK f : Normalizes(f, ms, m - 1)
  BY <1>4
<1>6. PICK g : g = [s \in SUBSET (1..m) |->
                      IF m \in s THEN NormalizeNext(f[s \ {m}], ms[m]) ELSE f[s]]
  OBVIOUS
<1>7. ASSUME NEW s \in SUBSET (1..m)
      PROVE  g[s] = IF s = {} THEN Nothing ELSE NormalizeNext(g[s \ {Max(s)}], ms[Max(s)])
  <2>1. CASE s = {}
    <3>1. s \in SUBSET (1..(m - 1)) /\ m \notin s
      BY <2>1
    <3>2. f[s] = Nothing
      BY <1>4, <1>5, <2>1, <3>1, NormalizesStep
    <3>3. QED BY <1>6, <2>1, <3>1, <3>2
  <2>2. CASE m \in s
    <3>1. PICK x : x = Max(s)
      OBVIOUS
    <3>2. x \in s /\ m <= x /\ s # {}
      BY <1>2, <2>2, <3>1, GreatestNumber
    <3>3. x \in 1..m
      BY <3>2
    <3>4. Max(s) = m
      BY <1>2, <3>1, <3>2, <3>3
    <3>5. s \ {m} \in SUBSET (1..m) /\ m \notin s \ {m}
      OBVIOUS
    <3>6. g[s \ {m}] = f[s \ {m}]
      BY <1>6, <3>5
    <3>7. g[s] = NormalizeNext(f[s \ {m}], ms[m])
      BY <1>6, <2>2
    <3>8. QED BY <3>2, <3>4, <3>6, <3>7
  <2>3. CASE s # {} /\ m \notin s
    <3>1. s \in SUBSET (1..(m - 1))
      BY <1>1, <2>3
    <3>2. PICK l : l = m - 1
      OBVIOUS
    <3>3. l \in Nat /\ Normalizes(f, ms, l) /\ s \in SUBSET (1..l)
      BY <1>4, <1>5, <3>2, <3>1
    <3>4. f[s] = IF s = {} THEN Nothing ELSE NormalizeNext(f[s \ {Max(s)}], ms[Max(s)])
      BY <3>3, NormalizesStep
    <3>5. f[s] = NormalizeNext(f[s \ {Max(s)}], ms[Max(s)])
      BY <2>3, <3>4
    <3>6. s \ {Max(s)} \in SUBSET (1..m) /\ m \notin s \ {Max(s)}
      BY <2>3
    <3>7. g[s \ {Max(s)}] = f[s \ {Max(s)}] /\ g[s] = f[s]
      BY <1>6, <2>3, <3>6
    <3>8. QED BY <2>3, <3>5, <3>7
  <2>4. QED BY <2>1, <2>2, <2>3
<1>8. Normalizes(g, ms, m)
  <2>1. g = [s \in SUBSET (1..m) |-> g[s]]
    BY <1>6
  <2>2. [s \in SUBSET (1..m) |-> g[s]]
        = [s \in SUBSET (1..m) |->
             IF s = {} THEN Nothing ELSE NormalizeNext(g[s \ {Max(s)}], ms[Max(s)])]
    BY <1>7
  <2>3. QED BY <2>1, <2>2 DEF Normalizes
<1>9. QED BY <1>8

LEMMA NormalizationUnique ==
  ASSUME NEW ms, NEW us, NEW f, NEW g, NEW m \in Nat, NEW n \in Nat, NEW k \in Nat,
         k <= m, k <= n, Agree(ms, us, k), Normalizes(f, ms, m), Normalizes(g, us, n)
  PROVE  f[1..k] = g[1..k]
<1> DEFINE Bad == {i \in 0..k : \E s \in SUBSET (1..i) : f[s] # g[s]}
<1> SUFFICES ASSUME Bad # {} PROVE FALSE
  <2>1. k \notin Bad => f[1..k] = g[1..k]
    OBVIOUS
  <2>2. QED BY <2>1
<1>1. Bad \in SUBSET Nat
  OBVIOUS
<1>2. PICK i \in Bad : \A j \in Bad : i <= j
  BY <1>1, LeastNumber
<1>3. PICK s \in SUBSET (1..i) : f[s] # g[s]
  BY <1>2
<1>4. s \in SUBSET (1..m) /\ s \in SUBSET (1..n) /\ i \in Nat
  BY <1>2
<1>5. /\ f[s] = IF s = {} THEN Nothing ELSE NormalizeNext(f[s \ {Max(s)}], ms[Max(s)])
      /\ g[s] = IF s = {} THEN Nothing ELSE NormalizeNext(g[s \ {Max(s)}], us[Max(s)])
  <2>1. f[s] = IF s = {} THEN Nothing ELSE NormalizeNext(f[s \ {Max(s)}], ms[Max(s)])
    BY <1>4, NormalizesStep
  <2>2. g[s] = IF s = {} THEN Nothing ELSE NormalizeNext(g[s \ {Max(s)}], us[Max(s)])
    BY <1>4, NormalizesStep
  <2>3. QED BY <2>1, <2>2
<1>6. s # {}
  BY <1>3, <1>5
<1>7. PICK x : x = Max(s)
  OBVIOUS
<1>8. x \in s /\ \A y \in s : y <= x
  BY <1>4, <1>6, <1>7, GreatestNumber
<1>9. x \in 1..i /\ x \in 1..k /\ x - 1 \in Nat /\ x - 1 \in 0..k /\ x - 1 < i
  BY <1>2, <1>8
<1>10. s \ {x} \in SUBSET (1..(x - 1))
  BY <1>8, <1>9
<1>11. x - 1 \notin Bad
  BY <1>2, <1>9
<1>12. f[s \ {x}] = g[s \ {x}]
  BY <1>9, <1>10, <1>11
<1>13. ms[x] = us[x]
  BY <1>9 DEF Agree
<1>14. QED BY <1>3, <1>5, <1>6, <1>7, <1>12, <1>13

LEMMA NormalizedIs ==
  ASSUME NEW S, NEW ms \in Seq(S)
  PROVE  \E f : Normalizes(f, ms, Len(ms)) /\ Normalized(ms) = f[1..Len(ms)]
<1>1. Len(ms) \in Nat /\ DOMAIN ms = 1..Len(ms)
  BY LenProperties
<1> DEFINE f == CHOOSE f : Normalizes(f, ms, Len(ms))
<1>2. Normalizes(f, ms, Len(ms))
  BY <1>1, NormalizationExists
<1>3. Normalized(ms) = f[1..Len(ms)]
  BY <1>1 DEF Normalized, FoldLeft, MapThenFoldSet, Normalizes
<1>4. QED BY <1>2, <1>3

\* The normalization goes on with one message more.
LEMMA NormalizedAppend ==
  ASSUME NEW S, NEW ms \in Seq(S), NEW m \in S
  PROVE  /\ Normalized(<<>>) = Nothing
         /\ Normalized(Append(ms, m)) = NormalizeNext(Normalized(ms), m)
<1>1. PICK n : n = Len(ms)
  OBVIOUS
<1>2. PICK us : us = Append(ms, m)
  OBVIOUS
<1>3. n \in Nat /\ us \in Seq(S) /\ Len(us) = n + 1 /\ us[n + 1] = m /\ Agree(ms, us, n)
  BY <1>1, <1>2, LenProperties, AppendProperties DEF Agree
<1>4. PICK f : Normalizes(f, ms, n) /\ Normalized(ms) = f[1..n]
  BY <1>1, NormalizedIs
<1>5. PICK k : k = n + 1
  OBVIOUS
<1>6. PICK g : Normalizes(g, us, k) /\ Normalized(us) = g[1..k]
  BY <1>3, <1>5, NormalizedIs
<1>7. f[1..n] = g[1..n]
  <2>1. k \in Nat /\ n <= n /\ n <= k
    BY <1>3, <1>5
  <2>2. QED BY <1>3, <1>4, <1>6, <2>1, NormalizationUnique
<1>8. g[1..k] = NormalizeNext(g[1..n], us[k])
  <2>1. k \in Nat /\ k \in 1..k
    BY <1>3, <1>5
  <2>2. PICK s : s = 1..k
    OBVIOUS
  <2>3. s \in SUBSET (1..k) /\ k \in s /\ s # {}
    BY <2>1, <2>2
  <2>4. PICK x : x = Max(s)
    OBVIOUS
  <2>5. x \in s /\ k <= x
    BY <2>1, <2>3, <2>4, GreatestNumber
  <2>6. x = k
    BY <2>1, <2>2, <2>5
  <2>7. g[s] = IF s = {} THEN Nothing ELSE NormalizeNext(g[s \ {Max(s)}], us[Max(s)])
    BY <1>6, <2>1, <2>3, NormalizesStep
  <2>8. s \ {k} = 1..n
    BY <1>3, <1>5, <2>2
  <2>9. QED BY <2>2, <2>3, <2>4, <2>6, <2>7, <2>8
<1>9. Normalized(<<>>) = Nothing
  <2>1. PICK none : none = <<>>
    OBVIOUS
  <2>2. none \in Seq(S) /\ Len(none) = 0
    BY <2>1
  <2>3. PICK h : Normalizes(h, none, 0) /\ Normalized(none) = h[1..0]
    BY <2>2, NormalizedIs
  <2>4. 1..0 = {} /\ 1..0 \in SUBSET (1..0) /\ 0 \in Nat
    OBVIOUS
  <2>5. h[1..0] = Nothing
    BY <2>3, <2>4, NormalizesStep
  <2>6. QED BY <2>1, <2>3, <2>5
<1>10. QED BY <1>2, <1>3, <1>4, <1>5, <1>6, <1>7, <1>8, <1>9

-----------------------------------------------------------------------------
(***************************************************************************)
(* What a step of the loop writes, publishes and goes on with.             *)
(***************************************************************************)

\* The loop goes on with the calls cs, after it published es.
Proceeds(cs, es) ==
  /\ pc' = (IF cs = <<>> THEN "thinking" ELSE "acting") /\ calls' = cs
  /\ run'.status = "running"
  /\ ctxDone' = ctxDone /\ Publishes(es, ctxDone)

\* Execute returns, after it published es and the event of the status.
Returns(es) ==
  /\ pc' = "between" /\ calls' = <<>>
  /\ \E done \in BOOLEAN : /\ ctxDone => done
                           /\ ctxDone' = done /\ Publishes(es \o FinalEvents(run'), done)

\* The step of the run's entry.
Enters ==
  /\ pc = "entering" /\ pc' = (IF ReplayRequested THEN "replaying" ELSE "thinking")
  /\ calls' = <<>> /\ blocked' = blocked
  /\ run'.status = "running"
  /\ run'.messages = IF input.resolution = NoResolution THEN run.messages
                                                        ELSE Append(run.messages, UserMessage)
  /\ ctxDone' = ctxDone /\ events' = events /\ refused' = refused

\* The model's answer, with the calls cs or the requirement q.
Speaks(q, cs) ==
  /\ pc = "thinking" /\ ~ctxDone /\ blocked' = blocked
  /\ run'.messages = Append(run.messages, Assistant(q, cs))
  /\ \/ ShapeOK(cs) /\ Proceeds(cs, Said)
     \/ run'.status \in {"failed", "completed"} /\ Returns(Said)
     \/ /\ run'.status = "suspended" /\ run'.requirement = q /\ q.origin = "model"
        /\ ValidRequirement(q) /\ cs = <<>> /\ Returns(Said)

\* What is published of the call's answer.
Heard(k) == <<ToolEvent(run, Result(k.id, k.name))>>

\* The call k of the loop is answered.
Hears(k, q) ==
  /\ pc = "acting" /\ k = Head(calls) /\ ~ctxDone
  /\ run'.messages = Append(run.messages, Observation(k.id, q))
  /\ \/ /\ q = NoRequirement /\ blocked' = blocked
        /\ Proceeds(Tail(calls), Heard(k))
     \/ /\ q = NoRequirement /\ blocked' = blocked
        /\ run'.status = "failed" /\ Returns(Heard(k))
     \/ /\ run'.status = "suspended" /\ run'.requirement = q /\ q.origin = "tool"
        /\ q.call = k.id /\ ValidRequirement(q) /\ blocked' = k
        /\ Returns(Heard(k))

\* The approved call k is answered.
Replays(k) ==
  /\ pc = "replaying" /\ k = ReplayCall /\ blocked' = blocked
  /\ run'.messages = Append(run.messages, Observation(k.id, NoRequirement))
  /\ Proceeds(<<>>, Heard(k))

\* The execution ends and writes nothing.
Stops ==
  /\ pc \in {"replaying", "thinking", "acting"} /\ blocked' = blocked
  /\ run'.messages = run.messages
  /\ run'.status \in {"failed", "cancelled", "max_steps_exceeded"}
  /\ run'.status = "max_steps_exceeded" => pc = "thinking"
  /\ Returns(<<>>)

\* What no step of the loop changes.
Keeps ==
  /\ pc # "between" /\ run \in StateType /\ run' \in StateType /\ ctxDone \in BOOLEAN
  /\ given' = given /\ input' = input /\ approvals' = approvals
  /\ run'.version = run.version /\ run'.step >= run.step

Shape ==
  /\ Keeps
  /\ \/ Enters
     \/ \E q \in RequirementSet, cs \in CallLists \cup {<<>>} : Speaks(q, cs)
     \/ \E k \in ToolCalls, q \in RequirementSet : Hears(k, q)
     \/ \E k \in ToolCalls : Replays(k)
     \/ Stops

LEMMA EndsReturns ==
  ASSUME NEW st \in StateType, NEW status \in KnownStatuses, NEW es, NEW done \in BOOLEAN,
         ctxDone => done, Ends(st, status, es, done)
  PROVE  /\ Returns(es) /\ run' \in StateType /\ run'.status = status
         /\ run'.messages = st.messages /\ run'.requirement = st.requirement
         /\ run'.step = st.step /\ run'.version = st.version
<1>1. run' = Transition(st, status)
  BY DEF Ends
<1>2. Returns(es)
  BY DEF Ends, Returns
<1>3. QED BY <1>1, <1>2, TransitionTyped

LEMMA ContinuesProceeds ==
  ASSUME NEW st \in StateType, st.status = "running", NEW cs, NEW es, Continues(st, cs, es)
  PROVE  Proceeds(cs, es) /\ run' = st
BY DEF Continues, Proceeds

LEMMA ObservedVersion ==
  ASSUME run \in StateType, NEW x, NEW q
  PROVE  Observed(x, q).version = run.version
BY DEF StateType, Observed, Appended

LEMMA ThoughtVersion ==
  ASSUME run \in StateType, NEW q, NEW cs
  PROVE  Thought(q, cs).version = run.version /\ Thought(q, cs).step = run.step + 1
BY DEF StateType, Thought

LEMMA EnterShape == LoopInv /\ Enter => Shape
<1> SUFFICES ASSUME LoopInv, Enter PROVE Shape
  OBVIOUS
<1>1. pc = "entering" /\ pc # "between" /\ UNCHANGED <<given, input, Aux>>
  BY DEF Enter
<1>2. run \in StateType /\ ctxDone \in BOOLEAN
  BY <1>1, Working
<1>3. ReplayRequested => ~ReplayRefused
  <2>1. ReplayRequested => ToReplay
    BY <1>1 DEF ToReplay
  <2>2. QED BY <2>1, Redeemed
<1>4. PICK st : st = Transition(run, "running")
  OBVIOUS
<1>5. /\ run' = IF input.resolution = NoResolution THEN st ELSE Appended(st, UserMessage)
      /\ pc' = IF ReplayRequested THEN "replaying" ELSE "thinking"
      /\ UNCHANGED <<calls, ctxDone, events, refused>>
  BY <1>3, <1>4 DEF Enter
<1>6. /\ st \in StateType /\ st.status = "running" /\ st.messages = run.messages
      /\ st.step = run.step /\ st.version = run.version
  BY <1>2, <1>4, TransitionTyped DEF KnownStatuses, Statuses
<1>7. UserMessage \in MessageType
  BY MessagesTyped
<1>8. PICK m : m = UserMessage
  OBVIOUS
<1>9. PICK added : added = Appended(st, m)
  OBVIOUS
<1>10. /\ added \in StateType /\ added.status = "running" /\ added.step = run.step
       /\ added.messages = Append(run.messages, m)
  BY <1>6, <1>7, <1>8, <1>9, AppendedTyped
<1>11. added.version = run.version
  BY <1>6, <1>9 DEF StateType, Appended
<1>12. calls = <<>>
  BY <1>1 DEF LoopInv, LoopTyped
<1>13. run.step \in Nat /\ run.step >= run.step
  BY <1>2, StateFields
<1>14. run' = IF input.resolution = NoResolution THEN st ELSE added
  BY <1>5, <1>8, <1>9
<1>15. run' \in StateType /\ run'.status = "running" /\ run'.version = run.version
       /\ run'.step = run.step
       /\ run'.messages = IF input.resolution = NoResolution THEN run.messages
                                                             ELSE Append(run.messages, m)
  BY <1>6, <1>10, <1>11, <1>14
<1>16. Enters
  BY <1>1, <1>5, <1>8, <1>12, <1>15 DEF Enters, Aux
<1>17. Keeps
  BY <1>1, <1>2, <1>13, <1>15 DEF Keeps, Aux
<1>18. QED BY <1>16, <1>17 DEF Shape

LEMMA StopShape == LoopInv /\ (Interrupted \/ Exceed) => Shape
<1> SUFFICES ASSUME LoopInv, Interrupted \/ Exceed PROVE Shape
  OBVIOUS
<1>1. pc \in {"replaying", "thinking", "acting"} /\ pc # "between" /\ UNCHANGED <<given, input, Aux>>
  BY DEF Interrupted, Exceed
<1>2. run \in StateType /\ ctxDone \in BOOLEAN
  BY <1>1, Working
<1>3. PICK status \in {"cancelled", "max_steps_exceeded"}, done \in BOOLEAN :
        /\ Ends(run, status, <<>>, done) /\ (ctxDone => done)
        /\ status = "max_steps_exceeded" => pc = "thinking"
  BY <1>2 DEF Interrupted, Exceed
<1>4. /\ Returns(<<>>) /\ run' \in StateType /\ run'.status = status
      /\ run'.messages = run.messages /\ run'.step = run.step /\ run'.version = run.version
  BY <1>2, <1>3, FinalStatuses, EndsReturns
<1>5. run.step >= run.step
  BY <1>2, StateFields
<1>6. Stops
  BY <1>1, <1>3, <1>4 DEF Stops, Aux
<1>7. Keeps
  BY <1>1, <1>2, <1>4, <1>5 DEF Keeps, Aux
<1>8. QED BY <1>6, <1>7 DEF Shape

LEMMA ModelFailsShape == LoopInv /\ ModelFails => Shape
<1> SUFFICES ASSUME LoopInv, ModelFails PROVE Shape
  OBVIOUS
<1>1. /\ pc \in {"replaying", "thinking", "acting"} /\ pc # "between" /\ ~ctxDone
      /\ UNCHANGED <<given, input, Aux>>
  BY DEF ModelFails, Thinks
<1>2. run \in StateType /\ ctxDone \in BOOLEAN
  BY <1>1, Working
<1>3. PICK st : st = [run EXCEPT !.step = @ + 1]
  OBVIOUS
<1>4. /\ st \in StateType /\ st.messages = run.messages /\ st.version = run.version
      /\ st.step = run.step + 1
  <2>1. run.step + 1 \in Nat
    BY <1>2, StateFields
  <2>2. QED BY <1>2, <1>3, <2>1 DEF StateType
<1>5. PICK status \in {"failed", "cancelled"}, done \in BOOLEAN : Ends(st, status, <<>>, done)
  BY <1>2, <1>3 DEF ModelFails
<1>6. /\ Returns(<<>>) /\ run' \in StateType /\ run'.status = status
      /\ run'.messages = run.messages /\ run'.step = run.step + 1 /\ run'.version = run.version
  BY <1>1, <1>4, <1>5, FinalStatuses, EndsReturns
<1>7. run.step + 1 >= run.step
  BY <1>2, StateFields
<1>8. Stops
  BY <1>1, <1>5, <1>6 DEF Stops, Aux
<1>9. Keeps
  BY <1>1, <1>2, <1>6, <1>7 DEF Keeps, Aux
<1>10. QED BY <1>8, <1>9 DEF Shape

\* The three ways the model answers, and how the loop takes it.
LEMMA SpeakShape ==
  ASSUME LoopInv, Thinks, UNCHANGED <<given, input, Aux>>,
         NEW q \in RequirementSet, NEW cs \in CallLists \cup {<<>>},
         \/ ShapeOK(cs) /\ Continues(Thought(q, cs), cs, Said)
         \/ \E status \in {"failed", "completed"} : Ends(Thought(q, cs), status, Said, ctxDone)
         \/ /\ q.origin = "model" /\ ValidRequirement(q) /\ cs = <<>>
            /\ Ends([Thought(q, cs) EXCEPT !.requirement = q], "suspended", Said, ctxDone)
  PROVE  Shape
<1>1. pc = "thinking" /\ pc # "between" /\ pc # "entering" /\ ~ctxDone
  BY DEF Thinks
<1>2. run \in StateType /\ ctxDone \in BOOLEAN /\ run.status = "running"
  BY <1>1, Working
<1>3. PICK st : st = Thought(q, cs)
  OBVIOUS
<1>4. PICK m : m = Assistant(q, cs)
  OBVIOUS
<1>5. /\ st \in StateType /\ st.status = "running" /\ st.messages = Append(run.messages, m)
  BY <1>2, <1>3, <1>4, ThoughtTyped
<1>6. st.version = run.version /\ st.step = run.step + 1 /\ run.step + 1 >= run.step
  BY <1>2, <1>3, ThoughtVersion, StateFields
<1>7. CASE ShapeOK(cs) /\ Continues(st, cs, Said)
  <2>1. Proceeds(cs, Said) /\ run' = st
    BY <1>5, <1>7, ContinuesProceeds
  <2>2. Speaks(q, cs)
    BY <1>1, <1>4, <1>5, <1>7, <2>1 DEF Speaks, Aux
  <2>3. Keeps
    BY <1>1, <1>2, <1>5, <1>6, <2>1 DEF Keeps, Aux
  <2>4. QED BY <2>2, <2>3 DEF Shape
<1>8. ASSUME NEW status \in {"failed", "completed"}, Ends(st, status, Said, ctxDone)
      PROVE  Shape
  <2>1. /\ Returns(Said) /\ run' \in StateType /\ run'.status = status
        /\ run'.messages = st.messages /\ run'.step = st.step /\ run'.version = st.version
    BY <1>2, <1>5, <1>8, FinalStatuses, EndsReturns
  <2>2. Speaks(q, cs)
    BY <1>1, <1>4, <1>5, <2>1 DEF Speaks, Aux
  <2>3. Keeps
    BY <1>1, <1>2, <1>6, <2>1 DEF Keeps, Aux
  <2>4. QED BY <2>2, <2>3 DEF Shape
<1>9. CASE /\ q.origin = "model" /\ ValidRequirement(q) /\ cs = <<>>
           /\ Ends([st EXCEPT !.requirement = q], "suspended", Said, ctxDone)
  <2>1. PICK asked : asked = [st EXCEPT !.requirement = q]
    OBVIOUS
  <2>2. /\ asked \in StateType /\ asked.requirement = q /\ asked.step = st.step
        /\ asked.messages = st.messages /\ asked.version = st.version
    BY <1>5, <2>1 DEF StateType
  <2>3. /\ Returns(Said) /\ run' \in StateType /\ run'.status = "suspended"
        /\ run'.messages = st.messages /\ run'.step = st.step /\ run'.version = st.version
        /\ run'.requirement = q
    <3>1. Ends(asked, "suspended", Said, ctxDone)
      BY <1>9, <2>1
    <3>2. /\ Returns(Said) /\ run' \in StateType /\ run'.status = "suspended"
          /\ run'.messages = asked.messages /\ run'.step = asked.step
          /\ run'.version = asked.version /\ run'.requirement = asked.requirement
      BY <1>2, <2>2, <3>1, FinalStatuses, EndsReturns
    <3>3. QED BY <2>2, <3>2
  <2>4. Speaks(q, cs)
    BY <1>1, <1>4, <1>5, <1>9, <2>3 DEF Speaks, Aux
  <2>5. Keeps
    BY <1>1, <1>2, <1>6, <2>3 DEF Keeps, Aux
  <2>6. QED BY <2>4, <2>5 DEF Shape
<1>10. QED BY <1>3, <1>7, <1>8, <1>9

LEMMA ModelShape == LoopInv /\ (ModelRequires \/ ModelAnswers \/ ModelCalls) => Shape
<1> SUFFICES ASSUME LoopInv, ModelRequires \/ ModelAnswers \/ ModelCalls PROVE Shape
  OBVIOUS
<1>1. Thinks /\ UNCHANGED <<given, input, Aux>>
  BY DEF ModelRequires, ModelAnswers, ModelCalls
<1>2. CASE ModelRequires
  <2>1. PICK q \in ModelRequirements, cs \in CallLists \cup {<<>>} :
          \/ /\ cs = <<>> /\ q.origin = "model" /\ ValidRequirement(q)
             /\ Ends([Thought(q, cs) EXCEPT !.requirement = q], "suspended", Said, ctxDone)
          \/ Ends(Thought(q, cs), "failed", Said, ctxDone)
    BY <1>2 DEF ModelRequires
  <2>2. q \in RequirementSet
    BY DEF RequirementSet
  <2>3. QED BY <1>1, <2>1, <2>2, SpeakShape
<1>3. CASE ModelAnswers
  <2>1. Ends(Thought(NoRequirement, <<>>), "completed", Said, ctxDone)
    BY <1>3 DEF ModelAnswers
  <2>2. <<>> \in CallLists \cup {<<>>}
    OBVIOUS
  <2>3. QED BY <1>1, <2>1, <2>2, NothingRequired, SpeakShape
<1>4. CASE ModelCalls
  <2>1. PICK cs \in CallLists :
          \/ ShapeOK(cs) /\ Continues(Thought(NoRequirement, cs), cs, Said)
          \/ Ends(Thought(NoRequirement, cs), "failed", Said, ctxDone)
    BY <1>4 DEF ModelCalls
  <2>2. cs \in CallLists \cup {<<>>}
    OBVIOUS
  <2>3. QED BY <1>1, <2>1, <2>2, NothingRequired, SpeakShape
<1>5. QED BY <1>2, <1>3, <1>4

\* A call's result names the call.
LEMMA ResultNames ==
  ASSUME NEW k, NEW r
  PROVE  ResultOf(k, r) = Result(k.id, k.name) /\ Result(k.id, k.name).call = k.id
BY DEF ResultOf, Result

\* The three ways a call of the loop is answered.
LEMMA HearShape ==
  ASSUME LoopInv, pc = "acting", ~ctxDone, UNCHANGED <<given, input, approvals>>,
         NEW k, k = Head(calls), NEW x, x = Result(k.id, k.name),
         NEW q \in RequirementSet,
         \/ /\ q = NoRequirement /\ blocked' = blocked
            /\ Continues(Observed(x, q), Tail(calls), <<ToolEvent(run, x)>>)
         \/ /\ q = NoRequirement /\ blocked' = blocked
            /\ Ends(Observed(x, q), "failed", <<ToolEvent(run, x)>>, ctxDone)
         \/ /\ q.origin = "tool" /\ q.call = k.id /\ ValidRequirement(q) /\ blocked' = k
            /\ Ends([Observed(x, q) EXCEPT !.requirement = q], "suspended",
                    <<ToolEvent(run, x)>>, ctxDone)
  PROVE  Shape
<1>1. pc # "between" /\ pc # "entering"
  OBVIOUS
<1>2. run \in StateType /\ ctxDone \in BOOLEAN /\ run.status = "running"
  BY <1>1, Working
<1>3. k \in ToolCalls
  BY ActingFacts
<1>4. PICK st : st = Observed(x, q)
  OBVIOUS
<1>5. PICK es : es = <<ToolEvent(run, x)>> /\ es = Heard(k)
  BY DEF Heard
<1>6. PICK m : m = Observation(k.id, q)
  OBVIOUS
<1>7. /\ st \in StateType /\ st.status = "running" /\ st.messages = Append(run.messages, m)
      /\ st.step = run.step /\ st.version = run.version
  <2>1. x.call = k.id
    BY ResultNames
  <2>2. QED BY <1>2, <1>3, <1>4, <1>6, <2>1, ObservedTyped, ObservedVersion
<1>8. run.step >= run.step
  BY <1>2, StateFields
<1>9. CASE /\ q = NoRequirement /\ blocked' = blocked
           /\ Continues(st, Tail(calls), es)
  <2>1. Proceeds(Tail(calls), es) /\ run' = st
    BY <1>7, <1>9, ContinuesProceeds
  <2>2. Hears(k, q)
    BY <1>5, <1>6, <1>7, <1>9, <2>1 DEF Hears
  <2>3. Keeps
    BY <1>1, <1>2, <1>7, <1>8, <2>1 DEF Keeps
  <2>4. QED BY <1>3, <2>2, <2>3 DEF Shape
<1>10. CASE q = NoRequirement /\ blocked' = blocked /\ Ends(st, "failed", es, ctxDone)
  <2>1. /\ Returns(es) /\ run' \in StateType /\ run'.status = "failed"
        /\ run'.messages = st.messages /\ run'.step = st.step /\ run'.version = st.version
    BY <1>2, <1>7, <1>10, FinalStatuses, EndsReturns
  <2>2. Hears(k, q)
    BY <1>5, <1>6, <1>7, <1>10, <2>1 DEF Hears
  <2>3. Keeps
    BY <1>1, <1>2, <1>7, <1>8, <2>1 DEF Keeps
  <2>4. QED BY <1>3, <2>2, <2>3 DEF Shape
<1>11. CASE /\ q.origin = "tool" /\ q.call = k.id /\ ValidRequirement(q) /\ blocked' = k
            /\ Ends([st EXCEPT !.requirement = q], "suspended", es, ctxDone)
  <2>1. PICK asked : asked = [st EXCEPT !.requirement = q]
    OBVIOUS
  <2>2. /\ asked \in StateType /\ asked.requirement = q /\ asked.step = st.step
        /\ asked.messages = st.messages /\ asked.version = st.version
    BY <1>7, <2>1 DEF StateType
  <2>3. Ends(asked, "suspended", es, ctxDone)
    BY <1>11, <2>1
  <2>4. /\ Returns(es) /\ run' \in StateType /\ run'.status = "suspended"
        /\ run'.messages = asked.messages /\ run'.step = asked.step
        /\ run'.version = asked.version /\ run'.requirement = asked.requirement
    BY <1>2, <2>2, <2>3, FinalStatuses, EndsReturns
  <2>5. Hears(k, q)
    BY <1>5, <1>6, <1>7, <1>11, <2>2, <2>4 DEF Hears
  <2>6. Keeps
    BY <1>1, <1>2, <1>7, <1>8, <2>2, <2>4 DEF Keeps
  <2>7. QED BY <1>3, <2>5, <2>6 DEF Shape
<1>12. QED BY <1>4, <1>5, <1>9, <1>10, <1>11

LEMMA CutShape ==
  ASSUME LoopInv, pc \in {"replaying", "thinking", "acting"},
         UNCHANGED <<given, input, approvals, blocked>>,
         NEW status \in {"failed", "cancelled"}, NEW done \in BOOLEAN, ctxDone => done,
         Ends(run, status, <<>>, done)
  PROVE  Shape
<1>1. pc # "between"
  OBVIOUS
<1>2. run \in StateType /\ ctxDone \in BOOLEAN
  BY <1>1, Working
<1>3. /\ Returns(<<>>) /\ run' \in StateType /\ run'.status = status
      /\ run'.messages = run.messages /\ run'.step = run.step /\ run'.version = run.version
  BY <1>2, FinalStatuses, EndsReturns
<1>4. run.step >= run.step
  BY <1>2, StateFields
<1>5. Stops
  BY <1>3 DEF Stops
<1>6. Keeps
  BY <1>1, <1>2, <1>3, <1>4 DEF Keeps
<1>7. QED BY <1>5, <1>6 DEF Shape

LEMMA CallShape == LoopInv /\ (RefuseCall \/ ExecuteCall) => Shape
<1> SUFFICES ASSUME LoopInv, RefuseCall \/ ExecuteCall PROVE Shape
  OBVIOUS
<1>1. PICK k : k = Head(calls)
  OBVIOUS
<1>2. pc = "acting" /\ ~ctxDone /\ UNCHANGED <<given, input, approvals>>
  BY DEF RefuseCall, ExecuteCall, Aux
<1>3. k \in ToolCalls
  BY <1>1, <1>2, ActingFacts
<1>4. CASE RefuseCall
  <2>1. PICK x : x = Result(k.id, k.name)
    OBVIOUS
  <2>2. /\ Continues(Observed(x, NoRequirement), Tail(calls), <<ToolEvent(run, x)>>)
        /\ blocked' = blocked
    BY <1>1, <1>4, <2>1 DEF RefuseCall, Aux
  <2>3. x = Result(k.id, k.name) /\ x.call = k.id
    BY <2>1, ResultNames
  <2>4. QED BY <1>1, <1>2, <2>2, <2>3, NothingRequired, HearShape
<1>5. CASE ExecuteCall
  <2>1. PICK r \in ToolReturns(LoopOverride, k, FALSE) :
          LET q  == Bound(k, r.requirement)
              x  == ResultOf(k, r.result)
              es == <<ToolEvent(run, x)>>
          IN
          \/ /\ r.gives = "answer" /\ blocked' = blocked
             /\ Continues(Observed(x, NoRequirement), Tail(calls), es)
          \/ /\ r.gives = "suspend" /\ SuspendRequestOK(k, r.requirement) /\ blocked' = k
             /\ Ends([Observed(x, q) EXCEPT !.requirement = q], "suspended", es, ctxDone)
          \/ /\ r.gives = "suspend" /\ blocked' = blocked
             /\ Ends(Observed(x, NoRequirement), "failed", es, ctxDone)
          \/ /\ r.gives \in {"deadline", "interrupted"} /\ blocked' = blocked
             /\ Ends(run, "cancelled", <<>>, r.gives = "interrupted")
    BY <1>1, <1>5 DEF ExecuteCall
  <2>2. ReturnOK(LoopOverride, k, r)
    BY <1>3, ToolsOK
  <2>3. PICK x : x = ResultOf(k, r.result)
    OBVIOUS
  <2>4. x = Result(k.id, k.name) /\ x.call = k.id
    BY <2>3, ResultNames
  <2>5. PICK q : q = Bound(k, r.requirement)
    OBVIOUS
  <2>6. CASE /\ r.gives = "suspend" /\ SuspendRequestOK(k, r.requirement) /\ blocked' = k
             /\ Ends([Observed(x, q) EXCEPT !.requirement = q], "suspended",
                     <<ToolEvent(run, x)>>, ctxDone)
    <3>1. q \in RequirementSet /\ q.call = k.id
      BY <2>2, <2>5, <2>6 DEF ReturnOK
    <3>2. ValidRequirement(q) /\ q.origin = "tool"
      <4>1. ValidRequirement(q) /\ r.requirement.origin = "tool"
        BY <2>5, <2>6 DEF SuspendRequestOK
      <4>2. q.origin \in RequirementOrigins
        BY <4>1 DEF ValidRequirement
      <4>3. QED BY <2>5, <4>1, <4>2 DEF Bound, RequirementOrigins
    <3>3. QED BY <1>1, <1>2, <2>4, <2>6, <3>1, <3>2, HearShape
  <2>7. CASE /\ blocked' = blocked
             /\ \/ Continues(Observed(x, NoRequirement), Tail(calls), <<ToolEvent(run, x)>>)
                \/ Ends(Observed(x, NoRequirement), "failed", <<ToolEvent(run, x)>>, ctxDone)
    BY <1>1, <1>2, <2>4, <2>7, NothingRequired, HearShape
  <2>8. CASE /\ r.gives \in {"deadline", "interrupted"} /\ blocked' = blocked
             /\ Ends(run, "cancelled", <<>>, r.gives = "interrupted")
    <3>1. (r.gives = "interrupted") \in BOOLEAN
      OBVIOUS
    <3>2. QED BY <1>2, <2>8, <3>1, CutShape
  <2>9. QED BY <2>1, <2>3, <2>5, <2>6, <2>7, <2>8
<1>6. QED BY <1>4, <1>5

LEMMA ReplayShape == LoopInv /\ Replay => Shape
<1> SUFFICES ASSUME LoopInv, Replay PROVE Shape
  OBVIOUS
<1>1. PICK k : k = ReplayCall
  OBVIOUS
<1>2. /\ pc # "between" /\ pc # "entering" /\ pc = "replaying"
      /\ UNCHANGED <<given, input, approvals, blocked>>
  BY DEF Replay
<1>3. run \in StateType /\ run.status = "running" /\ ctxDone \in BOOLEAN
  BY <1>2, Working
<1>4. k \in ToolCalls
  <2>1. ToReplay
    BY <1>2 DEF LoopInv, ReplayOK, ToReplay
  <2>2. QED BY <1>1, <2>1, Redeemed
<1>5. PICK r \in ToolReturns(input.override, k, ctxDone) :
        \/ LET x == ResultOf(k, r.result) IN
           Continues(Observed(x, NoRequirement), <<>>, <<ToolEvent(run, x)>>)
        \/ Ends(run, "failed", <<>>, ctxDone)
        \/ Ends(run, "cancelled", <<>>, ctxDone)
        \/ Ends(run, "cancelled", <<>>, TRUE)
  BY <1>1 DEF Replay
<1>6. PICK x : x = ResultOf(k, r.result)
  OBVIOUS
<1>7. x = Result(k.id, k.name) /\ x.call = k.id
  BY <1>6, ResultNames
<1>8. CASE Continues(Observed(x, NoRequirement), <<>>, <<ToolEvent(run, x)>>)
  <2>1. PICK st : st = Observed(x, NoRequirement)
    OBVIOUS
  <2>2. PICK m : m = Observation(k.id, NoRequirement)
    OBVIOUS
  <2>3. /\ st \in StateType /\ st.status = "running" /\ st.messages = Append(run.messages, m)
        /\ st.step = run.step /\ st.version = run.version
    BY <1>3, <1>4, <1>7, <2>1, <2>2, NothingRequired, ObservedTyped, ObservedVersion
  <2>4. Proceeds(<<>>, <<ToolEvent(run, x)>>) /\ run' = st
    BY <1>8, <2>1, <2>3, ContinuesProceeds
  <2>5. run.step >= run.step
    BY <1>3, StateFields
  <2>6. Replays(k)
    BY <1>1, <1>2, <1>7, <2>2, <2>3, <2>4 DEF Replays, Heard
  <2>7. Keeps
    BY <1>2, <1>3, <2>3, <2>4, <2>5 DEF Keeps
  <2>8. QED BY <1>4, <2>6, <2>7 DEF Shape
<1>9. CASE \E status \in {"failed", "cancelled"} : Ends(run, status, <<>>, ctxDone)
  BY <1>2, <1>3, <1>9, CutShape
<1>10. CASE Ends(run, "cancelled", <<>>, TRUE)
  BY <1>2, <1>10, CutShape
<1>11. QED BY <1>5, <1>6, <1>8, <1>9, <1>10

\* Every step of the loop has one of the shapes.
LEMMA LoopShape == LoopInv /\ LoopStep => Shape
BY EnterShape, ReplayShape, ModelFailsShape, ModelShape, CallShape, StopShape DEF LoopStep

-----------------------------------------------------------------------------
(***************************************************************************)
(* The names of the calls.                                                 *)
(***************************************************************************)

\* A call with a name.
Titled(k) == k.name # ""

\* What is still to be answered has a name, and may be announced.
NamesOK ==
  /\ \A i \in DOMAIN calls : Titled(calls[i])
  /\ run.status = "suspended" /\ run.requirement.origin = "tool" => Titled(blocked)
  /\ ToReplay => Titled(Last(approvals))

\* A step to another execution, or a return, leaves no calls.
LEMMA NamesWithoutCalls ==
  ASSUME calls' = <<>>, ~ToReplay',
         run'.status = "suspended" /\ run'.requirement.origin = "tool" => Titled(blocked')
  PROVE  NamesOK'
<1>1. DOMAIN calls' = {}
  OBVIOUS
<1>2. QED BY <1>1 DEF NamesOK, Titled

LEMMA NamesLoop ==
  ASSUME LoopInv, NamesOK, LoopStep
  PROVE  NamesOK'
<1>1. Shape
  BY LoopShape
<1>2. Keeps
  BY <1>1 DEF Shape
<1>3. ASSUME NEW es, Returns(es),
             run'.status = "suspended" /\ run'.requirement.origin = "tool" => Titled(blocked')
      PROVE  NamesOK'
  <2>1. calls' = <<>> /\ ~ToReplay'
    BY <1>3 DEF Returns, ToReplay
  <2>2. QED BY <1>3, <2>1, NamesWithoutCalls
<1>4. ASSUME NEW cs, NEW es, Proceeds(cs, es), \A i \in DOMAIN cs : Titled(cs[i])
      PROVE  NamesOK'
  <2>1. calls' = cs /\ run'.status = "running" /\ ~ToReplay'
    BY <1>4 DEF Proceeds, ToReplay
  <2>2. QED BY <1>4, <2>1 DEF NamesOK, Titled
<1>5. CASE Enters
  <2>1. DOMAIN calls' = {} /\ run'.status = "running"
    BY <1>5 DEF Enters
  <2>2. ToReplay' => ToReplay /\ approvals' = approvals
    BY <1>2, <1>5 DEF Enters, Keeps, ToReplay, ReplayRequested
  <2>3. QED BY <2>1, <2>2 DEF NamesOK, Titled
<1>6. ASSUME NEW q \in RequirementSet, NEW cs \in CallLists \cup {<<>>}, Speaks(q, cs)
      PROVE  NamesOK'
  <2>1. CASE ShapeOK(cs) /\ Proceeds(cs, Said)
    BY <1>4, <2>1 DEF ShapeOK, Titled
  <2>2. CASE run'.status \in {"failed", "completed"} /\ Returns(Said)
    BY <1>3, <2>2
  <2>3. CASE run'.requirement = q /\ q.origin = "model" /\ Returns(Said)
    BY <1>3, <2>3
  <2>4. QED BY <1>6, <2>1, <2>2, <2>3 DEF Speaks
<1>7. ASSUME NEW k \in ToolCalls, NEW q \in RequirementSet, Hears(k, q)
      PROVE  NamesOK'
  <2>1. pc = "acting" /\ k = Head(calls)
    BY <1>7 DEF Hears
  <2>2. calls \in Seq(ToolCalls) /\ calls # <<>> /\ \A i \in DOMAIN calls : Titled(calls[i])
    BY <2>1 DEF LoopInv, LoopTyped, NamesOK
  <2>3. PICK s : s = calls
    OBVIOUS
  <2>4. Titled(Head(s)) /\ \A i \in DOMAIN Tail(s) : Titled(Tail(s)[i])
    <3>1. s \in Seq(ToolCalls) /\ s # <<>> /\ \A i \in DOMAIN s : Titled(s[i])
      BY <2>2, <2>3
    <3>2. Len(s) \in Nat /\ DOMAIN s = 1..Len(s) /\ Len(s) >= 1 /\ Head(s) = s[1]
      BY <3>1, HeadTailProperties, LenProperties, EmptySeq
    <3>3. /\ Tail(s) \in Seq(ToolCalls) /\ DOMAIN Tail(s) = 1..(Len(s) - 1)
          /\ \A i \in 1..(Len(s) - 1) : Tail(s)[i] = s[i + 1]
      BY <3>1, <3>2, HeadTailProperties, LenProperties
    <3>4. 1 \in DOMAIN s /\ \A i \in 1..(Len(s) - 1) : i + 1 \in DOMAIN s
      BY <3>2
    <3>5. QED BY <3>1, <3>2, <3>3, <3>4
  <2>5. CASE Proceeds(Tail(calls), Heard(k))
    BY <1>4, <2>3, <2>4, <2>5
  <2>6. CASE run'.status = "failed" /\ Returns(Heard(k))
    BY <1>3, <2>6
  <2>7. CASE blocked' = k /\ Returns(Heard(k))
    BY <1>3, <2>1, <2>3, <2>4, <2>7
  <2>8. QED BY <1>7, <2>5, <2>6, <2>7 DEF Hears
<1>8. ASSUME NEW k \in ToolCalls, Replays(k)
      PROVE  NamesOK'
  <2>1. Proceeds(<<>>, Heard(k)) /\ DOMAIN <<>> = {}
    BY <1>8 DEF Replays
  <2>2. QED BY <1>4, <2>1
<1>9. CASE Stops
  BY <1>3, <1>9 DEF Stops
<1>10. QED BY <1>1, <1>5, <1>6, <1>7, <1>8, <1>9 DEF Shape

LEMMA NamesNext ==
  ASSUME LoopInv, NamesOK, [Next]_vars
  PROVE  NamesOK'
<1>1. CASE LoopStep
  BY <1>1, NamesLoop
<1>2. CASE Carry
  <2>1. PICK max \in MaxSteps, said \in {<<>>, <<UserMessage>>} :
          HandOver([run EXCEPT !.messages = @ \o said], [NoInput EXCEPT !.max = max])
    BY <1>2 DEF Carry
  <2>2. PICK st : st = [run EXCEPT !.messages = run.messages \o said]
    OBVIOUS
  <2>3. run \in StateType /\ run.status # "suspended"
    BY <1>2 DEF Carry, LoopInv, LoopTyped
  <2>4. HandOver(st, [NoInput EXCEPT !.max = max])
    BY <2>1, <2>2
  <2>5. calls' = <<>> /\ run' = [st EXCEPT !.version = run.version + 1]
        /\ input' = [NoInput EXCEPT !.max = max]
    BY <2>4 DEF HandOver
  <2>6. run'.status = run.status
    BY <2>2, <2>3, <2>5 DEF StateType
  <2>7. ~ToReplay'
    BY <2>5 DEF ToReplay, ReplayRequested, NoInput, NoRequirement
  <2>8. QED BY <2>3, <2>5, <2>6, <2>7, NamesWithoutCalls
<1>3. CASE Resume
  <2>1. PICK max \in MaxSteps, outcome \in OutcomesOf(run.requirement.kind) :
          LET q == run.requirement
              approved == q.origin = "tool" /\ outcome = "approved"
          IN /\ HandOver([run EXCEPT !.status = "running", !.requirement = NoRequirement],
                         [max |-> max, resolved |-> q,
                          resolution |-> [req |-> q.id, kind |-> q.kind, outcome |-> outcome],
                          override |-> IF approved THEN Override(q) ELSE NoOverride])
             /\ approvals' = IF approved THEN Append(approvals, blocked) ELSE approvals
    BY <1>3 DEF Resume
  <2>2. PICK st : st = [run EXCEPT !.status = "running", !.requirement = NoRequirement]
    OBVIOUS
  <2>3. /\ run \in StateType /\ run.status = "suspended"
        /\ approvals \in Seq(ToolCalls)
    BY <1>3 DEF Resume, LoopInv, LoopTyped
  <2>4. DOMAIN calls' = {} /\ run' = [st EXCEPT !.version = run.version + 1]
        /\ input'.resolved = run.requirement /\ input'.resolution.outcome = outcome
    BY <2>1, <2>2 DEF HandOver
  <2>5. run'.status = "running"
    BY <2>2, <2>3, <2>4 DEF StateType
  <2>6. ASSUME ToReplay'
        PROVE  Titled(Last(approvals'))
    <3>1. run.requirement.origin = "tool" /\ outcome = "approved"
      BY <2>4, <2>6 DEF ToReplay, ReplayRequested
    <3>2. approvals' = Append(approvals, blocked) /\ Titled(blocked)
      BY <2>1, <2>3, <3>1 DEF NamesOK
    <3>3. blocked \in ToolCalls
      BY <2>3, <3>1 DEF LoopInv, BlockedOK
    <3>4. PICK s : s = approvals'
      OBVIOUS
    <3>5. Last(s) = blocked
      BY <2>3, <3>2, <3>3, <3>4, LastAppend
    <3>6. QED BY <3>2, <3>4, <3>5
  <2>7. QED BY <2>4, <2>5, <2>6 DEF NamesOK, Titled
<1>4. CASE EndContext \/ Quiet \/ UNCHANGED vars
  BY <1>4 DEF EndContext, Quiet, vars, Aux, NamesOK, Titled, ToReplay, ReplayRequested
<1>5. QED BY <1>1, <1>2, <1>3, <1>4 DEF Next

LEMMA NamesInit == Init => NamesOK
<1> SUFFICES ASSUME Init PROVE NamesOK
  OBVIOUS
<1>1. DOMAIN calls = {} /\ run.status = "pending" /\ ~ToReplay
  BY DEF Init, ToReplay
<1>2. QED BY <1>1 DEF NamesOK

-----------------------------------------------------------------------------
(***************************************************************************)
(* What a transcript and a list of events show.                            *)
(***************************************************************************)

Shown(m) == <<IF m.role = "assistant" THEN "assistant_message" ELSE "tool_result", m.call>>

EventShown(e) == <<e.type, e.result.call>>

\* The messages behind the first n.
Story(ms, n) ==
  LET told == SubSeq(ms, n + 1, Len(ms)) IN [i \in DOMAIN told |-> Shown(told[i])]

Shows(es) == [i \in DOMAIN es |-> EventShown(es[i])]

ShownType == EventTypes \X CallIDs

\* The events that the loop publishes.
EventSet ==
  [run : {"run"}, step : Nat, type : EventTypes, command : {""}, message : BOOLEAN,
   result : [there : BOOLEAN, call : CallIDs, name : {k.name : k \in ToolCalls} \cup {""}]]

LEMMA ShownTyped ==
  ASSUME NEW m \in MessageType
  PROVE  Shown(m) \in ShownType
BY DEF Shown, ShownType, MessageType, EventTypes

LEMMA EventShownTyped ==
  ASSUME NEW e \in EventSet
  PROVE  EventShown(e) \in ShownType
BY DEF EventShown, ShownType, EventSet

LEMMA StoryTyped ==
  ASSUME NEW ms \in Seq(MessageType), NEW n \in Nat, n <= Len(ms)
  PROVE  /\ Story(ms, n) \in Seq(ShownType) /\ Len(Story(ms, n)) = Len(ms) - n
         /\ \A i \in 1..(Len(ms) - n) : Story(ms, n)[i] = Shown(ms[n + i])
<1>1. Len(ms) \in Nat
  BY LenProperties
<1>2. PICK len \in Nat : len = Len(ms) - n
  BY <1>1
<1>3. PICK told : told = SubSeq(ms, n + 1, Len(ms))
  OBVIOUS
<1>4. \A i \in (n + 1)..Len(ms) : ms[i] \in MessageType
  BY <1>1, ElementOfSeq
<1>5. /\ told \in Seq(MessageType) /\ Len(told) = len
      /\ \A i \in 1..len : told[i] = ms[n + i]
  <2>1. PICK b : b = n + 1
    OBVIOUS
  <2>2. b \in Int /\ Len(ms) \in Int
    BY <1>1, <2>1
  <2>3. /\ SubSeq(ms, b, Len(ms)) \in Seq(MessageType)
        /\ Len(SubSeq(ms, b, Len(ms))) = IF b <= Len(ms) THEN Len(ms) - b + 1 ELSE 0
        /\ \A i \in 1..(Len(ms) - b + 1) : SubSeq(ms, b, Len(ms))[i] = ms[b + i - 1]
    BY <1>4, <2>1, <2>2, SubSeqProperties
  <2>4. Len(ms) - b + 1 = len /\ (b <= Len(ms) \/ len = 0)
    BY <1>1, <1>2, <2>1
  <2>5. \A i \in 1..len : b + i - 1 = n + i
    BY <1>1, <1>2, <2>1
  <2>6. Len(told) = len
    BY <1>2, <1>3, <2>1, <2>3, <2>4
  <2>7. QED BY <1>3, <2>1, <2>3, <2>4, <2>5, <2>6
<1>6. DOMAIN told = 1..len
  BY <1>5, LenProperties
<1>7. PICK story : story = Story(ms, n)
  OBVIOUS
<1>8. story = [i \in 1..len |-> Shown(told[i])]
  BY <1>3, <1>6, <1>7 DEF Story
<1>9. \A i \in 1..len : story[i] \in ShownType /\ story[i] = Shown(ms[n + i])
  <2>1. TAKE i \in 1..len
  <2>2. told[i] \in MessageType
    BY <1>5, ElementOfSeq
  <2>3. QED BY <1>5, <1>8, <2>2, ShownTyped
<1>10. story \in Seq(ShownType) /\ Len(story) = len
  <2> HIDE DEF ShownType
  <2>1. story \in [1..len -> ShownType]
    BY <1>8, <1>9
  <2>2. QED BY <2>1
<1>11. QED BY <1>2, <1>7, <1>9, <1>10

LEMMA StoryAppend ==
  ASSUME NEW ms \in Seq(MessageType), NEW m \in MessageType, NEW n \in Nat, n <= Len(ms)
  PROVE  Story(Append(ms, m), n) = Append(Story(ms, n), Shown(m))
<1>1. PICK us : us = Append(ms, m)
  OBVIOUS
<1>2. /\ us \in Seq(MessageType) /\ Len(us) = Len(ms) + 1 /\ Len(ms) \in Nat
      /\ us[Len(ms) + 1] = m /\ \A i \in 1..Len(ms) : us[i] = ms[i]
  BY <1>1, AppendProperties, LenProperties
<1>3. PICK s : s = Story(ms, n)
  OBVIOUS
<1>4. PICK t : t = Story(us, n)
  OBVIOUS
<1>5. /\ s \in Seq(ShownType) /\ Len(s) = Len(ms) - n
      /\ \A i \in 1..(Len(ms) - n) : s[i] = Shown(ms[n + i])
  BY <1>3, StoryTyped
<1>6. /\ t \in Seq(ShownType) /\ Len(t) = Len(us) - n
      /\ \A i \in 1..(Len(us) - n) : t[i] = Shown(us[n + i])
  <2>1. n <= Len(us)
    BY <1>2
  <2>2. QED BY <1>2, <1>4, <2>1, StoryTyped
<1>7. PICK x : x = Shown(m)
  OBVIOUS
<1>8. x \in ShownType
  BY <1>7, ShownTyped
<1>9. PICK r : r = Append(s, x)
  OBVIOUS
<1>10. /\ r \in Seq(ShownType) /\ Len(r) = Len(s) + 1
       /\ r[Len(s) + 1] = x /\ \A i \in 1..Len(s) : r[i] = s[i]
  BY <1>5, <1>8, <1>9, AppendProperties
<1>11. \A i \in 1..Len(t) : t[i] = r[i]
  <2>1. TAKE i \in 1..Len(t)
  <2>2. t[i] = Shown(us[n + i])
    BY <1>6
  <2>3. CASE i \in 1..Len(s)
    <3>1. n + i \in 1..Len(ms)
      BY <1>2, <1>5, <2>3
    <3>2. QED BY <1>2, <1>5, <1>10, <2>2, <2>3, <3>1
  <2>4. CASE i = Len(s) + 1
    <3>1. n + i = Len(ms) + 1
      BY <1>2, <1>5, <2>4
    <3>2. QED BY <1>2, <1>7, <1>10, <2>2, <2>4, <3>1
  <2>5. QED BY <1>2, <1>5, <1>6, <2>1, <2>3, <2>4
<1>12. Len(t) = Len(r)
  BY <1>2, <1>5, <1>6, <1>10
<1>13. t = r
  <2> HIDE DEF ShownType
  <2>1. QED BY <1>6, <1>10, <1>11, <1>12, SeqEqual
<1>14. QED BY <1>1, <1>3, <1>4, <1>7, <1>9, <1>13

LEMMA ShowsTyped ==
  ASSUME NEW es \in Seq(EventSet)
  PROVE  /\ Shows(es) \in Seq(ShownType) /\ Len(Shows(es)) = Len(es)
         /\ \A i \in 1..Len(es) : Shows(es)[i] = EventShown(es[i])
<1>1. Len(es) \in Nat /\ DOMAIN es = 1..Len(es)
  BY LenProperties
<1>2. \A i \in 1..Len(es) : EventShown(es[i]) \in ShownType
  BY <1>1, ElementOfSeq, EventShownTyped
<1>3. PICK s : s = Shows(es)
  OBVIOUS
<1>4. s = [i \in 1..Len(es) |-> EventShown(es[i])]
  BY <1>1, <1>3 DEF Shows
<1>5. s \in [1..Len(es) -> ShownType]
  BY <1>2, <1>4
<1>6. s \in Seq(ShownType) /\ Len(s) = Len(es)
  <2> HIDE DEF ShownType, EventSet
  <2>1. QED BY <1>1, <1>5
<1>7. QED BY <1>3, <1>4, <1>6

LEMMA ShowsConcat ==
  ASSUME NEW es \in Seq(EventSet), NEW fs \in Seq(EventSet)
  PROVE  Shows(es \o fs) = Shows(es) \o Shows(fs)
<1>1. PICK all : all = es \o fs
  OBVIOUS
<1>2. /\ all \in Seq(EventSet) /\ Len(all) = Len(es) + Len(fs)
      /\ \A i \in 1..(Len(es) + Len(fs)) : all[i] = IF i <= Len(es) THEN es[i]
                                                                   ELSE fs[i - Len(es)]
  BY <1>1, ConcatProperties
<1>3. PICK s : s = Shows(es)
  OBVIOUS
<1>4. PICK t : t = Shows(fs)
  OBVIOUS
<1>5. PICK a : a = Shows(all)
  OBVIOUS
<1>6. /\ s \in Seq(ShownType) /\ Len(s) = Len(es) /\ Len(es) \in Nat
      /\ \A i \in 1..Len(es) : s[i] = EventShown(es[i])
  BY <1>3, ShowsTyped, LenProperties
<1>7. /\ t \in Seq(ShownType) /\ Len(t) = Len(fs) /\ Len(fs) \in Nat
      /\ \A i \in 1..Len(fs) : t[i] = EventShown(fs[i])
  BY <1>4, ShowsTyped, LenProperties
<1>8. /\ a \in Seq(ShownType) /\ Len(a) = Len(all)
      /\ \A i \in 1..Len(all) : a[i] = EventShown(all[i])
  BY <1>2, <1>5, ShowsTyped
<1>9. PICK r : r = s \o t
  OBVIOUS
<1>10. /\ r \in Seq(ShownType) /\ Len(r) = Len(s) + Len(t)
       /\ \A i \in 1..(Len(s) + Len(t)) : r[i] = IF i <= Len(s) THEN s[i] ELSE t[i - Len(s)]
  BY <1>6, <1>7, <1>9, ConcatProperties
<1>11. Len(a) = Len(r)
  BY <1>2, <1>6, <1>7, <1>8, <1>10
<1>12. \A i \in 1..Len(a) : a[i] = r[i]
  <2>1. TAKE i \in 1..Len(a)
  <2>2. CASE i <= Len(es)
    <3>1. i \in 1..Len(es) /\ i \in 1..Len(all) /\ i \in 1..(Len(s) + Len(t))
      BY <1>2, <1>6, <1>7, <1>8, <2>2
    <3>2. a[i] = EventShown(es[i])
      BY <1>2, <1>6, <1>7, <1>8, <2>2, <3>1
    <3>3. r[i] = s[i]
      BY <1>6, <1>10, <2>2, <3>1
    <3>4. QED BY <1>6, <3>1, <3>2, <3>3
  <2>3. CASE ~(i <= Len(es))
    <3>1. i - Len(es) \in 1..Len(fs) /\ i \in 1..Len(all)
      BY <1>2, <1>6, <1>7, <1>8, <2>3
    <3>2. QED BY <1>2, <1>6, <1>7, <1>8, <1>10, <2>3, <3>1
  <2>4. QED BY <2>2, <2>3
<1>13. a = r
  <2> HIDE DEF ShownType
  <2>1. QED BY <1>8, <1>10, <1>11, <1>12, SeqEqual
<1>14. QED BY <1>1, <1>3, <1>4, <1>5, <1>9, <1>13

\* What one event shows, and none.
LEMMA ShowsFew ==
  ASSUME NEW e \in EventSet
  PROVE  Shows(<<>>) = <<>> /\ Shows(<<e>>) = <<EventShown(e)>>
<1>1. <<>> \in Seq(EventSet) /\ <<e>> \in Seq(EventSet) /\ <<e>>[1] = e
  OBVIOUS
<1>2. PICK s : s = Shows(<<>>)
  OBVIOUS
<1>3. PICK t : t = Shows(<<e>>)
  OBVIOUS
<1>4. PICK n : n = Len(<<>>)
  OBVIOUS
<1>5. n = 0
  BY <1>4
<1>6. s \in Seq(ShownType) /\ Len(s) = 0
  BY <1>1, <1>2, <1>4, <1>5, ShowsTyped
<1>7. PICK one : one = <<e>>
  OBVIOUS
<1>8. one \in Seq(EventSet) /\ Len(one) = 1 /\ one[1] = e
  BY <1>7
<1>9. t \in Seq(ShownType) /\ Len(t) = 1 /\ t[1] = EventShown(e)
  <2>1. /\ t \in Seq(ShownType) /\ Len(t) = Len(one)
        /\ \A i \in 1..Len(one) : t[i] = EventShown(one[i])
    BY <1>3, <1>7, <1>8, ShowsTyped
  <2>2. 1 \in 1..Len(one)
    BY <1>8
  <2>3. QED BY <1>8, <2>1, <2>2
<1>10. PICK x : x = EventShown(e)
  OBVIOUS
<1>11. x \in ShownType
  BY <1>10, EventShownTyped
<1> HIDE DEF ShownType
<1>12. s = <<>>
  BY <1>6, EmptySeq
<1>13. t = <<x>>
  BY <1>9, <1>10, <1>11
<1>14. QED BY <1>2, <1>3, <1>10, <1>12, <1>13

\* Sequences of one and of two elements.
LEMMA OneElement ==
  ASSUME NEW S, NEW s \in Seq(S), Len(s) = 1
  PROVE  s[1] \in S /\ s = <<s[1]>> /\ <<s[1]>> \in Seq(S)
<1>1. s[1] \in S
  BY ElementOfSeq
<1>2. PICK t : t = <<s[1]>>
  OBVIOUS
<1>3. t \in Seq(S) /\ Len(t) = 1 /\ t[1] = s[1]
  BY <1>1, <1>2
<1>4. \A i \in 1..1 : i = 1
  OBVIOUS
<1>5. Len(s) = Len(t) /\ \A i \in 1..Len(s) : s[i] = t[i]
  BY <1>3, <1>4
<1>6. s = t
  BY <1>3, <1>5, SeqEqual
<1>7. QED BY <1>1, <1>2, <1>3, <1>6

LEMMA TwoElements ==
  ASSUME NEW S, NEW s \in Seq(S), Len(s) = 2
  PROVE  /\ s[1] \in S /\ s[2] \in S /\ <<s[1]>> \in Seq(S)
         /\ s = Append(<<s[1]>>, s[2]) /\ s = <<s[1]>> \o <<s[2]>>
<1>1. s[1] \in S /\ s[2] \in S
  <2>1. 1 \in 1..Len(s) /\ 2 \in 1..Len(s)
    OBVIOUS
  <2>2. QED BY <2>1, ElementOfSeq
<1>2. PICK t : t = <<s[1]>>
  OBVIOUS
<1>3. t \in Seq(S) /\ Len(t) = 1 /\ t[1] = s[1]
  BY <1>1, <1>2
<1>4. PICK u : u = Append(t, s[2])
  OBVIOUS
<1>5. u \in Seq(S) /\ Len(u) = 2 /\ u[1] = s[1] /\ u[2] = s[2]
  <2>1. /\ u \in Seq(S) /\ Len(u) = Len(t) + 1 /\ u[Len(t) + 1] = s[2]
        /\ \A i \in 1..Len(t) : u[i] = t[i]
    BY <1>1, <1>3, <1>4, AppendProperties
  <2>2. 1 \in 1..Len(t) /\ Len(t) + 1 = 2
    BY <1>3
  <2>3. QED BY <1>3, <2>1, <2>2
<1>6. \A i \in 1..2 : i = 1 \/ i = 2
  OBVIOUS
<1>7. Len(s) = Len(u) /\ \A i \in 1..Len(s) : s[i] = u[i]
  BY <1>5, <1>6
<1>8. s = u
  BY <1>5, <1>7, SeqEqual
<1>9. u = t \o <<s[2]>>
  BY <1>1, <1>3, <1>4, AppendIsConcat
<1>10. QED BY <1>1, <1>2, <1>3, <1>4, <1>8, <1>9

\* The concatenation of up to two sequences.
LEMMA FlattenFew ==
  ASSUME NEW T, NEW s \in Seq(Seq(T))
  PROVE  /\ Len(s) = 0 => FlattenSeq(s) = <<>>
         /\ Len(s) = 1 => FlattenSeq(s) = s[1]
         /\ Len(s) = 2 => FlattenSeq(s) = s[1] \o s[2]
<1>1. <<>> \in Seq(Seq(T)) /\ <<>> \in Seq(T)
  OBVIOUS
<1>2. FlattenSeq(<<>>) = <<>>
  BY <1>1, FlattenAppend
<1>3. PICK U : U = Seq(T)
  OBVIOUS
<1>4. s \in Seq(U)
  BY <1>3
<1>5. CASE Len(s) = 0
  <2>1. s = <<>>
    BY <1>4, <1>5, EmptySeq
  <2>2. QED BY <1>2, <1>5, <2>1
<1>6. ASSUME NEW a \in Seq(T)
      PROVE  FlattenSeq(<<a>>) = a
  <2>1. FlattenSeq(Append(<<>>, a)) = FlattenSeq(<<>>) \o a
    BY <1>1, <1>2, FlattenAppend
  <2>2. <<>> \o a = a
    BY ConcatEmptySeq
  <2>3. Append(<<>>, a) = <<a>>
    OBVIOUS
  <2>4. QED BY <1>2, <2>1, <2>2, <2>3
<1>7. CASE Len(s) = 1
  <2>1. s[1] \in U /\ s = <<s[1]>>
    BY <1>4, <1>7, OneElement
  <2>2. PICK a : a = s[1]
    OBVIOUS
  <2>3. FlattenSeq(<<a>>) = a
    BY <1>3, <1>6, <2>1, <2>2
  <2>4. FlattenSeq(s) = s[1]
    BY <2>1, <2>2, <2>3
  <2>5. QED BY <1>7, <2>4
<1>8. CASE Len(s) = 2
  <2>1. s[1] \in U /\ s[2] \in U /\ <<s[1]>> \in Seq(U) /\ s = Append(<<s[1]>>, s[2])
    BY <1>4, <1>8, TwoElements
  <2>2. PICK a : a = s[1]
    OBVIOUS
  <2>3. PICK b : b = s[2]
    OBVIOUS
  <2>4. PICK t : t = <<a>>
    OBVIOUS
  <2>5. FlattenSeq(t) = a /\ a \in Seq(T) /\ b \in Seq(T) /\ t \in Seq(Seq(T))
    BY <1>3, <1>6, <2>1, <2>2, <2>3, <2>4
  <2>6. FlattenSeq(Append(t, b)) = FlattenSeq(t) \o b
    BY <2>5, FlattenAppend
  <2>7. FlattenSeq(s) = s[1] \o s[2]
    BY <2>1, <2>2, <2>3, <2>4, <2>5, <2>6
  <2>8. QED BY <1>8, <2>7
<1>9. QED BY <1>5, <1>7, <1>8

\* A sink that refuses nothing of its own has all of the events, or none once the context
\* has ended.
LEMMA PublishedWhole ==
  ASSUME ~SinkMayFail, NEW done \in BOOLEAN, NEW es \in Seq(EventSet), Len(es) <= 2,
         \A i \in DOMAIN es : ValidEvent(es[i]),
         events \in Seq(EventSet), refused \in BOOLEAN, Publishes(es, done)
  PROVE  IF done THEN events' = events /\ (refused' <=> refused \/ es # <<>>)
                 ELSE events' = events \o es /\ (refused' <=> refused)
<1>1. /\ Len(es) \in Nat /\ DOMAIN es = 1..Len(es)
  BY LenProperties
<1>2. PICK told : /\ \A i \in DOMAIN es : told[i] \in Published(es[i], done)
                  /\ \E U : told \in [DOMAIN es -> U]
                  /\ events' = events \o FlattenSeq(told)
                  /\ refused' = (refused \/ \E i \in DOMAIN es : told[i] = <<>>)
  BY DEF Publishes
<1>3. \A i \in 1..Len(es) : told[i] = IF done THEN <<>> ELSE <<es[i]>>
  <2>1. TAKE i \in 1..Len(es)
  <2>2. told[i] \in Published(es[i], done) /\ ValidEvent(es[i])
    BY <1>1, <1>2
  <2>3. PICK e : e = es[i]
    OBVIOUS
  <2>4. Published(e, done) = IF done THEN {<<>>} ELSE {<<e>>}
    BY <2>2, <2>3 DEF Published
  <2>5. QED BY <2>2, <2>3, <2>4
<1>4. \A i \in 1..Len(es) : es[i] \in EventSet
  BY <1>1, ElementOfSeq
<1> HIDE DEF EventSet
<1>5. \A i \in 1..Len(es) : told[i] \in Seq(EventSet)
  <2>1. TAKE i \in 1..Len(es)
  <2>2. PICK e \in EventSet : e = es[i]
    BY <1>4
  <2>3. <<e>> \in Seq(EventSet) /\ <<>> \in Seq(EventSet)
    OBVIOUS
  <2>4. QED BY <1>3, <2>2, <2>3
<1>6. told \in [1..Len(es) -> Seq(EventSet)]
  BY <1>1, <1>2, <1>5
<1>7. told \in Seq(Seq(EventSet)) /\ Len(told) = Len(es)
  BY <1>1, <1>6
<1>8. CASE Len(es) = 0
  <2>1. es = <<>>
    BY <1>8, EmptySeq
  <2>2. FlattenSeq(told) = <<>>
    BY <1>7, <1>8, FlattenFew
  <2>3. events \o <<>> = events
    BY ConcatEmptySeq
  <2>4. DOMAIN es = {}
    BY <1>1, <1>8
  <2>5. QED BY <1>2, <2>1, <2>2, <2>3, <2>4
<1>9. CASE Len(es) = 1
  <2>1. FlattenSeq(told) = told[1]
    BY <1>7, <1>9, FlattenFew
  <2>2. es # <<>> /\ es = <<es[1]>> /\ 1 \in DOMAIN es /\ 1 \in 1..Len(es)
    <3>1. 1 \in 1..Len(es) /\ 1 \in DOMAIN es
      BY <1>1, <1>9
    <3>2. es = <<es[1]>>
      BY <1>9, OneElement
    <3>3. es # <<>>
      <4>1. PICK n : n = Len(<<>>)
        OBVIOUS
      <4>2. n = 0
        BY <4>1
      <4>3. QED BY <1>9, <4>1, <4>2
    <3>4. QED BY <3>1, <3>2, <3>3
  <2>3. told[1] = IF done THEN <<>> ELSE es
    <3>1. told[1] = IF done THEN <<>> ELSE <<es[1]>>
      BY <1>3, <2>2
    <3>2. QED BY <2>2, <3>1
  <2>4. events \o <<>> = events
    BY ConcatEmptySeq
  <2>5. (\E i \in DOMAIN es : told[i] = <<>>) <=> done
    <3>1. \A i \in DOMAIN es : <<es[i]>> # <<>>
      OBVIOUS
    <3>2. \A i \in DOMAIN es : (told[i] = <<>>) <=> done
      BY <1>1, <1>3, <3>1
    <3>3. 1 \in DOMAIN es
      BY <1>1, <2>2
    <3>4. QED BY <3>2, <3>3
  <2>6. QED BY <1>2, <2>1, <2>2, <2>3, <2>4, <2>5
<1>10. CASE Len(es) = 2
  <2>1. FlattenSeq(told) = told[1] \o told[2]
    BY <1>7, <1>10, FlattenFew
  <2>2. es # <<>> /\ es = <<es[1]>> \o <<es[2]>> /\ 1 \in 1..Len(es) /\ 2 \in 1..Len(es)
    <3>1. 1 \in 1..Len(es) /\ 2 \in 1..Len(es)
      BY <1>1, <1>10
    <3>2. es = <<es[1]>> \o <<es[2]>>
      BY <1>10, TwoElements
    <3>3. es # <<>>
      BY <1>10, EmptySeq
    <3>4. QED BY <3>1, <3>2, <3>3
  <2>3. told[1] \o told[2] = IF done THEN <<>> ELSE es
    <3>1. <<>> \o <<>> = <<>>
      OBVIOUS
    <3>2. QED BY <1>3, <2>2, <3>1
  <2>4. events \o <<>> = events
    BY ConcatEmptySeq
  <2>5. (\E i \in DOMAIN es : told[i] = <<>>) <=> done
    <3>1. \A i \in DOMAIN es : <<es[i]>> # <<>>
      OBVIOUS
    <3>2. \A i \in DOMAIN es : (told[i] = <<>>) <=> done
      BY <1>1, <1>3, <3>1
    <3>3. 1 \in DOMAIN es
      BY <1>1, <2>2
    <3>4. QED BY <3>2, <3>3
  <2>6. QED BY <1>2, <2>1, <2>2, <2>3, <2>4, <2>5
<1>11. QED BY <1>1, <1>8, <1>9, <1>10

-----------------------------------------------------------------------------
(***************************************************************************)
(* The events of an execution.                                             *)
(***************************************************************************)

\* The messages that the execution did not add.
Start ==
  Len(given.messages) + (IF pc # "entering" /\ input.resolution # NoResolution THEN 1 ELSE 0)

Ending == IF pc = "between" THEN FinalEvents(run) ELSE <<>>

\* All that there is to tell of the execution.
Tale == Story(run.messages, Start) \o Shows(Ending)

\* What was told of the execution, in order, and what was cut off.
Mirrored ==
  /\ events \in Seq(EventSet)
  /\ Start <= Len(run.messages)
  /\ pc = "entering" => Len(run.messages) = Len(given.messages)
  /\ \E rest \in Seq(ShownType) :
       Tale = Shows(events) \o rest /\ (refused <=> rest # <<>>)
  /\ refused => ctxDone

LEMMA FinalEventsTyped ==
  ASSUME NEW st \in StateType
  PROVE  /\ FinalEvents(st) \in Seq(EventSet) /\ Len(FinalEvents(st)) <= 1
         /\ \A i \in DOMAIN FinalEvents(st) : ValidEvent(FinalEvents(st)[i])
         /\ st.status \notin Terminal \cup {"max_steps_exceeded"} => FinalEvents(st) = <<>>
<1>1. st.id = "run" /\ st.step \in Nat
  BY DEF StateType
<1>2. ASSUME NEW type \in {"run_completed", "run_failed", "run_cancelled"},
             FinalEvents(st) = [i \in DOMAIN <<type>> |-> Event(st.id, st.step, <<type>>[i])]
      PROVE  /\ FinalEvents(st) \in Seq(EventSet) /\ Len(FinalEvents(st)) <= 1
             /\ \A i \in DOMAIN FinalEvents(st) : ValidEvent(FinalEvents(st)[i])
  <2>1. PICK e : e = Event("run", st.step, type)
    OBVIOUS
  <2>2. e \in EventSet
    BY <1>1, <2>1 DEF EventSet, Event, EventTypes, NoResult, CallIDs
  <2>3. ValidEvent(e)
    <3>1. st.step >= 0
      BY <1>1
    <3>2. /\ e.type = type /\ e.run = "run" /\ e.step >= 0 /\ e.command = ""
          /\ e.message = FALSE /\ e.result.there = FALSE
      BY <2>1, <3>1 DEF Event, NoResult
    <3>3. QED BY <3>2 DEF ValidEvent, EventTypes
  <2>4. DOMAIN <<type>> = 1..1 /\ \A i \in 1..1 : <<type>>[i] = type
    OBVIOUS
  <2>5. FinalEvents(st) = [i \in 1..1 |-> e]
    BY <1>1, <1>2, <2>1, <2>4
  <2>6. PICK s : s = FinalEvents(st)
    OBVIOUS
  <2>7. s \in Seq(EventSet) /\ Len(s) = 1 /\ \A i \in DOMAIN s : s[i] = e
    <3> HIDE DEF EventSet
    <3>1. QED BY <2>2, <2>5, <2>6
  <2>8. QED BY <2>3, <2>6, <2>7
<1>3. ASSUME FinalEvents(st) = [i \in DOMAIN <<>> |-> Event(st.id, st.step, <<>>[i])]
      PROVE  FinalEvents(st) = <<>>
  <2>1. DOMAIN <<>> = 1..0
    OBVIOUS
  <2>2. QED BY <1>3, <2>1
<1>4. FinalEvents(st) = <<>> =>
        /\ FinalEvents(st) \in Seq(EventSet) /\ Len(FinalEvents(st)) <= 1
        /\ \A i \in DOMAIN FinalEvents(st) : ValidEvent(FinalEvents(st)[i])
  <2>1. DOMAIN <<>> = {} /\ Len(<<>>) <= 1 /\ <<>> \in Seq(EventSet)
    OBVIOUS
  <2>2. QED BY <2>1
<1>5. CASE st.status \in Terminal \cup {"max_steps_exceeded"}
  BY <1>2, <1>5 DEF FinalEvents, Terminal
<1>6. CASE st.status \notin Terminal \cup {"max_steps_exceeded"}
  <2>1. FinalEvents(st) = <<>>
    BY <1>3, <1>6 DEF FinalEvents, Terminal
  <2>2. QED BY <1>4, <1>6, <2>1
<1>7. QED BY <1>5, <1>6

\* The event of an assistant message shows it.
LEMMA SaidShows ==
  ASSUME run \in StateType, NEW q, NEW cs
  PROVE  \E e \in EventSet : /\ Said = <<e>> /\ ValidEvent(e)
                             /\ EventShown(e) = Shown(Assistant(q, cs))
<1>1. run.id = "run" /\ run.step \in Nat
  BY DEF StateType
<1>2. PICK st : st = Thought(NoRequirement, <<>>)
  OBVIOUS
<1>3. st.id = "run" /\ st.step = run.step + 1
  BY <1>1, <1>2 DEF Thought, StateType
<1>4. PICK n \in Nat : n = run.step + 1
  BY <1>1
<1>5. PICK e : e = [Event("run", n, "assistant_message") EXCEPT !.message = TRUE]
  OBVIOUS
<1>6. Said = <<e>>
  BY <1>2, <1>3, <1>4, <1>5 DEF Said, AssistantEvent
<1>7. e \in EventSet
  BY <1>5 DEF EventSet, Event, EventTypes, NoResult, CallIDs
<1>8. ValidEvent(e)
  <2>1. n >= 0
    OBVIOUS
  <2>2. /\ e.type = "assistant_message" /\ e.run = "run" /\ e.step >= 0 /\ e.command = ""
        /\ e.message /\ e.result.there = FALSE
    BY <1>5, <2>1 DEF Event, NoResult
  <2>3. QED BY <2>2 DEF ValidEvent, EventTypes
<1>9. EventShown(e) = Shown(Assistant(q, cs))
  BY <1>5 DEF EventShown, Shown, Event, NoResult, Assistant, Message
<1>10. QED BY <1>6, <1>7, <1>8, <1>9

\* And that of a tool message, if its call has an id and a name.
LEMMA ToolEventShows ==
  ASSUME run \in StateType, NEW k \in ToolCalls, Named(k), Titled(k),
         NEW x, x = Result(k.id, k.name), NEW q
  PROVE  /\ ToolEvent(run, x) \in EventSet /\ ValidEvent(ToolEvent(run, x))
         /\ EventShown(ToolEvent(run, x)) = Shown(Observation(k.id, q))
<1>1. run.id = "run" /\ run.step \in Nat
  BY DEF StateType
<1>2. PICK e : e = ToolEvent(run, x)
  OBVIOUS
<1>3. PICK n \in Nat : n = run.step
  BY <1>1
<1>4. e = [run |-> "run", step |-> n, type |-> "tool_result", command |-> "", message |-> FALSE,
           result |-> x]
  BY <1>1, <1>2, <1>3 DEF ToolEvent, Event
<1>5. k.id \in CallIDs /\ k.name \in {c.name : c \in ToolCalls}
  BY CallIDTyped
<1>6. e \in EventSet
  BY <1>4, <1>5 DEF EventSet, EventTypes, Result
<1>7. ValidEvent(e)
  <2>1. x.there /\ x.call # "" /\ x.name # ""
    BY DEF Result, Named, Titled
  <2>2. n >= 0
    OBVIOUS
  <2>3. /\ e.type = "tool_result" /\ e.run = "run" /\ e.step >= 0 /\ e.command = ""
        /\ e.message = FALSE /\ e.result.there /\ e.result.call # "" /\ e.result.name # ""
    BY <1>4, <2>1, <2>2
  <2>4. QED BY <2>3 DEF ValidEvent, EventTypes
<1>8. EventShown(e) = Shown(Observation(k.id, q))
  BY <1>4 DEF EventShown, Shown, Observation, Message, Result
<1>9. QED BY <1>2, <1>6, <1>7, <1>8

\* A sequence that shows nothing is empty.
LEMMA ShowsEmpty ==
  ASSUME NEW es \in Seq(EventSet)
  PROVE  Shows(es) = <<>> <=> es = <<>>
<1>1. PICK s : s = Shows(es)
  OBVIOUS
<1>2. s \in Seq(ShownType) /\ Len(s) = Len(es)
  BY <1>1, ShowsTyped
<1> HIDE DEF ShownType, EventSet
<1>3. PICK none : none = <<>>
  OBVIOUS
<1>4. Len(none) = 0
  BY <1>3
<1>5. s = none <=> Len(s) = 0
  BY <1>2, <1>3, <1>4, EmptySeq
<1>6. es = none <=> Len(es) = 0
  BY <1>3, <1>4, EmptySeq
<1>7. QED BY <1>1, <1>2, <1>3, <1>5, <1>6

\* The message that a step of the loop appends, and the event that is published of it.
Tells(es) ==
  /\ es \in Seq(EventSet) /\ Len(es) <= 1 /\ \A i \in DOMAIN es : ValidEvent(es[i])
  /\ \/ es = <<>> /\ run'.messages = run.messages
     \/ \E m \in MessageType, e \in EventSet :
          /\ es = <<e>> /\ EventShown(e) = Shown(m)
          /\ run'.messages = Append(run.messages, m)

LEMMA StoryTells ==
  ASSUME run \in StateType, NEW n \in Nat, n <= Len(run.messages), NEW es, Tells(es)
  PROVE  /\ Story(run'.messages, n) = Story(run.messages, n) \o Shows(es)
         /\ n <= Len(run'.messages)
<1>1. run.messages \in Seq(MessageType) /\ es \in Seq(EventSet)
  BY StateFields DEF Tells
<1>2. PICK ms : ms = run.messages
  OBVIOUS
<1>3. PICK s : s = Story(ms, n)
  OBVIOUS
<1>4. s \in Seq(ShownType)
  BY <1>1, <1>2, <1>3, StoryTyped
<1>5. CASE es = <<>> /\ run'.messages = run.messages
  <2>1. Shows(es) = <<>>
    BY <1>1, <1>5, ShowsEmpty
  <2> HIDE DEF ShownType
  <2>2. s \o <<>> = s
    BY <1>4, ConcatEmptySeq
  <2>3. QED BY <1>2, <1>3, <1>5, <2>1, <2>2
<1>6. CASE \E m \in MessageType, e \in EventSet :
             /\ es = <<e>> /\ EventShown(e) = Shown(m)
             /\ run'.messages = Append(run.messages, m)
  <2>1. PICK m \in MessageType, e \in EventSet :
             /\ es = <<e>> /\ EventShown(e) = Shown(m)
             /\ run'.messages = Append(run.messages, m)
    BY <1>6
  <2>2. PICK x : x = Shown(m)
    OBVIOUS
  <2>3. Story(Append(ms, m), n) = Append(s, x)
    BY <1>1, <1>2, <1>3, <2>2, StoryAppend
  <2>4. x \in ShownType
    BY <2>2, ShownTyped
  <2>5. Append(s, x) = s \o <<x>>
    <3> HIDE DEF ShownType
    <3>1. QED BY <1>4, <2>4, AppendIsConcat
  <2>6. Shows(es) = <<x>>
    BY <2>1, <2>2, ShowsFew
  <2>7. Len(Append(ms, m)) = Len(ms) + 1 /\ Len(ms) \in Nat
    BY <1>1, <1>2, AppendProperties, LenProperties
  <2>8. n <= Len(run'.messages)
    BY <1>2, <2>1, <2>7
  <2>9. QED BY <1>2, <1>3, <2>1, <2>3, <2>5, <2>6, <2>8
<1>7. QED BY <1>5, <1>6 DEF Tells

\* A step of the loop behind its entry.
LEMMA TaleGrows ==
  ASSUME ~SinkMayFail, LoopInv, Mirrored, pc \in {"replaying", "thinking", "acting"},
         pc' # "entering", given' = given, input' = input,
         NEW es, Tells(es),
         NEW fin \in Seq(EventSet), fin = Ending', Len(fin) <= 1,
         \A i \in DOMAIN fin : ValidEvent(fin[i]),
         NEW done \in BOOLEAN, ctxDone => done, ctxDone' = done, Publishes(es \o fin, done)
  PROVE  Mirrored'
<1>1. /\ run \in StateType /\ ctxDone \in BOOLEAN /\ refused \in BOOLEAN
      /\ run.messages \in Seq(MessageType) /\ given.messages \in Seq(MessageType)
  BY StateFields DEF LoopInv, LoopTyped
<1>2. es \in Seq(EventSet) /\ Len(es) <= 1 /\ \A i \in DOMAIN es : ValidEvent(es[i])
  BY DEF Tells
<1>3. events \in Seq(EventSet) /\ Start <= Len(run.messages) /\ (refused => ctxDone)
  BY DEF Mirrored
<1>4. PICK rest \in Seq(ShownType) :
        Tale = Shows(events) \o rest /\ (refused <=> rest # <<>>)
  BY DEF Mirrored
<1>5. PICK n \in Nat : n = Start
  <2>1. PICK len \in Nat : len = Len(given.messages)
    BY <1>1, LenProperties
  <2>2. Start = len + 0 \/ Start = len + 1
    BY <2>1 DEF Start
  <2>3. len + 0 \in Nat /\ len + 1 \in Nat
    BY <2>1
  <2>4. QED BY <2>2, <2>3
<1>6. Start' = n
  BY <1>5 DEF Start
<1>7. PICK all : all = es \o fin
  OBVIOUS
<1>8. all \in Seq(EventSet) /\ Len(all) <= 2 /\ \A i \in DOMAIN all : ValidEvent(all[i])
  <2>1. /\ all \in Seq(EventSet) /\ Len(all) = Len(es) + Len(fin)
        /\ \A i \in 1..(Len(es) + Len(fin)) : all[i] = IF i <= Len(es) THEN es[i]
                                                                      ELSE fin[i - Len(es)]
    BY <1>2, <1>7, ConcatProperties
  <2>2. /\ Len(es) \in Nat /\ DOMAIN es = 1..Len(es)
        /\ Len(fin) \in Nat /\ DOMAIN fin = 1..Len(fin)
    BY <1>2, LenProperties
  <2>3. DOMAIN all = 1..(Len(es) + Len(fin))
    BY <2>1, LenProperties
  <2>4. ASSUME NEW i \in DOMAIN all PROVE ValidEvent(all[i])
    <3>1. CASE i <= Len(es)
      <4>1. i \in DOMAIN es /\ all[i] = es[i]
        BY <2>1, <2>2, <2>3, <3>1
      <4>2. QED BY <1>2, <4>1
    <3>2. CASE ~(i <= Len(es))
      <4>1. i - Len(es) \in DOMAIN fin /\ all[i] = fin[i - Len(es)]
        BY <2>1, <2>2, <2>3, <3>2
      <4>2. QED BY <4>1
    <3>3. QED BY <3>1, <3>2
  <2>5. QED BY <1>2, <2>1, <2>2, <2>4
<1>9. PICK story : story = Story(run.messages, n)
  OBVIOUS
<1>10. story \in Seq(ShownType)
  BY <1>1, <1>3, <1>5, <1>9, StoryTyped
<1>11. PICK told : told = Shows(events)
  OBVIOUS
<1>12. PICK new : new = Shows(all)
  OBVIOUS
<1>13. told \in Seq(ShownType) /\ new \in Seq(ShownType)
  BY <1>3, <1>8, <1>11, <1>12, ShowsTyped
<1>14. Tale = story
  <2>1. Ending = <<>>
    BY DEF Ending
  <2>2. <<>> \in Seq(EventSet)
    OBVIOUS
  <2>3. Shows(<<>>) = <<>>
    BY <2>2, ShowsEmpty
  <2>4. story \o <<>> = story
    BY <1>10, ConcatEmptySeq
  <2>5. QED BY <1>5, <1>9, <2>1, <2>3, <2>4 DEF Tale
<1>15. Tale' = story \o new /\ n <= Len(run'.messages)
  <2>1. Story(run'.messages, n) = story \o Shows(es) /\ n <= Len(run'.messages)
    BY <1>1, <1>3, <1>5, <1>9, StoryTells
  <2>2. Tale' = (story \o Shows(es)) \o Shows(fin)
    BY <1>6, <2>1 DEF Tale
  <2>3. Shows(es) \in Seq(ShownType) /\ Shows(fin) \in Seq(ShownType)
    BY <1>2, ShowsTyped
  <2>4. (story \o Shows(es)) \o Shows(fin) = story \o (Shows(es) \o Shows(fin))
    <3>1. PICK a : a = Shows(es)
      OBVIOUS
    <3>2. PICK b : b = Shows(fin)
      OBVIOUS
    <3>3. story \in Seq(ShownType) /\ a \in Seq(ShownType) /\ b \in Seq(ShownType)
      BY <1>10, <2>3, <3>1, <3>2
    <3>4. (story \o a) \o b = story \o (a \o b)
      BY <3>3, ConcatAssociative
    <3>5. QED BY <3>1, <3>2, <3>4
  <2>5. new = Shows(es) \o Shows(fin)
    BY <1>2, <1>7, <1>12, ShowsConcat
  <2>6. QED BY <2>1, <2>2, <2>4, <2>5
<1>16. IF done THEN events' = events /\ (refused' <=> refused \/ all # <<>>)
               ELSE events' = events \o all /\ (refused' <=> refused)
  BY <1>1, <1>3, <1>7, <1>8, PublishedWhole
<1>17. new = <<>> <=> all = <<>>
  BY <1>8, <1>12, ShowsEmpty
<1>18. /\ events' \in Seq(EventSet) /\ (refused' => ctxDone')
       /\ \E x \in Seq(ShownType) : Tale' = Shows(events') \o x /\ (refused' <=> x # <<>>)
  <2> HIDE DEF ShownType, EventSet
  <2>1. CASE done
    <3>1. PICK x : x = rest \o new
      OBVIOUS
    <3>2. x \in Seq(ShownType)
      BY <1>13, <3>1, ConcatProperties
    <3>3. (told \o rest) \o new = told \o (rest \o new)
      BY <1>13, ConcatAssociative
    <3>4. Tale' = told \o x
      BY <1>4, <1>11, <1>14, <1>15, <3>1, <3>3
    <3>5. x = <<>> <=> rest = <<>> /\ new = <<>>
      BY <1>13, <3>1, ConcatEqualIffEmpty
    <3>6. refused' <=> x # <<>>
      BY <1>4, <1>16, <1>17, <2>1, <3>5
    <3>7. QED BY <1>3, <1>11, <1>16, <2>1, <3>2, <3>4, <3>6
  <2>2. CASE ~done
    <3>1. ~refused /\ rest = <<>>
      BY <1>3, <1>4, <2>2
    <3>2. told \o <<>> = told
      BY <1>13, ConcatEmptySeq
    <3>3. Tale' = told \o new
      BY <1>4, <1>11, <1>14, <1>15, <3>1, <3>2
    <3>4. Shows(events') = told \o new /\ events' \in Seq(EventSet)
      <4>1. events' = events \o all
        BY <1>16, <2>2
      <4>2. Shows(events \o all) = Shows(events) \o Shows(all)
        BY <1>3, <1>8, ShowsConcat
      <4>3. events \o all \in Seq(EventSet)
        BY <1>3, <1>8, ConcatProperties
      <4>4. QED BY <1>11, <1>12, <4>1, <4>2, <4>3
    <3>5. (told \o new) \o <<>> = told \o new
      <4>1. told \o new \in Seq(ShownType)
        BY <1>13, ConcatProperties
      <4>2. QED BY <4>1, ConcatEmptySeq
    <3>6. ~refused' /\ <<>> \in Seq(ShownType)
      BY <1>16, <2>2, <3>1
    <3>7. QED BY <3>3, <3>4, <3>5, <3>6
  <2>3. QED BY <2>1, <2>2
<1>19. QED BY <1>6, <1>15, <1>18 DEF Mirrored

LEMMA TellsSaid ==
  ASSUME run \in StateType, NEW q \in RequirementSet, NEW cs \in CallLists \cup {<<>>},
         run'.messages = Append(run.messages, Assistant(q, cs))
  PROVE  Tells(Said)
<1>1. PICK m : m = Assistant(q, cs)
  OBVIOUS
<1>2. m \in MessageType
  BY <1>1, MessagesTyped
<1>3. PICK e \in EventSet : Said = <<e>> /\ ValidEvent(e) /\ EventShown(e) = Shown(m)
  BY <1>1, SaidShows
<1>4. <<e>> \in Seq(EventSet) /\ Len(<<e>>) = 1 /\ DOMAIN <<e>> = {1} /\ <<e>>[1] = e
  <2> HIDE DEF EventSet
  <2>1. QED OBVIOUS
<1>5. QED BY <1>1, <1>2, <1>3, <1>4 DEF Tells

LEMMA TellsHeard ==
  ASSUME run \in StateType, NEW q \in RequirementSet, NEW k \in ToolCalls, Named(k), Titled(k),
         run'.messages = Append(run.messages, Observation(k.id, q))
  PROVE  Tells(Heard(k))
<1>1. PICK m : m = Observation(k.id, q)
  OBVIOUS
<1>2. m \in MessageType
  BY <1>1, CallIDTyped, MessagesTyped
<1>3. PICK e : e = ToolEvent(run, Result(k.id, k.name))
  OBVIOUS
<1>4. e \in EventSet /\ ValidEvent(e) /\ EventShown(e) = Shown(m) /\ Heard(k) = <<e>>
  BY <1>1, <1>3, ToolEventShows DEF Heard
<1>5. <<e>> \in Seq(EventSet) /\ Len(<<e>>) = 1 /\ DOMAIN <<e>> = {1} /\ <<e>>[1] = e
  <2> HIDE DEF EventSet
  <2>1. QED BY <1>4
<1>6. QED BY <1>1, <1>2, <1>4, <1>5 DEF Tells

LEMMA TellsNothing ==
  ASSUME run'.messages = run.messages
  PROVE  Tells(<<>>)
<1>1. <<>> \in Seq(EventSet) /\ Len(<<>>) <= 1 /\ DOMAIN <<>> = {}
  <2> HIDE DEF EventSet
  <2>1. QED OBVIOUS
<1>2. QED BY <1>1 DEF Tells

LEMMA MirroredLoop ==
  ASSUME ~SinkMayFail, LoopInv, LoopInv', NamesOK, Mirrored, LoopStep
  PROVE  Mirrored'
<1>1. Shape
  BY LoopShape
<1>2. Keeps
  BY <1>1 DEF Shape
<1>3. /\ given' = given /\ input' = input /\ ctxDone \in BOOLEAN
      /\ run \in StateType /\ run' \in StateType
  BY <1>2 DEF Keeps
<1>4. ASSUME NEW es, Tells(es), Returns(es), pc \in {"replaying", "thinking", "acting"}
      PROVE  Mirrored'
  <2>1. PICK done \in BOOLEAN : (ctxDone => done) /\ ctxDone' = done
                                /\ Publishes(es \o FinalEvents(run'), done)
    BY <1>4 DEF Returns
  <2>2. PICK fin : fin = FinalEvents(run')
    OBVIOUS
  <2>3. /\ fin \in Seq(EventSet) /\ Len(fin) <= 1
        /\ \A i \in DOMAIN fin : ValidEvent(fin[i])
    BY <1>3, <2>2, FinalEventsTyped
  <2>4. pc' = "between"
    BY <1>4 DEF Returns
  <2>5. fin = Ending' /\ pc' # "entering"
    BY <2>2, <2>4 DEF Ending
  <2>6. Publishes(es \o fin, done)
    BY <2>1, <2>2
  <2>7. QED BY <1>3, <1>4, <2>1, <2>3, <2>5, <2>6, TaleGrows
<1>5. ASSUME NEW es, Tells(es), NEW cs, Proceeds(cs, es),
             pc \in {"replaying", "thinking", "acting"}
      PROVE  Mirrored'
  <2>1. ctxDone' = ctxDone /\ Publishes(es, ctxDone) /\ pc' \in {"thinking", "acting"}
    BY <1>5 DEF Proceeds
  <2>2. es \in Seq(EventSet)
    BY <1>5 DEF Tells
  <2>3. es \o <<>> = es
    BY <2>2, ConcatEmptySeq
  <2>4. PICK fin : fin = <<>>
    OBVIOUS
  <2>5. fin \in Seq(EventSet) /\ Len(fin) <= 1 /\ DOMAIN fin = {}
    <3> HIDE DEF EventSet
    <3>1. QED BY <2>4
  <2>6. fin = Ending' /\ pc' # "entering"
    BY <2>1, <2>4 DEF Ending
  <2>7. Publishes(es \o fin, ctxDone)
    BY <2>1, <2>3, <2>4
  <2>8. QED BY <1>3, <1>5, <2>1, <2>5, <2>6, <2>7, TaleGrows
<1>6. CASE Enters
  <2>1. /\ pc = "entering" /\ pc' \in {"replaying", "thinking"}
        /\ ctxDone' = ctxDone /\ events' = events /\ refused' = refused
    BY <1>6 DEF Enters
  <2>2. run.messages \in Seq(MessageType) /\ given.messages \in Seq(MessageType)
    BY StateFields DEF LoopInv, LoopTyped
  <2>3. PICK n \in Nat : n = Len(given.messages)
    BY <2>2, LenProperties
  <2>4. Len(run.messages) = n
    BY <2>1, <2>3 DEF Mirrored
  <2>5. PICK ms : ms = run'.messages
    OBVIOUS
  <2>6. ms \in Seq(MessageType) /\ Len(ms) = Start'
    <3>1. UserMessage \in MessageType
      BY MessagesTyped
    <3>2. Len(Append(run.messages, UserMessage)) = n + 1
      BY <2>2, <2>4, <3>1, AppendProperties
    <3>3. Len(ms) = IF input.resolution = NoResolution THEN n ELSE n + 1
      BY <1>6, <2>4, <2>5, <3>2 DEF Enters
    <3>4. Start' = n + (IF input.resolution # NoResolution THEN 1 ELSE 0)
      BY <1>3, <2>1, <2>3 DEF Start
    <3>5. ms \in Seq(MessageType)
      BY <1>3, <2>5, StateFields
    <3>6. QED BY <3>3, <3>4, <3>5
  <2>7. ASSUME NEW us \in Seq(MessageType)
        PROVE  Story(us, Len(us)) = <<>>
    <3>1. PICK len \in Nat : len = Len(us)
      BY LenProperties
    <3>2. PICK s : s = Story(us, len)
      OBVIOUS
    <3>3. s \in Seq(ShownType) /\ Len(s) = len - len
      BY <3>1, <3>2, StoryTyped
    <3>4. Len(s) = 0
      BY <3>3
    <3>5. s = <<>>
      BY <3>3, <3>4, EmptySeq
    <3>6. QED BY <3>1, <3>2, <3>5
  <2>8. Ending = <<>> /\ Ending' = <<>>
    BY <2>1 DEF Ending
  <2>9. Start = n
    BY <2>1, <2>3 DEF Start
  <2>10. Tale = Tale'
    <3>1. Story(run.messages, n) = <<>>
      BY <2>2, <2>4, <2>7
    <3>2. Story(ms, Start') = <<>>
      BY <2>6, <2>7
    <3>3. QED BY <2>5, <2>8, <2>9, <3>1, <3>2 DEF Tale
  <2>11. Start' <= Len(run'.messages)
    <3>1. Len(ms) \in Nat
      BY <2>6, LenProperties
    <3>2. QED BY <2>5, <2>6, <3>1
  <2>12. Shows(events') = Shows(events)
    BY <2>1
  <2>13. QED BY <2>1, <2>10, <2>11, <2>12 DEF Mirrored
<1>7. ASSUME NEW q \in RequirementSet, NEW cs \in CallLists \cup {<<>>}, Speaks(q, cs)
      PROVE  Mirrored'
  <2>1. pc = "thinking" /\ run'.messages = Append(run.messages, Assistant(q, cs))
    BY <1>7 DEF Speaks
  <2>2. Tells(Said)
    BY <1>3, <2>1, TellsSaid
  <2>3. Proceeds(cs, Said) \/ Returns(Said)
    BY <1>7 DEF Speaks
  <2>4. QED BY <1>4, <1>5, <2>1, <2>2, <2>3
<1>8. ASSUME NEW k \in ToolCalls, NEW q \in RequirementSet, Hears(k, q)
      PROVE  Mirrored'
  <2>1. pc = "acting" /\ k = Head(calls) /\ run'.messages = Append(run.messages, Observation(k.id, q))
    BY <1>8 DEF Hears
  <2>2. Named(k) /\ Titled(k)
    <3>1. Named(k)
      BY <2>1, ActingFacts
    <3>2. calls \in Seq(ToolCalls) /\ calls # <<>> /\ \A i \in DOMAIN calls : Titled(calls[i])
      BY <2>1 DEF LoopInv, LoopTyped, NamesOK
    <3>3. 1 \in DOMAIN calls /\ Head(calls) = calls[1]
      BY <3>2, HeadTailProperties, LenProperties, EmptySeq
    <3>4. QED BY <2>1, <3>1, <3>2, <3>3
  <2>3. Tells(Heard(k))
    BY <1>3, <2>1, <2>2, TellsHeard
  <2>4. Proceeds(Tail(calls), Heard(k)) \/ Returns(Heard(k))
    BY <1>8 DEF Hears
  <2>5. QED BY <1>4, <1>5, <2>1, <2>3, <2>4
<1>9. ASSUME NEW k \in ToolCalls, Replays(k)
      PROVE  Mirrored'
  <2>1. /\ pc = "replaying" /\ k = ReplayCall
        /\ run'.messages = Append(run.messages, Observation(k.id, NoRequirement))
    BY <1>9 DEF Replays
  <2>2. ToReplay
    BY <2>1 DEF LoopInv, ReplayOK, ToReplay
  <2>3. k = Last(approvals)
    BY <2>1, <2>2, Redeemed
  <2>4. Named(k)
    BY <2>2, <2>3 DEF LoopInv, ReplayOK, ToReplay, ReplayRequested, ValidRequirement, Named
  <2>5. Titled(k)
    BY <2>2, <2>3 DEF NamesOK
  <2>6. Tells(Heard(k))
    BY <1>3, <2>1, <2>4, <2>5, NothingRequired, TellsHeard
  <2>7. Proceeds(<<>>, Heard(k))
    BY <1>9 DEF Replays
  <2>8. QED BY <1>5, <2>1, <2>6, <2>7
<1>10. CASE Stops
  BY <1>4, <1>10, TellsNothing DEF Stops
<1>11. QED BY <1>1, <1>6, <1>7, <1>8, <1>9, <1>10 DEF Shape

\* Nothing is told of an execution before it begins.
LEMMA NothingToTell ==
  ASSUME NEW ms \in Seq(MessageType)
  PROVE  Story(ms, Len(ms)) \o Shows(<<>>) = Shows(<<>>) \o <<>> /\ <<>> \in Seq(ShownType)
<1>1. PICK len \in Nat : len = Len(ms)
  BY LenProperties
<1>2. PICK s : s = Story(ms, len)
  OBVIOUS
<1>3. s \in Seq(ShownType) /\ Len(s) = len - len
  BY <1>1, <1>2, StoryTyped
<1>4. Len(s) = 0
  BY <1>3
<1>5. s = <<>>
  BY <1>3, <1>4, EmptySeq
<1>6. <<>> \in Seq(EventSet) /\ <<>> \in Seq(ShownType)
  <2> HIDE DEF EventSet, ShownType
  <2>1. QED OBVIOUS
<1>7. Shows(<<>>) = <<>>
  BY <1>6, ShowsEmpty
<1>8. QED BY <1>1, <1>2, <1>5, <1>6, <1>7

LEMMA MirroredHandOver ==
  ASSUME LoopInv', NEW st, NEW in, HandOver(st, in)
  PROVE  Mirrored'
<1>1. /\ run' = given' /\ pc' = "entering" /\ events' = <<>> /\ refused' = FALSE
  BY DEF HandOver
<1>2. run'.messages \in Seq(MessageType)
  BY StateFields DEF LoopInv, LoopTyped
<1>3. PICK ms : ms = run'.messages
  OBVIOUS
<1>4. PICK len \in Nat : len = Len(ms)
  BY <1>2, <1>3, LenProperties
<1>5. Start' = len
  BY <1>1, <1>3, <1>4 DEF Start
<1>6. Ending' = <<>>
  BY <1>1 DEF Ending
<1>7. Tale' = Story(ms, len) \o Shows(<<>>)
  BY <1>3, <1>5, <1>6 DEF Tale
<1>8. Tale' = Shows(events') \o <<>> /\ <<>> \in Seq(ShownType)
  BY <1>1, <1>2, <1>3, <1>4, <1>7, NothingToTell
<1>9. events' \in Seq(EventSet)
  <2> HIDE DEF EventSet
  <2>1. QED BY <1>1
<1>10. Len(run'.messages) = Len(given'.messages) /\ Start' <= Len(run'.messages)
  BY <1>1, <1>3, <1>4, <1>5
<1>11. QED BY <1>1, <1>8, <1>9, <1>10 DEF Mirrored

LEMMA MirroredInit == Init => Mirrored
<1> SUFFICES ASSUME Init PROVE Mirrored
  OBVIOUS
<1>1. /\ run = given /\ pc = "between" /\ events = <<>> /\ refused = FALSE
      /\ input = NoInput /\ run.status = "pending"
  BY DEF Init
<1>2. run \in StateType
  BY InitInv DEF LoopInv, LoopTyped
<1>3. run.messages \in Seq(MessageType)
  BY <1>2, StateFields
<1>4. PICK ms : ms = run.messages
  OBVIOUS
<1>5. PICK len \in Nat : len = Len(ms)
  BY <1>3, <1>4, LenProperties
<1>6. Start = len
  BY <1>1, <1>4, <1>5 DEF Start, NoInput
<1>7. Ending = <<>>
  BY <1>1, <1>2, FinalEventsTyped DEF Ending, Terminal
<1>8. Tale = Story(ms, len) \o Shows(<<>>)
  BY <1>4, <1>6, <1>7 DEF Tale
<1>9. Tale = Shows(events) \o <<>> /\ <<>> \in Seq(ShownType)
  BY <1>1, <1>3, <1>4, <1>5, <1>8, NothingToTell
<1>10. events \in Seq(EventSet)
  <2> HIDE DEF EventSet
  <2>1. QED BY <1>1
<1>11. Start <= Len(run.messages)
  BY <1>4, <1>5, <1>6
<1>12. QED BY <1>1, <1>9, <1>10, <1>11 DEF Mirrored

LEMMA MirroredNext ==
  ASSUME ~SinkMayFail, LoopInv, LoopInv', NamesOK, Mirrored, [Next]_vars
  PROVE  Mirrored'
<1>1. CASE LoopStep
  BY <1>1, MirroredLoop
<1>2. CASE Carry
  BY <1>2, MirroredHandOver DEF Carry
<1>3. CASE Resume
  <2>1. \E st, in : HandOver(st, in)
    BY <1>3 DEF Resume
  <2>2. QED BY <2>1, MirroredHandOver
<1>4. CASE EndContext \/ Quiet \/ UNCHANGED vars
  <2>1. /\ UNCHANGED <<run, given, input, pc, events, refused>>
        /\ ctxDone => ctxDone'
    BY <1>4 DEF EndContext, Quiet, vars, Aux
  <2>2. Start' = Start
    BY <2>1 DEF Start
  <2>3. Tale' = Tale
    BY <2>1, <2>2 DEF Tale, Ending
  <2>4. Shows(events') = Shows(events)
    BY <2>1
  <2>5. QED BY <2>1, <2>2, <2>3, <2>4 DEF Mirrored
<1>5. QED BY <1>1, <1>2, <1>3, <1>4 DEF Next

LEMMA InvMirror == LoopInv /\ Mirrored => EventsMirrorTranscript
<1> SUFFICES ASSUME LoopInv, Mirrored PROVE EventsMirrorTranscript
  OBVIOUS
<1>1. events \in Seq(EventSet) /\ Start <= Len(run.messages) /\ (refused => ctxDone)
  BY DEF Mirrored
<1>2. PICK rest \in Seq(ShownType) :
        Tale = Shows(events) \o rest /\ (refused <=> rest # <<>>)
  BY DEF Mirrored
<1>3. PICK s : s = Shows(events)
  OBVIOUS
<1>4. s \in Seq(ShownType) /\ Len(s) = Len(events) /\ Len(s) \in Nat
  BY <1>1, <1>3, ShowsTyped, LenProperties
<1>5. PICK t : t = Tale
  OBVIOUS
<1>6. /\ t \in Seq(ShownType) /\ Len(t) = Len(s) + Len(rest) /\ Len(rest) \in Nat
      /\ \A i \in 1..(Len(s) + Len(rest)) : t[i] = IF i <= Len(s) THEN s[i]
                                                                ELSE rest[i - Len(s)]
  <2>1. t = s \o rest
    BY <1>2, <1>3, <1>5
  <2>2. QED BY <1>4, <2>1, ConcatProperties, LenProperties
<1>7. IsPrefix(s, t)
  <2>1. Len(s) <= Len(t)
    BY <1>4, <1>6
  <2>2. PICK p : p = SubSeq(t, 1, Len(s))
    OBVIOUS
  <2>3. p \in Seq(ShownType) /\ Len(p) = Len(s) /\ \A i \in 1..Len(s) : p[i] = t[i]
    <3>1. \A i \in 1..Len(s) : t[i] \in ShownType
      <4>1. \A i \in 1..Len(s) : i \in 1..Len(t)
        BY <1>4, <1>6
      <4>2. QED BY <1>6, <4>1, ElementOfSeq
    <3>2. /\ p \in Seq(ShownType) /\ Len(p) = IF 1 <= Len(s) THEN Len(s) - 1 + 1 ELSE 0
          /\ \A i \in 1..(Len(s) - 1 + 1) : p[i] = t[1 + i - 1]
      BY <1>4, <2>2, <3>1, SubSeqProperties
    <3>3. Len(p) = Len(s)
      BY <1>4, <3>2
    <3>4. \A i \in 1..Len(s) : p[i] = t[i]
      BY <1>4, <3>2
    <3>5. QED BY <3>2, <3>3, <3>4
  <2>4. \A i \in 1..Len(p) : p[i] = s[i]
    BY <1>4, <1>6, <2>3
  <2>5. p = s
    <3> HIDE DEF ShownType
    <3>1. QED BY <1>4, <2>3, <2>4, SeqEqual
  <2>6. SubSeq(s, 1, Len(s)) = s
    BY <1>4, SubSeqFull
  <2>7. QED BY <2>1, <2>2, <2>5, <2>6 DEF IsPrefix
<1>8. refused <=> Len(events) < Len(t)
  <2>1. rest = <<>> <=> Len(rest) = 0
    <3>1. PICK n : n = Len(<<>>)
      OBVIOUS
    <3>2. n = 0
      BY <3>1
    <3>3. QED BY <1>6, <3>1, <3>2, EmptySeq
  <2>2. QED BY <1>2, <1>4, <1>6, <2>1
<1>9. /\ IsPrefix(Shows(events), Tale)
      /\ refused <=> Len(events) < Len(Tale)
      /\ refused => ctxDone
  BY <1>1, <1>3, <1>5, <1>7, <1>8
<1>10. QED BY <1>9 DEF EventsMirrorTranscript, Tale, Story, Start, Ending, Shows, Shown, EventShown

\* The events of an execution are what it added to the transcript, told in order and
\* without a gap, if the sink refuses none before the context ends
\* (agentreact/react_loop.go:189 to 307).
THEOREM EventsTellTheTranscript ==
  ASSUME ~SinkMayFail
  PROVE  Spec => []EventsMirrorTranscript
<1>1. Init => NamesOK /\ Mirrored
  BY NamesInit, MirroredInit
<1>2. LoopInv /\ LoopInv' /\ NamesOK /\ Mirrored /\ [Next]_vars => NamesOK' /\ Mirrored'
  BY NamesNext, MirroredNext
<1>3. LoopInv /\ Mirrored => EventsMirrorTranscript
  BY InvMirror
<1>4. QED BY <1>1, <1>2, <1>3, LoopInvariant, PTL DEF Spec

-----------------------------------------------------------------------------
(***************************************************************************)
(* The transcript as the runner sees it.                                   *)
(***************************************************************************)

SeenType ==
  [role : {"user", "assistant", "tool"}, by : {"loop"}, call : CallIDs,
   requirement : RequirementSet]

LEMMA SeenTyped ==
  ASSUME NEW m \in MessageType
  PROVE  /\ Seen(m) \in Seq(SeenType)
         /\ m.calls = <<>> =>
              Seen(m) = <<[role |-> m.role, by |-> "loop", call |-> m.call,
                           requirement |-> m.requirement]>>
         /\ \A j \in DOMAIN m.calls : /\ j \in DOMAIN Seen(m)
                                      /\ Seen(m)[j].role = m.role
                                      /\ Seen(m)[j].call = m.calls[j].id
<1>1. m.role \in {"user", "assistant", "tool"} /\ m.call \in CallIDs
      /\ m.requirement \in RequirementSet
  BY DEF MessageType
<1>2. PICK cs : cs = m.calls
  OBVIOUS
<1>3. cs \in Seq(ToolCalls) /\ DOMAIN cs = 1..Len(cs) /\ Len(cs) \in Nat
      /\ \A j \in DOMAIN cs : cs[j] \in ToolCalls
  BY <1>2, CallsTyped
<1>4. PICK x : x = [role |-> m.role, by |-> "loop", call |-> m.call,
                    requirement |-> m.requirement]
  OBVIOUS
<1>5. x \in SeenType
  BY <1>1, <1>4 DEF SeenType
<1>6. CASE cs = <<>>
  <2>1. Seen(m) = <<x>>
    BY <1>2, <1>4, <1>6 DEF Seen
  <2>2. DOMAIN cs = {}
    BY <1>6
  <2>3. <<x>> \in Seq(SeenType)
    <3> HIDE DEF SeenType
    <3>1. QED BY <1>5
  <2>4. QED BY <1>2, <1>4, <2>1, <2>2, <2>3
<1>7. CASE cs # <<>>
  <2>1. PICK s : s = Seen(m)
    OBVIOUS
  <2>2. s = [j \in 1..Len(cs) |-> [role |-> m.role, by |-> "loop", call |-> cs[j].id,
                                   requirement |-> m.requirement]]
    BY <1>2, <1>3, <1>7, <2>1 DEF Seen
  <2>3. \A j \in 1..Len(cs) : s[j] \in SeenType
    BY <1>1, <1>3, <2>2, CallIDTyped DEF SeenType
  <2>4. s \in [1..Len(cs) -> SeenType]
    BY <2>2, <2>3
  <2>5. s \in Seq(SeenType)
    <3> HIDE DEF SeenType
    <3>1. QED BY <1>3, <2>4
  <2>6. \A j \in DOMAIN cs : j \in DOMAIN s /\ s[j].role = m.role /\ s[j].call = cs[j].id
    BY <1>3, <2>2
  <2>7. QED BY <1>2, <1>7, <2>1, <2>5, <2>6
<1>8. QED BY <1>6, <1>7

\* What FlattenSeq is applied to.
SeenParts(ms) == [i \in DOMAIN ms |-> Seen(ms[i])]

LEMMA SeenPartsAppend ==
  ASSUME NEW ms \in Seq(MessageType), NEW m \in MessageType
  PROVE  /\ SeenParts(ms) \in Seq(Seq(SeenType))
         /\ SeenParts(Append(ms, m)) = Append(SeenParts(ms), Seen(m))
<1>1. PICK T : T = Seq(SeenType)
  OBVIOUS
<1>2. ASSUME NEW us \in Seq(MessageType)
      PROVE  /\ SeenParts(us) \in Seq(T) /\ Len(SeenParts(us)) = Len(us)
             /\ \A i \in 1..Len(us) : SeenParts(us)[i] = Seen(us[i])
  <2>1. Len(us) \in Nat /\ DOMAIN us = 1..Len(us)
    BY LenProperties
  <2>2. \A i \in 1..Len(us) : Seen(us[i]) \in T
    BY <1>1, ElementOfSeq, SeenTyped
  <2>3. PICK s : s = SeenParts(us)
    OBVIOUS
  <2>4. s = [i \in 1..Len(us) |-> Seen(us[i])]
    BY <2>1, <2>3 DEF SeenParts
  <2>5. s \in [1..Len(us) -> T]
    BY <2>2, <2>4
  <2>6. s \in Seq(T) /\ Len(s) = Len(us)
    BY <2>1, <2>5
  <2>7. QED BY <2>3, <2>4, <2>6
<1>3. PICK us : us = Append(ms, m)
  OBVIOUS
<1>4. /\ us \in Seq(MessageType) /\ Len(us) = Len(ms) + 1 /\ Len(ms) \in Nat
      /\ us[Len(ms) + 1] = m /\ \A i \in 1..Len(ms) : us[i] = ms[i]
  BY <1>3, AppendProperties, LenProperties
<1>5. PICK s : s = SeenParts(ms)
  OBVIOUS
<1>6. PICK t : t = SeenParts(us)
  OBVIOUS
<1>7. s \in Seq(T) /\ Len(s) = Len(ms) /\ \A i \in 1..Len(ms) : s[i] = Seen(ms[i])
  BY <1>2, <1>5
<1>8. t \in Seq(T) /\ Len(t) = Len(us) /\ \A i \in 1..Len(us) : t[i] = Seen(us[i])
  BY <1>2, <1>4, <1>6
<1>9. PICK x : x = Seen(m)
  OBVIOUS
<1>10. x \in T
  BY <1>1, <1>9, SeenTyped
<1>11. PICK r : r = Append(s, x)
  OBVIOUS
<1>12. /\ r \in Seq(T) /\ Len(r) = Len(s) + 1
       /\ r[Len(s) + 1] = x /\ \A i \in 1..Len(s) : r[i] = s[i]
  BY <1>7, <1>10, <1>11, AppendProperties
<1>13. \A i \in 1..Len(t) : t[i] = r[i]
  <2>1. TAKE i \in 1..Len(t)
  <2>2. t[i] = Seen(us[i])
    BY <1>8
  <2>3. CASE i \in 1..Len(ms)
    BY <1>4, <1>7, <1>12, <2>2, <2>3
  <2>4. CASE i = Len(ms) + 1
    BY <1>4, <1>7, <1>9, <1>12, <2>2, <2>4
  <2>5. QED BY <1>4, <1>8, <2>1, <2>3, <2>4
<1>14. t = r
  BY <1>4, <1>7, <1>8, <1>12, <1>13, SeqEqual
<1>15. QED BY <1>1, <1>3, <1>5, <1>6, <1>7, <1>9, <1>11, <1>14

\* The messages it sees are well typed: otherwise there were a shortest transcript whose
\* are not.
LEMMA SeenMessagesTyped ==
  ASSUME NEW ms \in Seq(MessageType)
  PROVE  SeenMessages(ms) \in Seq(SeenType) /\ SeenMessages(<<>>) = <<>>
<1> DEFINE Bad == {n \in Nat : \E us \in Seq(MessageType) :
                     Len(us) = n /\ SeenMessages(us) \notin Seq(SeenType)}
<1>1. <<>> \in Seq(Seq(SeenType)) /\ <<>> \in Seq(SeenType)
  <2> HIDE DEF SeenType
  <2>1. QED OBVIOUS
<1>2. SeenMessages(<<>>) = <<>>
  <2>1. FlattenSeq(<<>>) = <<>>
    BY <1>1, FlattenAppend
  <2>2. DOMAIN <<>> = 1..0
    OBVIOUS
  <2>3. [i \in DOMAIN <<>> |-> Seen(<<>>[i])] = <<>>
    BY <2>2
  <2>4. QED BY <2>1, <2>3 DEF SeenMessages
<1>3. ASSUME Bad # {} PROVE FALSE
  <2>1. PICK n \in Bad : \A k \in Bad : n <= k
    BY <1>3, LeastNumber
  <2>2. PICK us \in Seq(MessageType) : Len(us) = n /\ SeenMessages(us) \notin Seq(SeenType)
    OBVIOUS
  <2>3. us # <<>>
    BY <1>1, <1>2, <2>2
  <2> HIDE DEF SeenType, MessageType
  <2>4. PICK front \in Seq(MessageType), m \in MessageType : us = Append(front, m)
    BY <2>3, SequenceEmptyOrAppend
  <2>5. Len(front) \in Nat /\ Len(us) = Len(front) + 1
    BY <2>4, AppendProperties, LenProperties
  <2>6. Len(front) \notin Bad
    BY <2>1, <2>2, <2>5
  <2>7. SeenMessages(front) \in Seq(SeenType)
    BY <2>5, <2>6
  <2>8. PICK x : x = Seen(m)
    OBVIOUS
  <2>9. x \in Seq(SeenType) /\ SeenParts(front) \in Seq(Seq(SeenType))
        /\ SeenParts(us) = Append(SeenParts(front), x)
    BY <2>4, <2>8, SeenTyped, SeenPartsAppend
  <2>10. FlattenSeq(SeenParts(us)) = FlattenSeq(SeenParts(front)) \o x
    BY <2>7, <2>9, FlattenAppend DEF SeenMessages, SeenParts
  <2>11. SeenMessages(us) = SeenMessages(front) \o x
    BY <2>10 DEF SeenMessages, SeenParts
  <2>12. SeenMessages(front) \o x \in Seq(SeenType)
    BY <2>7, <2>9, ConcatProperties
  <2>13. QED BY <2>2, <2>11, <2>12
<1>4. Len(ms) \in Nat
  BY LenProperties
<1>5. QED BY <1>2, <1>3, <1>4

LEMMA SeenMessagesAppend ==
  ASSUME NEW ms \in Seq(MessageType), NEW m \in MessageType
  PROVE  SeenMessages(Append(ms, m)) = SeenMessages(ms) \o Seen(m)
<1>1. PICK x : x = Seen(m)
  OBVIOUS
<1>2. x \in Seq(SeenType) /\ SeenParts(ms) \in Seq(Seq(SeenType))
      /\ SeenParts(Append(ms, m)) = Append(SeenParts(ms), x)
  BY <1>1, SeenTyped, SeenPartsAppend
<1>3. SeenMessages(ms) \in Seq(SeenType)
  BY SeenMessagesTyped
<1>4. FlattenSeq(SeenParts(Append(ms, m))) = FlattenSeq(SeenParts(ms)) \o x
  BY <1>2, <1>3, FlattenAppend DEF SeenMessages, SeenParts
<1>5. QED BY <1>1, <1>4 DEF SeenMessages, SeenParts

\* s is where t begins.
Begins(s, t) == Len(s) <= Len(t) /\ SubSeq(s, 1, Len(s)) = SubSeq(t, 1, Len(s))

LEMMA BeginsIs ==
  ASSUME NEW S, NEW s \in Seq(S), NEW t \in Seq(S)
  PROVE  Begins(s, t) <=> Len(s) <= Len(t) /\ Agree(s, t, Len(s))
<1>1. Len(s) \in Nat /\ Len(t) \in Nat
  BY LenProperties
<1>2. SUFFICES ASSUME Len(s) <= Len(t)
               PROVE  SubSeq(s, 1, Len(s)) = SubSeq(t, 1, Len(s)) <=> Agree(s, t, Len(s))
  BY DEF Begins
<1>3. SubSeq(s, 1, Len(s)) = s
  BY SubSeqFull
<1>4. PICK p : p = SubSeq(t, 1, Len(s))
  OBVIOUS
<1>5. p \in Seq(S) /\ Len(p) = Len(s) /\ \A i \in 1..Len(s) : p[i] = t[i]
  <2>1. \A i \in 1..Len(s) : t[i] \in S
    <3>1. \A i \in 1..Len(s) : i \in 1..Len(t)
      BY <1>1, <1>2
    <3>2. QED BY <3>1, ElementOfSeq
  <2>2. /\ p \in Seq(S) /\ Len(p) = IF 1 <= Len(s) THEN Len(s) - 1 + 1 ELSE 0
        /\ \A i \in 1..(Len(s) - 1 + 1) : p[i] = t[1 + i - 1]
    BY <1>1, <1>4, <2>1, SubSeqProperties
  <2>3. QED BY <1>1, <2>2
<1>6. p = s <=> \A i \in 1..Len(s) : p[i] = s[i]
  BY <1>5, SeqEqual
<1>7. QED BY <1>3, <1>4, <1>5, <1>6 DEF Agree

LEMMA BeginsConcat ==
  ASSUME NEW S, NEW s \in Seq(S), NEW t \in Seq(S), NEW u \in Seq(S), Begins(s, t)
  PROVE  Begins(s, t \o u) /\ Begins(t, t)
<1>1. /\ t \o u \in Seq(S) /\ Len(t \o u) = Len(t) + Len(u)
      /\ \A i \in 1..(Len(t) + Len(u)) : (t \o u)[i] = IF i <= Len(t) THEN t[i] ELSE u[i - Len(t)]
  BY ConcatProperties
<1>2. Len(s) \in Nat /\ Len(t) \in Nat /\ Len(u) \in Nat
  BY LenProperties
<1>3. Len(s) <= Len(t) /\ Agree(s, t, Len(s))
  BY BeginsIs
<1>4. PICK r : r = t \o u
  OBVIOUS
<1>5. Agree(s, r, Len(s))
  <2>1. \A i \in 1..Len(s) : s[i] = t[i]
    BY <1>3 DEF Agree
  <2>2. \A i \in 1..Len(s) : i \in 1..(Len(t) + Len(u)) /\ i <= Len(t)
    BY <1>2, <1>3
  <2>3. QED BY <1>1, <1>4, <2>1, <2>2 DEF Agree
<1>6. Begins(s, r)
  <2>1. r \in Seq(S) /\ Len(s) <= Len(r)
    BY <1>1, <1>2, <1>3, <1>4
  <2>2. QED BY <1>5, <2>1, BeginsIs
<1>7. Begins(t, t)
  BY <1>2 DEF Begins
<1>8. QED BY <1>4, <1>6, <1>7

\* The messages that the runner sees announce the call j of the message i.
AnnouncesIn(ms, i, j) ==
  \E h \in DOMAIN SeenMessages(ms) : /\ SeenMessages(ms)[h].role = ms[i].role
                                     /\ SeenMessages(ms)[h].call = ms[i].calls[j].id

\* Every call is announced: otherwise there were a shortest transcript with one that is not.
LEMMA CallsAreSeen ==
  ASSUME NEW ms \in Seq(MessageType), NEW i \in DOMAIN ms, NEW j \in DOMAIN ms[i].calls
  PROVE  AnnouncesIn(ms, i, j)
<1> DEFINE Bad == {n \in Nat : \E us \in Seq(MessageType) :
                     /\ Len(us) = n
                     /\ \E a \in DOMAIN us : \E b \in DOMAIN us[a].calls : ~AnnouncesIn(us, a, b)}
<1>1. ASSUME Bad # {} PROVE FALSE
  <2>1. PICK n \in Bad : \A k \in Bad : n <= k
    BY <1>1, LeastNumber
  <2>2. PICK us \in Seq(MessageType) :
          /\ Len(us) = n
          /\ \E a \in DOMAIN us : \E b \in DOMAIN us[a].calls : ~AnnouncesIn(us, a, b)
    OBVIOUS
  <2>3. PICK a \in DOMAIN us : \E b \in DOMAIN us[a].calls : ~AnnouncesIn(us, a, b)
    BY <2>2
  <2>4. PICK b \in DOMAIN us[a].calls : ~AnnouncesIn(us, a, b)
    BY <2>3
  <2>5. DOMAIN us = 1..Len(us) /\ Len(us) \in Nat
    BY LenProperties
  <2>6. us # <<>>
    BY <2>5
  <2> HIDE DEF MessageType, SeenType
  <2>7. PICK front \in Seq(MessageType), m \in MessageType : us = Append(front, m)
    BY <2>6, SequenceEmptyOrAppend
  <2>8. /\ Len(front) \in Nat /\ DOMAIN front = 1..Len(front) /\ Len(us) = Len(front) + 1
        /\ us[Len(front) + 1] = m /\ \A x \in 1..Len(front) : us[x] = front[x]
    BY <2>7, AppendProperties, LenProperties
  <2>9. PICK l : l = Len(front)
    OBVIOUS
  <2>10. ~(n <= l)
    BY <2>2, <2>8, <2>9
  <2> HIDE DEF Bad
  <2>11. l \notin Bad
    BY <2>1, <2>10
  <2> USE DEF Bad
  <2>12. ~\E x \in DOMAIN front : \E y \in DOMAIN front[x].calls : ~AnnouncesIn(front, x, y)
    BY <2>7, <2>8, <2>9, <2>11
  <2>13. \A x \in DOMAIN front : \A y \in DOMAIN front[x].calls : AnnouncesIn(front, x, y)
    BY <2>12
  <2>14. PICK s : s = SeenMessages(front)
    OBVIOUS
  <2>15. PICK t : t = Seen(m)
    OBVIOUS
  <2>16. s \in Seq(SeenType) /\ t \in Seq(SeenType) /\ SeenMessages(us) = s \o t
    BY <2>7, <2>14, <2>15, SeenTyped, SeenMessagesTyped, SeenMessagesAppend
  <2>17. PICK r : r = s \o t
    OBVIOUS
  <2>18. /\ r \in Seq(SeenType) /\ Len(r) = Len(s) + Len(t)
         /\ \A x \in 1..(Len(s) + Len(t)) : r[x] = IF x <= Len(s) THEN s[x] ELSE t[x - Len(s)]
    BY <2>16, <2>17, ConcatProperties
  <2>19. /\ Len(s) \in Nat /\ DOMAIN s = 1..Len(s) /\ Len(t) \in Nat /\ DOMAIN t = 1..Len(t)
         /\ DOMAIN r = 1..(Len(s) + Len(t))
    BY <2>16, <2>18, LenProperties
  <2>20. CASE a \in 1..Len(front)
    <3>1. us[a] = front[a] /\ a \in DOMAIN front /\ b \in DOMAIN front[a].calls
      BY <2>8, <2>20
    <3>2. PICK h \in DOMAIN s : s[h].role = front[a].role /\ s[h].call = front[a].calls[b].id
      BY <2>13, <2>14, <3>1 DEF AnnouncesIn
    <3>3. h \in DOMAIN r /\ r[h] = s[h]
      BY <2>18, <2>19
    <3>4. QED BY <2>4, <2>16, <2>17, <3>1, <3>2, <3>3 DEF AnnouncesIn
  <2>21. CASE a = Len(front) + 1
    <3>1. us[a] = m /\ b \in DOMAIN m.calls
      BY <2>8, <2>21
    <3>2. b \in DOMAIN t /\ t[b].role = m.role /\ t[b].call = m.calls[b].id
      BY <2>15, <3>1, SeenTyped
    <3>3. PICK h : h = Len(s) + b
      OBVIOUS
    <3>4. h \in DOMAIN r /\ h \in 1..(Len(s) + Len(t)) /\ ~(h <= Len(s)) /\ h - Len(s) = b
      BY <2>19, <3>2, <3>3
    <3>5. r[h] = t[b]
      BY <2>18, <3>4
    <3>6. QED BY <2>4, <2>16, <2>17, <3>1, <3>2, <3>4, <3>5 DEF AnnouncesIn
  <2>22. QED BY <2>5, <2>8, <2>20, <2>21
<1>2. Len(ms) \in Nat
  BY LenProperties
<1>3. QED BY <1>1, <1>2

-----------------------------------------------------------------------------
(***************************************************************************)
(* The invariant behind the contract.                                      *)
(***************************************************************************)

\* Only assistants make calls.
RolesOK == \A i \in DOMAIN run.messages :
             run.messages[i].calls # <<>> => run.messages[i].role = "assistant"

\* What the loop has is the run it was given, and more.
Extends ==
  pc # "between" =>
    /\ run.version = given.version /\ given.step <= run.step
    /\ Begins(SeenMessages(given.messages), SeenMessages(run.messages))

\* The step leaves the transcript, or appends a message to it.
Adds ==
  \/ run'.messages = run.messages
  \/ \E m \in MessageType : /\ m.calls # <<>> => m.role = "assistant"
                            /\ run'.messages = Append(run.messages, m)

LEMMA UserRole == UserMessage.calls = <<>>
BY MessagesTyped

LEMMA LoopAdds == ASSUME LoopInv, LoopStep PROVE Adds
<1>1. Shape
  BY LoopShape
<1>2. CASE Enters
  BY <1>2, MessagesTyped DEF Enters, Adds
<1>3. ASSUME NEW q \in RequirementSet, NEW cs \in CallLists \cup {<<>>}, Speaks(q, cs)
      PROVE  Adds
  <2>1. PICK m : m = Assistant(q, cs)
    OBVIOUS
  <2>2. m \in MessageType
    BY <2>1, MessagesTyped
  <2>3. m.role = "assistant"
    BY <2>1 DEF Assistant, Message
  <2>4. QED BY <1>3, <2>1, <2>2, <2>3 DEF Speaks, Adds
<1>4. ASSUME NEW k \in ToolCalls, NEW q \in RequirementSet, Hears(k, q) \/ Replays(k)
      PROVE  Adds
  <2>1. PICK x \in RequirementSet : run'.messages = Append(run.messages, Observation(k.id, x))
    BY <1>4, NothingRequired DEF Hears, Replays
  <2>2. PICK m : m = Observation(k.id, x)
    OBVIOUS
  <2>3. m \in MessageType /\ m.calls = <<>>
    BY <2>2, CallIDTyped, MessagesTyped
  <2>4. QED BY <2>1, <2>2, <2>3 DEF Adds
<1>5. CASE Stops
  BY <1>5 DEF Stops, Adds
<1>6. QED BY <1>1, <1>2, <1>3, <1>4, <1>5, NothingRequired DEF Shape

\* A transcript that was added to begins as it was.
LEMMA AddsBegins ==
  ASSUME run \in StateType, Adds
  PROVE  /\ Begins(SeenMessages(run.messages), SeenMessages(run'.messages))
         /\ \A s \in Seq(SeenType) : Begins(s, SeenMessages(run.messages))
                                      => Begins(s, SeenMessages(run'.messages))
<1>1. run.messages \in Seq(MessageType)
  BY StateFields
<1>2. PICK t : t = SeenMessages(run.messages)
  OBVIOUS
<1>3. t \in Seq(SeenType)
  BY <1>1, <1>2, SeenMessagesTyped
<1>4. PICK u \in Seq(SeenType) : SeenMessages(run'.messages) = t \o u
  <2>1. CASE run'.messages = run.messages
    <3> HIDE DEF SeenType
    <3>1. <<>> \in Seq(SeenType) /\ t \o <<>> = t
      BY <1>3, ConcatEmptySeq
    <3>2. QED BY <1>2, <2>1, <3>1
  <2>2. ASSUME NEW m \in MessageType, run'.messages = Append(run.messages, m)
        PROVE  \E u \in Seq(SeenType) : SeenMessages(run'.messages) = t \o u
    <3>1. PICK u : u = Seen(m)
      OBVIOUS
    <3>2. u \in Seq(SeenType) /\ SeenMessages(run'.messages) = t \o u
      BY <1>1, <1>2, <2>2, <3>1, SeenTyped, SeenMessagesAppend
    <3>3. QED BY <3>2
  <2>3. QED BY <2>1, <2>2 DEF Adds
<1>5. \A s \in Seq(SeenType) : Begins(s, t) => Begins(s, t \o u) /\ Begins(t, t)
  BY <1>3, BeginsConcat
<1>6. Begins(t, t)
  <2>1. Len(t) \in Nat
    BY <1>3, LenProperties
  <2>2. QED BY <2>1 DEF Begins
<1>7. QED BY <1>2, <1>3, <1>4, <1>5, <1>6

LEMMA AddsRoles ==
  ASSUME run \in StateType, RolesOK, Adds
  PROVE  RolesOK'
<1>1. CASE run'.messages = run.messages
  BY <1>1 DEF RolesOK
<1>2. ASSUME NEW m \in MessageType, m.calls # <<>> => m.role = "assistant",
             run'.messages = Append(run.messages, m)
      PROVE  RolesOK'
  <2>1. PICK ms : ms = run.messages
    OBVIOUS
  <2>2. PICK us : us = run'.messages
    OBVIOUS
  <2>3. ms \in Seq(MessageType) /\ us = Append(ms, m)
    BY <1>2, <2>1, <2>2, StateFields
  <2>4. /\ us \in Seq(MessageType) /\ Len(us) = Len(ms) + 1 /\ Len(ms) \in Nat
        /\ DOMAIN ms = 1..Len(ms)
        /\ us[Len(ms) + 1] = m /\ \A i \in 1..Len(ms) : us[i] = ms[i]
    BY <2>3, AppendProperties, LenProperties
  <2>5. DOMAIN us = 1..(Len(ms) + 1)
    BY <2>4, LenProperties
  <2>6. ASSUME NEW i \in DOMAIN us PROVE us[i].calls # <<>> => us[i].role = "assistant"
    <3>1. CASE i \in DOMAIN ms
      BY <2>1, <2>4, <3>1 DEF RolesOK
    <3>2. CASE i = Len(ms) + 1
      BY <1>2, <2>4, <3>2
    <3>3. QED BY <2>4, <2>5, <3>1, <3>2
  <2>7. QED BY <2>2, <2>6 DEF RolesOK
<1>3. QED BY <1>1, <1>2 DEF Adds

LEMMA HandOverAdds ==
  ASSUME LoopInv, Carry \/ Resume
  PROVE  /\ Adds /\ run' = given' /\ pc' = "entering" /\ pc = "between"
         /\ run'.step = run.step /\ run.status \notin Terminal
<1>1. run \in StateType
  BY DEF LoopInv, LoopTyped
<1>2. run.messages \in Seq(MessageType)
  BY <1>1, StateFields
<1>3. CASE Carry
  <2>1. PICK max \in MaxSteps, said \in {<<>>, <<UserMessage>>} :
          HandOver([run EXCEPT !.messages = @ \o said], [NoInput EXCEPT !.max = max])
    BY <1>3 DEF Carry
  <2>2. PICK m \in MessageType : m = UserMessage /\ m.calls = <<>>
    BY MessagesTyped
  <2>3. PICK ms : ms = run.messages \o said
    OBVIOUS
  <2>4. ms = run.messages \/ ms = Append(run.messages, m)
    BY <1>2, <2>1, <2>2, <2>3, ConcatEmptySeq, AppendIsConcat
  <2>5. run' = [[run EXCEPT !.messages = ms] EXCEPT !.version = run.version + 1]
        /\ run' = given' /\ pc' = "entering" /\ pc = "between"
    BY <2>1, <2>3 DEF HandOver
  <2>6. run'.messages = ms /\ run'.step = run.step
    BY <1>1, <2>5 DEF StateType
  <2>7. run.status \notin Terminal
    BY <1>3 DEF Carry
  <2>8. QED BY <2>2, <2>4, <2>5, <2>6, <2>7 DEF Adds
<1>4. CASE Resume
  <2>1. PICK in :
          HandOver([run EXCEPT !.status = "running", !.requirement = NoRequirement], in)
    BY <1>4 DEF Resume
  <2>2. PICK st : st = [run EXCEPT !.status = "running", !.requirement = NoRequirement]
    OBVIOUS
  <2>3. st.messages = run.messages /\ st.step = run.step
    BY <1>1, <2>2 DEF StateType
  <2>4. run' = [st EXCEPT !.version = run.version + 1]
        /\ run' = given' /\ pc' = "entering" /\ pc = "between"
    BY <2>1, <2>2 DEF HandOver
  <2>5. run'.messages = st.messages /\ run'.step = st.step
    BY <1>1, <2>2, <2>4 DEF StateType
  <2>6. run.status \notin Terminal
    BY <1>4 DEF Resume, Terminal
  <2>7. QED BY <2>3, <2>4, <2>5, <2>6 DEF Adds
<1>5. QED BY <1>3, <1>4

ContractInv == RolesOK /\ Extends

LEMMA ContractInvNext ==
  ASSUME LoopInv, LoopInv', ContractInv, [Next]_vars
  PROVE  ContractInv'
<1>1. run \in StateType /\ given \in StateType /\ RolesOK /\ Extends
  BY DEF LoopInv, LoopTyped, ContractInv
<1>2. CASE LoopStep
  <2>1. Shape /\ Adds
    BY <1>2, LoopShape, LoopAdds
  <2>2. Keeps
    BY <2>1 DEF Shape
  <2>3. /\ pc # "between" /\ given' = given /\ run'.version = run.version
        /\ run'.step >= run.step /\ run' \in StateType
    BY <2>2 DEF Keeps
  <2>4. run.step \in Nat /\ run'.step \in Nat /\ given.step \in Nat
    BY <1>1, <2>3, StateFields
  <2>5. given.messages \in Seq(MessageType)
    BY <1>1, StateFields
  <2>6. Begins(SeenMessages(given.messages), SeenMessages(run'.messages))
    BY <1>1, <2>1, <2>3, <2>5, SeenMessagesTyped, AddsBegins DEF Extends
  <2>7. given.step <= run'.step
    <3>1. given.step <= run.step
      BY <1>1, <2>3 DEF Extends
    <3>2. QED BY <2>3, <2>4, <3>1
  <2>8. RolesOK'
    BY <1>1, <2>1, AddsRoles
  <2>9. QED BY <1>1, <2>3, <2>6, <2>7, <2>8 DEF Extends, ContractInv
<1>3. CASE Carry \/ Resume
  <2>1. Adds /\ run' = given'
    BY <1>3, HandOverAdds
  <2>2. run' \in StateType
    BY DEF LoopInv, LoopTyped
  <2>3. run'.step \in Nat /\ run'.messages \in Seq(MessageType)
    BY <2>2, StateFields
  <2>4. Len(SeenMessages(run'.messages)) \in Nat
    BY <2>3, SeenMessagesTyped, LenProperties
  <2>5. Begins(SeenMessages(run'.messages), SeenMessages(run'.messages))
    BY <2>4 DEF Begins
  <2>6. RolesOK'
    BY <1>1, <2>1, AddsRoles
  <2>7. QED BY <2>1, <2>3, <2>5, <2>6 DEF Extends, ContractInv
<1>4. CASE EndContext \/ Quiet \/ UNCHANGED vars
  BY <1>1, <1>4 DEF EndContext, Quiet, vars, Aux, RolesOK, Extends, ContractInv
<1>5. QED BY <1>2, <1>3, <1>4 DEF Next

-----------------------------------------------------------------------------
(***************************************************************************)
(* The loop keeps the engine's contract.                                   *)
(***************************************************************************)

LEMMA ContractInvInit == ASSUME Init PROVE ContractInv
<1>1. run.messages = <<UserMessage>> /\ pc = "between"
  BY DEF Init
<1>2. UserMessage.calls = <<>>
  BY MessagesTyped
<1>3. PICK ms : ms = <<UserMessage>>
  OBVIOUS
<1>4. \A i \in DOMAIN ms : ms[i] = UserMessage
  BY <1>3
<1>5. QED BY <1>1, <1>2, <1>3, <1>4 DEF ContractInv, RolesOK, Extends

\* What the runner sees of a state.
LEMMA SeenFields ==
  ASSUME NEW st \in StateType
  PROVE  /\ SeenState(st).id = "run" /\ SeenState(st).version = st.version
         /\ SeenState(st).step = st.step /\ SeenState(st).status = st.status
         /\ SeenState(st).requirement = st.requirement
         /\ SeenState(st).messages = SeenMessages(st.messages)
BY DEF StateType, SeenState

LEMMA SeenValid ==
  ASSUME NEW st \in StateType, SuspensionInvariant(st)
  PROVE  Contract!ValidRunState(SeenState(st))
<1>1. PICK x : x = SeenState(st)
  OBVIOUS
<1>2. /\ x.version = st.version /\ x.step = st.step /\ x.status = st.status
      /\ x.requirement = st.requirement
  BY <1>1, SeenFields
<1>3. st.step \in Nat /\ st.version \in Nat /\ st.status \in KnownStatuses
  BY StateFields
<1>4. x.step >= 0 /\ x.version >= 0
  BY <1>2, <1>3
<1>5. x.status \in Contract!KnownStatuses
  BY <1>2, <1>3 DEF KnownStatuses, Statuses, Contract!KnownStatuses, Contract!Statuses
<1>6. Contract!SuspensionInvariant(x)
  BY <1>2 DEF SuspensionInvariant, Contract!SuspensionInvariant, ValidRequirement,
       Contract!ValidRequirement, NoRequirement, Contract!NoRequirement, RequirementKinds,
       Contract!RequirementKinds, RequirementOrigins, Contract!RequirementOrigins
<1>7. QED BY <1>1, <1>4, <1>5, <1>6 DEF Contract!ValidRunState

\* A requirement with an id is one.
LEMMA IsRequirement == ASSUME NEW q, q.id # "" PROVE q # Contract!NoRequirement
<1>1. PICK n : n = Contract!NoRequirement
  OBVIOUS
<1>2. n.id = ""
  BY <1>1 DEF Contract!NoRequirement
<1>3. QED BY <1>1, <1>2

\* The message that was appended without a call is among those the execution added.
LEMMA AddedSeen ==
  ASSUME run \in StateType, given \in StateType, pc # "between", Extends,
         NEW m \in MessageType, m.calls = <<>>, run'.messages = Append(run.messages, m)
  PROVE  LET a == Contract!Additions(SeenState(given), SeenState(run'))
         IN run' \in StateType =>
            \E i \in DOMAIN a : a[i] = [role |-> m.role, by |-> "loop", call |-> m.call,
                                        requirement |-> m.requirement]
<1> SUFFICES ASSUME run' \in StateType
             PROVE  LET a == Contract!Additions(SeenState(given), SeenState(run'))
                    IN \E i \in DOMAIN a :
                         a[i] = [role |-> m.role, by |-> "loop", call |-> m.call,
                                 requirement |-> m.requirement]
  OBVIOUS
<1>1. PICK x : x = [role |-> m.role, by |-> "loop", call |-> m.call,
                    requirement |-> m.requirement]
  OBVIOUS
<1>2. x \in SeenType
  BY <1>1 DEF MessageType, SeenType
<1>3. PICK t : t = SeenMessages(run.messages)
  OBVIOUS
<1>4. run.messages \in Seq(MessageType) /\ given.messages \in Seq(MessageType)
  BY StateFields
<1>5. t \in Seq(SeenType)
  BY <1>3, <1>4, SeenMessagesTyped
<1>6. PICK s : s = SeenMessages(given.messages)
  OBVIOUS
<1>7. s \in Seq(SeenType) /\ Len(s) \in Nat /\ Len(s) <= Len(t)
  <2>1. s \in Seq(SeenType)
    BY <1>4, <1>6, SeenMessagesTyped
  <2>2. Len(s) \in Nat
    BY <2>1, LenProperties
  <2>3. QED BY <1>3, <1>6, <2>1, <2>2 DEF Extends, Begins
<1>8. SeenMessages(run'.messages) = t \o <<x>>
  BY <1>1, <1>3, <1>4, SeenMessagesAppend, SeenTyped
<1>9. PICK u : u = t \o <<x>>
  OBVIOUS
<1>10. PICK n : n = Len(s)
  OBVIOUS
<1>11. PICK a : a = SubSeq(u, n + 1, Len(u))
  OBVIOUS
<1>12. \E i \in DOMAIN a : a[i] = x
  <2> HIDE DEF SeenType
  <2>1. PICK o : o = <<x>>
    OBVIOUS
  <2>2. o \in Seq(SeenType) /\ Len(o) = 1 /\ o[1] = x
    BY <1>2, <2>1
  <2>3. PICK l : l = Len(t)
    OBVIOUS
  <2>4. l \in Nat /\ n \in Nat /\ n <= l
    BY <1>5, <1>7, <1>10, <2>3, LenProperties
  <2>5. /\ u \in Seq(SeenType) /\ Len(u) = Len(t) + Len(o)
        /\ \A i \in 1..(Len(t) + Len(o)) : u[i] = IF i <= Len(t) THEN t[i] ELSE o[i - Len(t)]
    BY <1>5, <1>9, <2>1, <2>2, ConcatProperties
  <2>6. l + 1 \in 1..(l + 1) /\ ~(l + 1 <= l) /\ (l + 1) - l = 1
    BY <2>4
  <2>7. Len(u) = l + 1 /\ u[l + 1] = x
    BY <2>2, <2>3, <2>5, <2>6
  <2>8. a = SubSeq(u, n + 1, l + 1)
    BY <1>11, <2>7
  <2>9. \A i \in (n + 1)..(l + 1) : u[i] \in SeenType
    <3>1. \A i \in (n + 1)..(l + 1) : i \in 1..(l + 1)
      BY <2>4
    <3>2. QED BY <2>5, <2>7, <3>1, ElementOfSeq
  <2>10. n + 1 <= l + 1
    BY <2>4
  <2>11. /\ a \in Seq(SeenType)
         /\ Len(a) = IF n + 1 <= l + 1 THEN (l + 1) - (n + 1) + 1 ELSE 0
         /\ \A i \in 1..((l + 1) - (n + 1) + 1) : a[i] = u[(n + 1) + i - 1]
    BY <2>4, <2>5, <2>8, <2>9, SubSeqProperties
  <2>12. DOMAIN a = 1..(l - n + 1)
    <3>1. Len(a) = l - n + 1
      BY <2>4, <2>10, <2>11
    <3>2. QED BY <2>11, <3>1, LenProperties
  <2>13. l - n + 1 \in 1..(l - n + 1) /\ l - n + 1 \in 1..((l + 1) - (n + 1) + 1)
         /\ (n + 1) + (l - n + 1) - 1 = l + 1
    BY <2>4, <2>10
  <2>14. a[l - n + 1] = x
    BY <2>7, <2>11, <2>13
  <2>15. QED BY <2>12, <2>13, <2>14
<1>13. PICK prev : prev = SeenState(given)
  OBVIOUS
<1>14. PICK next : next = SeenState(run')
  OBVIOUS
<1>15. prev.messages = s /\ next.messages = u
  BY <1>6, <1>8, <1>9, <1>13, <1>14, SeenFields
<1>16. Contract!Additions(prev, next) = a
  BY <1>11, <1>15, <1>10 DEF Contract!Additions
<1>17. QED BY <1>1, <1>12, <1>13, <1>14, <1>16

LEMMA ReturnProvenance ==
  ASSUME LoopInv, LoopInv', ContractInv, LoopStep, pc' = "between"
  PROVE  /\ Contract!Provenance(SeenState(given), SeenState(run'))
         /\ run'.status \in {"failed", "completed", "cancelled", "suspended", "max_steps_exceeded"}
<1>1. Shape
  BY LoopShape
<1>2. /\ pc # "between" /\ run \in StateType /\ run' \in StateType /\ given \in StateType
      /\ RolesOK /\ Extends
  BY <1>1 DEF Shape, Keeps, LoopInv, LoopTyped, ContractInv
<1>3. PICK prev : prev = SeenState(given)
  OBVIOUS
<1>4. PICK next : next = SeenState(run')
  OBVIOUS
<1>5. next.status = run'.status /\ next.requirement = run'.requirement
      /\ next.messages = SeenMessages(run'.messages)
  BY <1>2, <1>4, SeenFields
<1>6. ASSUME run'.status \in {"failed", "completed", "cancelled", "max_steps_exceeded"}
      PROVE  Contract!Provenance(prev, next)
  BY <1>5, <1>6 DEF Contract!Provenance
<1>7. CASE Enters
  BY <1>7 DEF Enters
<1>8. ASSUME NEW q \in RequirementSet, NEW cs \in CallLists \cup {<<>>}, Speaks(q, cs)
      PROVE  /\ Contract!Provenance(prev, next)
             /\ run'.status \in {"failed", "completed", "suspended"}
  <2>1. CASE run'.status \in {"failed", "completed"}
    BY <1>6, <2>1
  <2>2. CASE /\ run'.status = "suspended" /\ run'.requirement = q /\ q.origin = "model"
             /\ ValidRequirement(q) /\ cs = <<>>
    <3>1. PICK m : m = Assistant(q, cs)
      OBVIOUS
    <3>2. m \in MessageType /\ m.calls = <<>>
      BY <2>2, <3>1, MessagesTyped
    <3>3. m.role = "assistant" /\ m.requirement = q
      BY <3>1 DEF Assistant, Message
    <3>4. run'.messages = Append(run.messages, m)
      BY <1>8, <3>1 DEF Speaks
    <3>5. PICK a : a = Contract!Additions(prev, next)
      OBVIOUS
    <3>6. PICK i \in DOMAIN a : a[i] = [role |-> m.role, by |-> "loop", call |-> m.call,
                                        requirement |-> m.requirement]
      BY <1>2, <1>3, <1>4, <3>2, <3>4, <3>5, AddedSeen
    <3>7. a[i].role = "assistant" /\ a[i].requirement = q
      BY <3>3, <3>6
    <3>8. q # Contract!NoRequirement
      <4>1. q.id # ""
        BY <2>2 DEF ValidRequirement
      <4>2. QED BY <4>1, IsRequirement
    <3>9. Contract!AssistantRequired(a, q)
      BY <3>7, <3>8 DEF Contract!AssistantRequired, Contract!SameRequirement
    <3>10. QED BY <1>5, <2>2, <3>5, <3>9 DEF Contract!Provenance
  <2>3. QED BY <1>8, <2>1, <2>2 DEF Speaks, Proceeds
<1>9. ASSUME NEW k \in ToolCalls, NEW q \in RequirementSet, Hears(k, q)
      PROVE  /\ Contract!Provenance(prev, next)
             /\ run'.status \in {"failed", "suspended"}
  <2>1. CASE run'.status = "failed"
    BY <1>6, <2>1
  <2>2. CASE /\ run'.status = "suspended" /\ run'.requirement = q /\ q.origin = "tool"
             /\ q.call = k.id
    <3>1. PICK m : m = Observation(k.id, q)
      OBVIOUS
    <3>2. m \in MessageType /\ m.calls = <<>>
      BY <3>1, CallIDTyped, MessagesTyped
    <3>3. m.role = "tool" /\ m.call = k.id
      BY <3>1 DEF Observation, Message
    <3>4. run'.messages = Append(run.messages, m)
      BY <1>9, <3>1 DEF Hears
    <3>5. PICK a : a = Contract!Additions(prev, next)
      OBVIOUS
    <3>6. PICK i \in DOMAIN a : a[i] = [role |-> m.role, by |-> "loop", call |-> m.call,
                                        requirement |-> m.requirement]
      BY <1>2, <1>3, <1>4, <3>2, <3>4, <3>5, AddedSeen
    <3>7. a[i].role = "tool" /\ a[i].call = k.id
      BY <3>3, <3>6
    <3>8. pc = "acting" /\ k = Head(calls)
      BY <1>9 DEF Hears
    <3>9. Named(k) /\ LatestCall(run.messages, k)
      BY <3>8, ActingFacts
    <3>10. k.id # ""
      BY <3>9 DEF Named
    <3>11. Contract!Observed(a, q.call)
      BY <2>2, <3>7, <3>10 DEF Contract!Observed
    <3>12. PICK h \in DOMAIN run.messages :
             \E j \in DOMAIN run.messages[h].calls : run.messages[h].calls[j] = k
      BY <3>9 DEF LatestCall
    <3>13. PICK j \in DOMAIN run.messages[h].calls : run.messages[h].calls[j] = k
      BY <3>12
    <3>14. run.messages \in Seq(MessageType) /\ run'.messages \in Seq(MessageType)
      BY <1>2, StateFields
    <3>15. PICK ms : ms = run.messages
      OBVIOUS
    <3>16. PICK us : us = run'.messages
      OBVIOUS
    <3>17. h \in DOMAIN us /\ us[h] = ms[h]
      <4>1. ms \in Seq(MessageType) /\ us = Append(ms, m) /\ h \in DOMAIN ms
        BY <3>4, <3>13, <3>14, <3>15, <3>16
      <4>2. /\ us \in Seq(MessageType) /\ Len(us) = Len(ms) + 1 /\ Len(ms) \in Nat
            /\ DOMAIN ms = 1..Len(ms) /\ \A x \in 1..Len(ms) : us[x] = ms[x]
        BY <3>2, <4>1, AppendProperties, LenProperties
      <4>3. DOMAIN us = 1..(Len(ms) + 1)
        BY <4>2, LenProperties
      <4>4. QED BY <4>1, <4>2, <4>3
    <3>18. us \in Seq(MessageType) /\ j \in DOMAIN us[h].calls /\ us[h].calls[j] = k
      BY <3>13, <3>14, <3>15, <3>16, <3>17
    <3>19. us[h].role = "assistant"
      <4>1. ms[h].calls # <<>>
        <5>1. DOMAIN <<>> = {}
          OBVIOUS
        <5>2. QED BY <3>13, <3>15, <5>1
      <4>2. QED BY <1>2, <3>13, <3>15, <3>17, <4>1 DEF RolesOK
    <3>20. AnnouncesIn(us, h, j)
      BY <3>17, <3>18, CallsAreSeen
    <3>21. Contract!Announced(next.messages, q.call)
      BY <1>5, <2>2, <3>10, <3>16, <3>18, <3>19, <3>20
         DEF AnnouncesIn, Contract!Announced
    <3>22. QED BY <1>5, <2>2, <3>5, <3>11, <3>21 DEF Contract!Provenance
  <2>3. QED BY <1>9, <2>1, <2>2 DEF Hears, Proceeds
<1>10. ASSUME NEW k \in ToolCalls, Replays(k) PROVE FALSE
  BY <1>10 DEF Replays, Proceeds
<1>11. CASE Stops
  BY <1>3, <1>4, <1>6, <1>11 DEF Stops
<1>12. QED BY <1>1, <1>3, <1>4, <1>7, <1>8, <1>9, <1>10, <1>11 DEF Shape

LEMMA LoopReturns ==
  ASSUME LoopInv, LoopInv', ContractInv, ContractInv', LoopStep
  PROVE  [Contract!Next]_(Contract!callVars)
<1>1. Keeps
  BY LoopShape DEF Shape
<1>2. /\ pc # "between" /\ run' \in StateType /\ given \in StateType /\ given' = given
      /\ run \in StateType /\ Extends /\ run'.version = run.version /\ run'.step >= run.step
  BY <1>1 DEF Keeps, LoopInv, LoopTyped, ContractInv
<1>3. CASE pc' # "between"
  <2>1. (pc # "between") = TRUE /\ (pc' # "between") = TRUE
    BY <1>2, <1>3
  <2>2. QED BY <1>2, <1>3, <2>1 DEF Contract!callVars
<1>4. CASE pc' = "between"
  <2>1. PICK prev : prev = SeenState(given)
    OBVIOUS
  <2>2. PICK next : next = SeenState(run')
    OBVIOUS
  <2>3. Contract!Provenance(prev, next)
        /\ run'.status \in {"failed", "completed", "cancelled", "suspended", "max_steps_exceeded"}
    BY <1>4, <2>1, <2>2, ReturnProvenance
  <2>4. /\ prev.id = "run" /\ prev.version = given.version /\ prev.step = given.step
        /\ prev.messages = SeenMessages(given.messages)
    BY <1>2, <2>1, SeenFields
  <2>5. /\ next.id = "run" /\ next.version = run'.version /\ next.step = run'.step
        /\ next.status = run'.status /\ next.messages = SeenMessages(run'.messages)
    BY <1>2, <2>2, SeenFields
  <2>6. Contract!IsPrefix(prev.messages, next.messages)
    <3>1. run \in StateType /\ Adds
      BY <1>2, LoopAdds
    <3>2. given.messages \in Seq(MessageType)
      BY <1>2, StateFields
    <3>3. SeenMessages(given.messages) \in Seq(SeenType)
      BY <3>2, SeenMessagesTyped
    <3>4. Begins(SeenMessages(given.messages), SeenMessages(run.messages))
      BY <1>2 DEF Extends
    <3>5. Begins(prev.messages, next.messages)
      BY <2>4, <2>5, <3>1, <3>3, <3>4, AddsBegins
    <3>6. QED BY <3>5 DEF Begins, Contract!IsPrefix
  <2>7. next.step >= prev.step
    <3>1. given.step <= run.step
      BY <1>2 DEF Extends
    <3>2. run.step \in Nat /\ run'.step \in Nat /\ given.step \in Nat
      BY <1>2, StateFields
    <3>3. QED BY <1>2, <2>4, <2>5, <3>1, <3>2
  <2>8. Contract!ValidEngineOutput(prev, next)
    BY <2>3, <2>4, <2>5, <2>6, <2>7 DEF Contract!ValidEngineOutput
  <2>9. Contract!ValidRunState(next)
    <3>1. SuspensionInvariant(run')
      BY DEF LoopInv, StatusOK
    <3>2. QED BY <1>2, <2>2, <3>1, SeenValid
  <2>10. next.version = prev.version
    BY <1>2, <2>4, <2>5 DEF Extends
  <2>11. next.status \in Contract!Returned
    BY <2>3, <2>5 DEF Contract!Returned, Contract!Terminal
  <2>12. Contract!Return
    BY <1>2, <1>4, <2>1, <2>2, <2>8, <2>9, <2>10, <2>11 DEF Contract!Return
  <2>13. QED BY <2>12 DEF Contract!Next
<1>5. QED BY <1>3, <1>4

LEMMA HandOverBegins ==
  ASSUME LoopInv, LoopInv', Carry \/ Resume
  PROVE  Contract!Next
<1>1. /\ Adds /\ run' = given' /\ pc' = "entering" /\ pc = "between"
      /\ run'.step = run.step /\ run.status \notin Terminal
  BY HandOverAdds
<1>2. run \in StateType /\ run' \in StateType /\ given' \in StateType
  BY DEF LoopInv, LoopTyped
<1>3. PICK prev : prev = SeenState(run)
  OBVIOUS
<1>4. PICK next : next = SeenState(given')
  OBVIOUS
<1>5. /\ prev.id = "run" /\ prev.step = run.step /\ prev.status = run.status
      /\ prev.messages = SeenMessages(run.messages)
  BY <1>2, <1>3, SeenFields
<1>6. /\ next.id = "run" /\ next.step = given'.step /\ next.status = given'.status
      /\ next.messages = SeenMessages(given'.messages)
  BY <1>2, <1>4, SeenFields
<1>7. Contract!IsPrefix(prev.messages, next.messages)
  BY <1>1, <1>2, <1>5, <1>6, AddsBegins DEF Begins, Contract!IsPrefix
<1>8. given'.status \in Resumable /\ given'.requirement = NoRequirement
  BY DEF LoopInv, StatusOK
<1>9. Contract!ValidRunState(next)
  <2>1. SuspensionInvariant(given')
    BY <1>8 DEF SuspensionInvariant, Resumable
  <2>2. QED BY <1>2, <1>4, <2>1, SeenValid
<1>10. prev.status \notin Contract!Terminal
  BY <1>1, <1>5 DEF Terminal, Contract!Terminal
<1>11. next.status \notin Contract!Terminal \cup {"suspended"}
  BY <1>6, <1>8 DEF Resumable, Contract!Terminal
<1>12. next.step = prev.step
  BY <1>1, <1>5, <1>6
<1>13. Contract!Begin
  BY <1>1, <1>3, <1>4, <1>5, <1>6, <1>7, <1>9, <1>10, <1>11, <1>12 DEF Contract!Begin
<1>14. QED BY <1>13 DEF Contract!Next

LEMMA ContractNext ==
  ASSUME LoopInv, LoopInv', ContractInv, ContractInv', [Next]_vars
  PROVE  [Contract!Next]_(Contract!callVars)
<1>1. CASE LoopStep
  BY <1>1, LoopReturns
<1>2. CASE Carry \/ Resume
  BY <1>2, HandOverBegins
<1>3. CASE EndContext \/ Quiet \/ UNCHANGED vars
  BY <1>3 DEF EndContext, Quiet, vars, Aux, Contract!callVars
<1>4. QED BY <1>1, <1>2, <1>3 DEF Next

LEMMA ContractInit == ASSUME Init, LoopInv PROVE Contract!Init
<1>1. pc = "between" /\ run.status = "pending"
  BY DEF Init
<1>2. run \in StateType /\ SuspensionInvariant(run)
  BY DEF LoopInv, LoopTyped, StatusOK
<1>3. Contract!ValidRunState(SeenState(run)) /\ SeenState(run).status = "pending"
  BY <1>1, <1>2, SeenValid, SeenFields
<1>4. QED BY <1>1, <1>3 DEF Contract!Init

\* Whatever the model and the tools do, the runner accepts what the loop returns
\* (validateEngineOutput): the loop implements the engine's contract.
THEOREM LoopImplementsContract == Spec => ImplementsContract
<1>1. Init => LoopInv /\ ContractInv /\ Contract!Init
  BY InitInv, ContractInvInit, ContractInit
<1>2. LoopInv /\ ContractInv /\ [Next]_vars => (LoopInv /\ ContractInv)'
  BY NextInv, ContractInvNext
<1>3. LoopInv /\ LoopInv' /\ ContractInv /\ ContractInv' /\ [Next]_vars
      => [Contract!Next]_(Contract!callVars)
  BY ContractNext
<1>4. QED BY <1>1, <1>2, <1>3, PTL DEF Spec, ImplementsContract, Contract!Spec

-----------------------------------------------------------------------------
(***************************************************************************)
(* The answers to an assistant's calls, when a message is appended.        *)
(***************************************************************************)

LEMMA AppendParts ==
  ASSUME NEW S, NEW s \in Seq(S), NEW x \in S, NEW t, t = Append(s, x)
  PROVE  /\ t \in Seq(S) /\ Len(s) \in Nat /\ Len(t) = Len(s) + 1
         /\ DOMAIN s = 1..Len(s) /\ DOMAIN t = 1..(Len(s) + 1)
         /\ t[Len(s) + 1] = x /\ \A i \in 1..Len(s) : t[i] = s[i]
<1>1. /\ t \in Seq(S) /\ Len(t) = Len(s) + 1 /\ Len(s) \in Nat /\ DOMAIN s = 1..Len(s)
      /\ t[Len(s) + 1] = x /\ \A i \in 1..Len(s) : t[i] = s[i]
  BY AppendProperties, LenProperties
<1>2. DOMAIN t = 1..(Len(s) + 1)
  BY <1>1, LenProperties
<1>3. QED BY <1>1, <1>2

\* The answers are positions of the transcript, and those up to j some of them.
LEMMA AnswersTyped ==
  ASSUME NEW ms \in Seq(MessageType), NEW i
  PROVE  LET A == AnswersTo(ms, i)  T == Cardinality(A) IN
         /\ A \subseteq 1..Len(ms) /\ IsFiniteSet(A) /\ T \in Nat
         /\ \A j : Nth(ms, i, j) \in Nat /\ Nth(ms, i, j) <= T
<1>1. PICK A : A = AnswersTo(ms, i)
  OBVIOUS
<1>2. Len(ms) \in Nat /\ DOMAIN ms = 1..Len(ms)
  BY LenProperties
<1>3. A \subseteq 1..Len(ms)
  BY <1>1, <1>2 DEF AnswersTo
<1>4. IsFiniteSet(A)
  <2>1. IsFiniteSet(1..Len(ms))
    BY <1>2, FS_Interval
  <2>2. QED BY <1>3, <2>1, FS_Subset
<1>5. Cardinality(A) \in Nat
  BY <1>4, FS_CardinalityType
<1>6. ASSUME NEW j
      PROVE  Nth(ms, i, j) \in Nat /\ Nth(ms, i, j) <= Cardinality(A)
  <2>1. PICK B : B = {h \in A : h <= j}
    OBVIOUS
  <2>2. B \subseteq A
    BY <2>1
  <2>3. IsFiniteSet(B) /\ Cardinality(B) <= Cardinality(A)
    BY <1>4, <2>2, FS_Subset
  <2>4. Cardinality(B) \in Nat
    BY <2>3, FS_CardinalityType
  <2>5. Nth(ms, i, j) = Cardinality(B)
    BY <1>1, <2>1 DEF Nth
  <2>6. QED BY <2>3, <2>4, <2>5
<1>7. QED BY <1>1, <1>3, <1>4, <1>5, <1>6

\* A message that was appended is an answer to the calls of the last assistant, if it is
\* a tool's.
LEMMA AnswersGrow ==
  ASSUME NEW ms \in Seq(MessageType), NEW m \in MessageType, NEW us, us = Append(ms, m),
         NEW i \in DOMAIN ms
  PROVE  /\ i \in DOMAIN us /\ us[i] = ms[i]
         /\ LastAssistant(us, i) <=> LastAssistant(ms, i) /\ m.role # "assistant"
         /\ ~(m.role = "tool" /\ LastAssistant(ms, i)) => AnswersTo(us, i) = AnswersTo(ms, i)
         /\ m.role = "tool" /\ LastAssistant(ms, i)
              => \A x : x \in AnswersTo(us, i) <=> x \in AnswersTo(ms, i) \/ x = Len(ms) + 1
<1> HIDE DEF MessageType
<1>1. PICK l : l = Len(ms)
  OBVIOUS
<1>2. /\ l \in Nat /\ DOMAIN ms = 1..l /\ DOMAIN us = 1..(l + 1)
      /\ us[l + 1] = m /\ \A x \in 1..l : us[x] = ms[x]
  BY <1>1, AppendParts
<1>3. i \in DOMAIN us /\ us[i] = ms[i]
  BY <1>2
<1>4. \A x \in 1..(l + 1) : x \in 1..l \/ x = l + 1
  BY <1>2
<1>5. \A x \in 1..l : x \in 1..(l + 1) /\ x < l + 1 /\ ~(l + 1 < x)
  BY <1>2
<1>6. i < l + 1 /\ l + 1 \in 1..(l + 1) /\ ~(l + 1 < l + 1)
  BY <1>2
<1>7. LastAssistant(us, i) <=> LastAssistant(ms, i) /\ m.role # "assistant"
  BY <1>2, <1>4, <1>5, <1>6 DEF LastAssistant
<1>8. \A x \in 1..l : x \in AnswersTo(us, i) <=> x \in AnswersTo(ms, i)
  BY <1>2, <1>4, <1>5, <1>6 DEF AnswersTo
<1>9. l + 1 \in AnswersTo(us, i) <=> m.role = "tool" /\ LastAssistant(ms, i)
  BY <1>2, <1>4, <1>5, <1>6 DEF AnswersTo, LastAssistant
<1>10. AnswersTo(us, i) \subseteq 1..(l + 1) /\ AnswersTo(ms, i) \subseteq 1..l
  BY <1>2 DEF AnswersTo
<1>11. /\ ~(m.role = "tool" /\ LastAssistant(ms, i)) => AnswersTo(us, i) = AnswersTo(ms, i)
       /\ m.role = "tool" /\ LastAssistant(ms, i)
            => \A x : x \in AnswersTo(us, i) <=> x \in AnswersTo(ms, i) \/ x = l + 1
  BY <1>4, <1>5, <1>8, <1>9, <1>10
<1>12. QED BY <1>1, <1>3, <1>7, <1>11

\* To the calls of the others it is none.
LEMMA SameAnswers ==
  ASSUME NEW ms \in Seq(MessageType), NEW m \in MessageType, NEW us, us = Append(ms, m),
         NEW i \in DOMAIN ms, ~(m.role = "tool" /\ LastAssistant(ms, i))
  PROVE  /\ Cardinality(AnswersTo(us, i)) = Cardinality(AnswersTo(ms, i))
         /\ \A n : /\ BlockedAt(us, i, n) <=> BlockedAt(ms, i, n)
                   /\ AnswersFirst(us, i, n) <=> AnswersFirst(ms, i, n)
<1>1. PICK A : A = AnswersTo(ms, i)
  OBVIOUS
<1>2. AnswersTo(us, i) = A /\ us[i] = ms[i]
  BY <1>1, AnswersGrow
<1>3. A \subseteq 1..Len(ms)
  BY <1>1, AnswersTyped
<1>4. \A j \in A : us[j] = ms[j]
  <2> HIDE DEF MessageType
  <2>1. QED BY <1>3, AppendParts
<1>5. \A j : Nth(us, i, j) = Nth(ms, i, j)
  BY <1>1, <1>2 DEF Nth
<1>6. \A n : BlockedAt(us, i, n) <=> BlockedAt(ms, i, n)
  BY <1>1, <1>2, <1>4, <1>5 DEF BlockedAt
<1>7. \A n : AnswersFirst(us, i, n) <=> AnswersFirst(ms, i, n)
  BY <1>1, <1>2, <1>4, <1>5, <1>6 DEF AnswersFirst
<1>8. QED BY <1>1, <1>2, <1>6, <1>7

\* The message that was appended is one more answer to the n there were.
OneMore(ms, m, us, i, n) ==
  /\ n \in Nat /\ Cardinality(AnswersTo(us, i)) = n + 1
  /\ \A x : x \in AnswersTo(us, i) <=> x \in AnswersTo(ms, i) \/ x = Len(ms) + 1
  /\ us[Len(ms) + 1] = m /\ Nth(us, i, Len(ms) + 1) = n + 1
  /\ \A j \in AnswersTo(ms, i) : /\ us[j] = ms[j]
                                 /\ Nth(us, i, j) = Nth(ms, i, j)
                                 /\ Nth(ms, i, j) \in Nat /\ Nth(ms, i, j) <= n
  /\ \A h : BlockedAt(ms, i, h) => BlockedAt(us, i, h)
  /\ m.requirement # NoRequirement => BlockedAt(us, i, n + 1)

\* To the calls of the last assistant it is the next.
LEMMA OneMoreAnswer ==
  ASSUME NEW ms \in Seq(MessageType), NEW m \in MessageType, NEW us, us = Append(ms, m),
         NEW i \in DOMAIN ms, m.role = "tool", LastAssistant(ms, i),
         NEW n, n = Cardinality(AnswersTo(ms, i))
  PROVE  OneMore(ms, m, us, i, n)
<1> HIDE DEF MessageType
<1>1. PICK l : l = Len(ms)
  OBVIOUS
<1>2. l \in Nat /\ us[l + 1] = m /\ \A x \in 1..l : us[x] = ms[x]
  BY <1>1, AppendParts
<1>3. PICK A : A = AnswersTo(ms, i)
  OBVIOUS
<1>4. PICK B : B = AnswersTo(us, i)
  OBVIOUS
<1>5. B = A \cup {l + 1}
  <2>1. \A x : x \in AnswersTo(us, i) <=> x \in AnswersTo(ms, i) \/ x = Len(ms) + 1
    BY AnswersGrow
  <2>2. QED BY <1>1, <1>3, <1>4, <2>1
<1>6. A \subseteq 1..l /\ IsFiniteSet(A) /\ n \in Nat
      /\ \A j : Nth(ms, i, j) \in Nat /\ Nth(ms, i, j) <= n
  BY <1>1, <1>3, AnswersTyped
<1>7. l + 1 \notin A
  BY <1>2, <1>6
<1>8. Cardinality(B) = n + 1
  BY <1>3, <1>5, <1>6, <1>7, FS_AddElement
<1>9. {h \in B : h <= l + 1} = B
  <2>1. \A h \in B : h <= l + 1
    <3>1. \A h \in 1..l : h <= l + 1
      BY <1>2
    <3>2. l + 1 <= l + 1
      BY <1>2
    <3>3. QED BY <1>5, <1>6, <3>1, <3>2
  <2>2. QED BY <2>1
<1>10. Nth(us, i, l + 1) = n + 1
  BY <1>4, <1>8, <1>9 DEF Nth
<1>11. ASSUME NEW j \in A
       PROVE  us[j] = ms[j] /\ Nth(us, i, j) = Nth(ms, i, j)
  <2>1. j \in 1..l /\ ~(l + 1 <= j)
    BY <1>2, <1>6
  <2>2. {h \in B : h <= j} = {h \in A : h <= j}
    BY <1>5, <2>1
  <2>3. QED BY <1>2, <1>3, <1>4, <2>1, <2>2 DEF Nth
<1>12. \A h : BlockedAt(ms, i, h) => BlockedAt(us, i, h)
  BY <1>3, <1>4, <1>5, <1>11 DEF BlockedAt
<1>13. m.requirement # NoRequirement => BlockedAt(us, i, n + 1)
  BY <1>2, <1>4, <1>5, <1>10 DEF BlockedAt
<1>14. QED BY <1>1, <1>2, <1>3, <1>4, <1>5, <1>6, <1>8, <1>10, <1>11, <1>12, <1>13 DEF OneMore

\* The answers to the calls at i are complete, or stop at one that was blocked.
Closed(ms, i) ==
  \E n \in 0..Len(ms[i].calls) :
    AnswersFirst(ms, i, n) /\ (n = Len(ms[i].calls) \/ BlockedAt(ms, i, n))

\* The last assistant's message, at i, has answers to its first n calls.
Turn(ms, i, n) ==
  /\ i \in DOMAIN ms /\ n \in 0..Len(ms[i].calls)
  /\ ms[i].role = "assistant" /\ LastAssistant(ms, i)
  /\ Cardinality(AnswersTo(ms, i)) = n /\ AnswersFirst(ms, i, n)

\* The calls of the others are closed.
OthersClosed(ms, i) == \A h \in DOMAIN ms : ms[h].calls # <<>> /\ h # i => Closed(ms, h)

AllClosed(ms) == \A h \in DOMAIN ms : ms[h].calls # <<>> => Closed(ms, h)

\* At most the last turn is open.
LastOpen(ms) == AllClosed(ms) \/ \E i, n : Turn(ms, i, n) /\ OthersClosed(ms, i)

\* cs are the calls of the last turn that have no answer yet.
ActsAt(ms, i, n, cs) ==
  /\ Turn(ms, i, n) /\ OthersClosed(ms, i)
  /\ Len(ms[i].calls) = n + Len(cs)
  /\ \A j \in DOMAIN cs : ms[i].calls[n + j] = cs[j]

Acts(ms, cs) == \E i, n : ActsAt(ms, i, n, cs)

\* The last answer is that of a blocked call with this id.
Blocks(ms, id) ==
  \E i, n : /\ Turn(ms, i, n) /\ n # 0
            /\ BlockedAt(ms, i, n) /\ ms[i].calls[n].id = id

\* Only assistants make calls.
OnlyAssistants(ms) == \A i \in DOMAIN ms : ms[i].calls # <<>> => ms[i].role = "assistant"

LEMMA ClosedStays ==
  ASSUME NEW ms \in Seq(MessageType), NEW m \in MessageType, NEW us, us = Append(ms, m),
         NEW i \in DOMAIN ms, Closed(ms, i), ~(m.role = "tool" /\ LastAssistant(ms, i))
  PROVE  Closed(us, i) /\ us[i] = ms[i]
<1>1. us[i] = ms[i]
  BY AnswersGrow
<1>2. \A n : /\ BlockedAt(us, i, n) <=> BlockedAt(ms, i, n)
             /\ AnswersFirst(us, i, n) <=> AnswersFirst(ms, i, n)
  BY SameAnswers
<1>3. QED BY <1>1, <1>2 DEF Closed

\* There is one last assistant.
LEMMA OneLast ==
  ASSUME NEW ms \in Seq(MessageType), OnlyAssistants(ms), NEW i, NEW n, Turn(ms, i, n),
         NEW h \in DOMAIN ms, h # i, ms[h].calls # <<>>
  PROVE  ~LastAssistant(ms, h)
<1>1. DOMAIN ms = 1..Len(ms) /\ Len(ms) \in Nat
  BY LenProperties
<1>2. i \in DOMAIN ms /\ LastAssistant(ms, i) /\ ms[i].role = "assistant"
      /\ ms[h].role = "assistant"
  BY DEF Turn, OnlyAssistants
<1>3. i > h \/ h > i
  BY <1>1, <1>2
<1>4. QED BY <1>2, <1>3 DEF LastAssistant

\* What is not the turn's stays closed, whatever is appended.
LEMMA OthersStay ==
  ASSUME NEW ms \in Seq(MessageType), NEW m \in MessageType, NEW us, us = Append(ms, m),
         OnlyAssistants(ms), m.calls = <<>>, NEW i, NEW n, Turn(ms, i, n), OthersClosed(ms, i)
  PROVE  OthersClosed(us, i)
<1>1. ASSUME NEW h \in DOMAIN us, us[h].calls # <<>>, h # i
      PROVE  Closed(us, h)
  <2>1. h \in DOMAIN ms /\ us[h] = ms[h]
    <3> HIDE DEF MessageType
    <3>1. /\ Len(ms) \in Nat /\ DOMAIN ms = 1..Len(ms) /\ DOMAIN us = 1..(Len(ms) + 1)
          /\ us[Len(ms) + 1] = m /\ \A x \in 1..Len(ms) : us[x] = ms[x]
      BY AppendParts
    <3>2. h # Len(ms) + 1
      BY <1>1, <3>1
    <3>3. QED BY <3>1, <3>2
  <2>2. Closed(ms, h)
    BY <1>1, <2>1 DEF OthersClosed
  <2>3. ~LastAssistant(ms, h)
    BY <1>1, <2>1, OneLast
  <2>4. QED BY <2>1, <2>2, <2>3, ClosedStays
<1>2. QED BY <1>1 DEF OthersClosed

\* A message of a user answers nothing.
LEMMA UserAppended ==
  ASSUME NEW ms \in Seq(MessageType), NEW m \in MessageType, NEW us, us = Append(ms, m),
         m.role = "user", m.calls = <<>>
  PROVE  /\ AllClosed(ms) => AllClosed(us)
         /\ \A id : Blocks(ms, id) => Blocks(us, id)
<1>1. /\ Len(ms) \in Nat /\ DOMAIN ms = 1..Len(ms) /\ DOMAIN us = 1..(Len(ms) + 1)
      /\ us[Len(ms) + 1] = m /\ \A x \in 1..Len(ms) : us[x] = ms[x]
  <2> HIDE DEF MessageType
  <2>1. QED BY AppendParts
<1>2. ASSUME AllClosed(ms) PROVE AllClosed(us)
  <2>1. ASSUME NEW h \in DOMAIN us, us[h].calls # <<>>
        PROVE  Closed(us, h)
    <3>1. h # Len(ms) + 1
      BY <1>1, <2>1
    <3>2. h \in DOMAIN ms /\ us[h] = ms[h]
      BY <1>1, <3>1
    <3>3. Closed(ms, h)
      BY <1>2, <2>1, <3>2 DEF AllClosed
    <3>4. QED BY <3>2, <3>3, ClosedStays
  <2>2. QED BY <2>1 DEF AllClosed
<1>3. ASSUME NEW id, Blocks(ms, id) PROVE Blocks(us, id)
  <2>1. PICK i, n : /\ Turn(ms, i, n) /\ n # 0
                    /\ BlockedAt(ms, i, n) /\ ms[i].calls[n].id = id
    BY <1>3 DEF Blocks
  <2>2. i \in DOMAIN ms
    BY <2>1 DEF Turn
  <2>3. i \in DOMAIN us /\ us[i] = ms[i] /\ (LastAssistant(ms, i) => LastAssistant(us, i))
    BY <2>2, AnswersGrow
  <2>4. /\ Cardinality(AnswersTo(us, i)) = Cardinality(AnswersTo(ms, i))
        /\ BlockedAt(us, i, n) <=> BlockedAt(ms, i, n)
        /\ AnswersFirst(us, i, n) <=> AnswersFirst(ms, i, n)
    BY <2>2, SameAnswers
  <2>5. Turn(us, i, n)
    BY <2>1, <2>3, <2>4 DEF Turn
  <2>6. QED BY <2>1, <2>3, <2>4, <2>5 DEF Blocks
<1>4. QED BY <1>2, <1>3

\* A message of the assistant begins a turn.
LEMMA AssistantAppended ==
  ASSUME NEW ms \in Seq(MessageType), NEW m \in MessageType, NEW us, us = Append(ms, m),
         m.role = "assistant", AllClosed(ms)
  PROVE  /\ m.calls = <<>> => AllClosed(us)
         /\ Acts(us, m.calls) /\ LastOpen(us)
<1>1. PICK l : l = Len(ms)
  OBVIOUS
<1>2. /\ l \in Nat /\ DOMAIN ms = 1..l /\ DOMAIN us = 1..(l + 1)
      /\ us[l + 1] = m /\ \A x \in 1..l : us[x] = ms[x]
  <2> HIDE DEF MessageType
  <2>1. QED BY <1>1, AppendParts
<1>3. \A h \in 1..l : us[h].calls # <<>> => Closed(us, h)
  <2>1. TAKE h \in 1..l
  <2>2. HAVE us[h].calls # <<>>
  <2>3. h \in DOMAIN ms /\ Closed(ms, h)
    BY <1>2, <2>2 DEF AllClosed
  <2>4. ~(m.role = "tool")
    OBVIOUS
  <2>5. QED BY <2>3, <2>4, ClosedStays
<1>4. OthersClosed(us, l + 1)
  BY <1>2, <1>3 DEF OthersClosed
<1>5. m.calls = <<>> => AllClosed(us)
  BY <1>2, <1>3 DEF AllClosed
<1>6. \A x \in DOMAIN us : ~(l + 1 < x) /\ ~(x > l + 1)
  BY <1>2
<1>7. AnswersTo(us, l + 1) = {} /\ LastAssistant(us, l + 1)
  BY <1>6 DEF AnswersTo, LastAssistant
<1>8. Cardinality({}) = 0
  BY FS_EmptySet
<1>9. AnswersFirst(us, l + 1, 0)
  BY <1>7, <1>8 DEF AnswersFirst
<1>10. Len(m.calls) \in Nat
  BY CallsTyped
<1>11. l + 1 \in DOMAIN us /\ 0 \in 0..Len(m.calls)
  BY <1>2, <1>10
<1>12. Turn(us, l + 1, 0)
  BY <1>2, <1>7, <1>8, <1>9, <1>11 DEF Turn
<1>13. /\ Len(us[l + 1].calls) = 0 + Len(m.calls)
       /\ \A j \in DOMAIN m.calls : us[l + 1].calls[0 + j] = m.calls[j]
  <2>1. DOMAIN m.calls = 1..Len(m.calls)
    BY CallsTyped
  <2>2. \A j \in 1..Len(m.calls) : 0 + j = j
    BY <1>10
  <2>3. QED BY <1>2, <1>10, <2>1, <2>2
<1>14. Acts(us, m.calls)
  <2>1. ActsAt(us, l + 1, 0, m.calls)
    BY <1>4, <1>12, <1>13 DEF ActsAt
  <2>2. QED BY <2>1 DEF Acts
<1>15. LastOpen(us)
  BY <1>4, <1>12 DEF LastOpen
<1>16. QED BY <1>5, <1>14, <1>15

\* next is the position behind n.
Follows(n, next) == next = n + 1

\* The answer of m to the call at next made us of ms.
TurnGoesOn(ms, m, us, i, next) ==
  /\ Turn(us, i, next) /\ us[i] = ms[i]
  /\ m.requirement # NoRequirement => BlockedAt(us, i, next)

\* The answer to the next call.
LEMMA NextAnswered ==
  ASSUME NEW ms \in Seq(MessageType), NEW m \in MessageType, NEW us, us = Append(ms, m),
         NEW i, NEW n, Turn(ms, i, n), m.role = "tool",
         NEW next, Follows(n, next), next \in DOMAIN ms[i].calls,
         m.call = ms[i].calls[next].id
  PROVE  TurnGoesOn(ms, m, us, i, next)
<1>1. next = n + 1
  BY DEF Follows
<1>2. /\ i \in DOMAIN ms /\ n \in 0..Len(ms[i].calls) /\ ms[i].role = "assistant"
      /\ LastAssistant(ms, i) /\ n = Cardinality(AnswersTo(ms, i)) /\ AnswersFirst(ms, i, n)
  BY DEF Turn
<1>3. /\ n \in Nat /\ Cardinality(AnswersTo(us, i)) = next
      /\ \A x : x \in AnswersTo(us, i) <=> x \in AnswersTo(ms, i) \/ x = Len(ms) + 1
      /\ us[Len(ms) + 1] = m /\ Nth(us, i, Len(ms) + 1) = next
      /\ \A j \in AnswersTo(ms, i) : /\ us[j] = ms[j]
                                     /\ Nth(us, i, j) = Nth(ms, i, j)
                                     /\ Nth(ms, i, j) \in Nat /\ Nth(ms, i, j) <= n
      /\ m.requirement # NoRequirement => BlockedAt(us, i, next)
  <2>1. i \in DOMAIN ms /\ LastAssistant(ms, i) /\ n = Cardinality(AnswersTo(ms, i))
    BY <1>2
  <2>2. OneMore(ms, m, us, i, n)
    BY <2>1, OneMoreAnswer
  <2>3. QED BY <1>1, <2>2 DEF OneMore
<1>4. i \in DOMAIN us /\ us[i] = ms[i] /\ LastAssistant(us, i)
  <2>1. i \in DOMAIN ms /\ LastAssistant(ms, i)
    BY <1>2
  <2>2. i \in DOMAIN us /\ us[i] = ms[i]
        /\ (LastAssistant(us, i) <=> LastAssistant(ms, i) /\ m.role # "assistant")
    BY <2>1, AnswersGrow
  <2>3. QED BY <2>1, <2>2
<1>5. PICK cs : cs = ms[i].calls
  OBVIOUS
<1>6. \A j \in AnswersTo(ms, i) :
        ms[j].call = cs[IF Nth(ms, i, j) <= n THEN Nth(ms, i, j) ELSE n].id
  BY <1>2, <1>5 DEF AnswersFirst
<1>7. \A j \in AnswersTo(us, i) :
        us[j].call = cs[IF Nth(us, i, j) <= next THEN Nth(us, i, j) ELSE next].id
  <2>1. TAKE j \in AnswersTo(us, i)
  <2>2. CASE j \in AnswersTo(ms, i)
    <3>1. Nth(us, i, j) = Nth(ms, i, j) /\ Nth(ms, i, j) <= n /\ Nth(ms, i, j) \in Nat
          /\ us[j] = ms[j]
      BY <1>3, <2>2
    <3>2. Nth(us, i, j) = Nth(ms, i, j) /\ Nth(ms, i, j) <= n /\ Nth(ms, i, j) <= next
          /\ us[j] = ms[j]
      BY <1>1, <1>3, <3>1
    <3>3. ms[j].call = cs[Nth(ms, i, j)].id
      BY <1>6, <2>2, <3>2
    <3>4. QED BY <3>2, <3>3
  <2>3. CASE j = Len(ms) + 1
    <3>1. us[j] = m /\ Nth(us, i, j) = next /\ next <= next
      BY <1>1, <1>3, <2>3
    <3>2. QED BY <1>5, <3>1
  <2>4. QED BY <1>3, <2>2, <2>3
<1>8. AnswersFirst(us, i, next)
  BY <1>3, <1>4, <1>5, <1>7 DEF AnswersFirst
<1>9. next \in 0..Len(ms[i].calls)
  <2>1. PICK x \in MessageType : x = ms[i]
    BY <1>2, ElementOfSeq, LenProperties
  <2>2. Len(x.calls) \in Nat
    BY CallsTyped
  <2>3. DOMAIN x.calls = 1..Len(x.calls)
    BY CallsTyped
  <2>4. QED BY <2>1, <2>2, <2>3
<1>10. Turn(us, i, next)
  BY <1>2, <1>3, <1>4, <1>8, <1>9 DEF Turn
<1>11. QED BY <1>3, <1>4, <1>10 DEF TurnGoesOn

\* The second answer to a blocked call.
LEMMA BlockedAnswered ==
  ASSUME NEW ms \in Seq(MessageType), NEW m \in MessageType, NEW us, us = Append(ms, m),
         NEW i, NEW n, Turn(ms, i, n), n # 0, BlockedAt(ms, i, n), m.role = "tool",
         m.call = ms[i].calls[n].id
  PROVE  Closed(us, i)
<1>1. /\ i \in DOMAIN ms /\ n \in 0..Len(ms[i].calls)
      /\ LastAssistant(ms, i) /\ n = Cardinality(AnswersTo(ms, i)) /\ AnswersFirst(ms, i, n)
  BY DEF Turn
<1>2. /\ n \in Nat /\ Cardinality(AnswersTo(us, i)) = n + 1
      /\ \A x : x \in AnswersTo(us, i) <=> x \in AnswersTo(ms, i) \/ x = Len(ms) + 1
      /\ us[Len(ms) + 1] = m /\ Nth(us, i, Len(ms) + 1) = n + 1
      /\ \A j \in AnswersTo(ms, i) : /\ us[j] = ms[j]
                                     /\ Nth(us, i, j) = Nth(ms, i, j)
                                     /\ Nth(ms, i, j) \in Nat /\ Nth(ms, i, j) <= n
      /\ BlockedAt(us, i, n)
  <2>1. i \in DOMAIN ms /\ LastAssistant(ms, i) /\ n = Cardinality(AnswersTo(ms, i))
    BY <1>1
  <2>2. OneMore(ms, m, us, i, n)
    BY <2>1, OneMoreAnswer
  <2>3. QED BY <2>2 DEF OneMore
<1>3. us[i] = ms[i]
  BY <1>1, AnswersGrow
<1>4. PICK cs : cs = ms[i].calls
  OBVIOUS
<1>5. \A j \in AnswersTo(ms, i) :
        ms[j].call = cs[IF Nth(ms, i, j) <= n THEN Nth(ms, i, j) ELSE n].id
  BY <1>1, <1>4 DEF AnswersFirst
<1>6. \A j \in AnswersTo(us, i) :
        us[j].call = cs[IF Nth(us, i, j) <= n THEN Nth(us, i, j) ELSE n].id
  <2>1. TAKE j \in AnswersTo(us, i)
  <2>2. CASE j \in AnswersTo(ms, i)
    <3>1. Nth(us, i, j) = Nth(ms, i, j) /\ us[j] = ms[j]
      BY <1>2, <2>2
    <3>2. QED BY <1>5, <2>2, <3>1
  <2>3. CASE j = Len(ms) + 1
    <3>1. us[j] = m /\ Nth(us, i, j) = n + 1 /\ ~(n + 1 <= n)
      BY <1>2, <2>3
    <3>2. QED BY <1>4, <3>1
  <2>4. QED BY <1>2, <2>2, <2>3
<1>7. AnswersFirst(us, i, n)
  BY <1>2, <1>3, <1>4, <1>6 DEF AnswersFirst
<1>8. QED BY <1>1, <1>2, <1>3, <1>7 DEF Closed

\* Calls that are closed, or of an open last turn, are answered as AnswersFollowCalls has it.
LEMMA OpenIsAnswered ==
  ASSUME LastOpen(run.messages)
  PROVE  AnswersFollowCalls
<1>1. PICK ms : ms = run.messages
  OBVIOUS
<1>2. ASSUME NEW h \in DOMAIN ms, Closed(ms, h)
      PROVE  \E n \in 0..Len(ms[h].calls) :
               /\ AnswersFirst(ms, h, n)
               /\ \/ n = Len(ms[h].calls)
                  \/ BlockedAt(ms, h, n)
                  \/ LastAssistant(ms, h)
  BY <1>2 DEF Closed
<1>3. ASSUME NEW h, NEW n, Turn(ms, h, n)
      PROVE  \E x \in 0..Len(ms[h].calls) :
               /\ AnswersFirst(ms, h, x)
               /\ \/ x = Len(ms[h].calls)
                  \/ BlockedAt(ms, h, x)
                  \/ LastAssistant(ms, h)
  BY <1>3 DEF Turn
<1>4. ASSUME NEW h \in DOMAIN ms, ms[h].calls # <<>>
      PROVE  \E n \in 0..Len(ms[h].calls) :
               /\ AnswersFirst(ms, h, n)
               /\ \/ n = Len(ms[h].calls)
                  \/ BlockedAt(ms, h, n)
                  \/ LastAssistant(ms, h)
  <2>1. CASE Closed(ms, h)
    BY <1>2, <2>1
  <2>2. CASE ~Closed(ms, h)
    <3>1. PICK i, n : Turn(ms, i, n) /\ OthersClosed(ms, i)
      BY <1>1, <1>4, <2>2 DEF LastOpen, AllClosed
    <3>2. h = i
      BY <1>4, <2>2, <3>1 DEF OthersClosed
    <3>3. QED BY <1>3, <3>1, <3>2
  <2>3. QED BY <2>1, <2>2
<1>5. QED BY <1>1, <1>4 DEF AnswersFollowCalls

\* Between the executions of a run that goes on, and when the model is asked, all calls
\* are closed; a run that is suspended, or to replay a call, ends in a blocked call.
AnswersInv ==
  /\ LastOpen(run.messages)
  /\ pc = "acting" => Acts(run.messages, calls)
  /\ run.status \notin Terminal /\ pc # "acting" => AllClosed(run.messages)
  /\ run.status = "suspended" /\ run.requirement.origin = "tool" =>
       Blocks(run.messages, run.requirement.call)
  /\ ToReplay => Blocks(run.messages, input.resolved.call)

LEMMA ClosedIsOpen == ASSUME NEW ms, AllClosed(ms) PROVE LastOpen(ms)
BY DEF LastOpen

LEMMA ActsIsOpen == ASSUME NEW ms, NEW cs, Acts(ms, cs) PROVE LastOpen(ms)
BY DEF LastOpen, Acts, ActsAt

\* A turn whose calls are all answered, or that was blocked, is closed.
LEMMA TurnCloses ==
  ASSUME NEW ms, NEW i, NEW n, Turn(ms, i, n), OthersClosed(ms, i),
         n = Len(ms[i].calls) \/ BlockedAt(ms, i, n)
  PROVE  AllClosed(ms)
<1>1. Closed(ms, i)
  BY DEF Turn, Closed
<1>2. QED BY <1>1 DEF OthersClosed, AllClosed

LEMMA InitAnswers == ASSUME Init PROVE AnswersInv
<1>1. run.messages = <<UserMessage>> /\ pc = "between" /\ run.status = "pending"
  BY DEF Init
<1>2. UserMessage.calls = <<>>
  BY MessagesTyped
<1>3. PICK ms : ms = <<UserMessage>>
  OBVIOUS
<1>4. \A i \in DOMAIN ms : ms[i] = UserMessage
  BY <1>3
<1>5. AllClosed(ms)
  BY <1>2, <1>4 DEF AllClosed
<1>6. LastOpen(ms)
  BY <1>5, ClosedIsOpen
<1>7. QED BY <1>1, <1>3, <1>5, <1>6 DEF AnswersInv, ToReplay

LEMMA EnterAnswers == ASSUME LoopInv, AnswersInv, Keeps, Enters PROVE AnswersInv'
<1>1. run.messages \in Seq(MessageType)
  BY StateFields DEF Keeps
<1>2. run.status \notin Terminal /\ pc = "entering"
  BY DEF LoopInv, StatusOK, Resumable, Terminal, Enters
<1>3. PICK ms : ms = run.messages
  OBVIOUS
<1>4. PICK us : us = run'.messages
  OBVIOUS
<1>5. AllClosed(ms)
  BY <1>2, <1>3 DEF AnswersInv
<1>6. PICK m : m = UserMessage
  OBVIOUS
<1>7. m \in MessageType /\ m.calls = <<>> /\ m.role = "user"
  BY <1>6, MessagesTyped DEF UserMessage, Message
<1>8. us = ms \/ us = Append(ms, m)
  BY <1>3, <1>4, <1>6 DEF Enters
<1>9. AllClosed(us) /\ \A id : Blocks(ms, id) => Blocks(us, id)
  <2>1. CASE us = ms
    BY <1>5, <2>1
  <2>2. CASE us = Append(ms, m)
    BY <1>1, <1>3, <1>5, <1>7, <2>2, UserAppended
  <2>3. QED BY <1>8, <2>1, <2>2
<1>10. LastOpen(us)
  BY <1>9, ClosedIsOpen
<1>11. pc' # "acting" /\ run'.status = "running" /\ input' = input
  BY DEF Enters, Keeps
<1>12. ToReplay' => Blocks(us, input'.resolved.call)
  <2>1. ToReplay' => ToReplay
    BY <1>2, <1>11 DEF ToReplay, ReplayRequested
  <2>2. ToReplay => Blocks(ms, input.resolved.call)
    BY <1>3 DEF AnswersInv
  <2>3. QED BY <1>9, <1>11, <2>1, <2>2
<1>13. QED BY <1>4, <1>9, <1>10, <1>11, <1>12 DEF AnswersInv

LEMMA SpeakAnswers ==
  ASSUME LoopInv, AnswersInv, Keeps,
         NEW q \in RequirementSet, NEW cs \in CallLists \cup {<<>>}, Speaks(q, cs)
  PROVE  AnswersInv'
<1>1. run.messages \in Seq(MessageType)
  BY StateFields DEF Keeps
<1>2. run.status \notin Terminal /\ pc = "thinking"
  BY DEF LoopInv, StatusOK, Terminal, Speaks
<1>3. PICK ms : ms = run.messages
  OBVIOUS
<1>4. PICK us : us = run'.messages
  OBVIOUS
<1>5. AllClosed(ms)
  BY <1>2, <1>3 DEF AnswersInv
<1>6. PICK m : m = Assistant(q, cs)
  OBVIOUS
<1>7. m \in MessageType /\ m.calls = cs /\ m.role = "assistant"
  BY <1>6, MessagesTyped DEF Assistant, Message
<1>8. us = Append(ms, m)
  BY <1>3, <1>4, <1>6 DEF Speaks
<1>9. (cs = <<>> => AllClosed(us)) /\ Acts(us, cs) /\ LastOpen(us)
  BY <1>1, <1>3, <1>5, <1>7, <1>8, AssistantAppended
<1>10. pc' \in {"thinking", "acting", "between"}
  BY DEF Speaks, Proceeds, Returns
<1>11. ~ToReplay'
  BY <1>10 DEF ToReplay
<1>12. CASE Proceeds(cs, Said)
  <2>1. /\ run'.status = "running" /\ calls' = cs
        /\ pc' = IF cs = <<>> THEN "thinking" ELSE "acting"
    BY <1>12 DEF Proceeds
  <2>2. pc' # "acting" => cs = <<>>
    BY <2>1
  <2>3. QED BY <1>4, <1>9, <1>11, <2>1, <2>2 DEF AnswersInv
<1>13. CASE run'.status \in {"failed", "completed"} /\ Returns(Said)
  <2>1. pc' = "between" /\ run'.status \in Terminal /\ run'.status # "suspended"
    BY <1>13 DEF Returns, Terminal
  <2>2. QED BY <1>4, <1>9, <1>11, <2>1 DEF AnswersInv
<1>14. CASE /\ run'.status = "suspended" /\ run'.requirement = q /\ q.origin = "model"
            /\ cs = <<>> /\ Returns(Said)
  <2>1. pc' = "between" /\ run'.requirement.origin # "tool"
    BY <1>14 DEF Returns
  <2>2. QED BY <1>4, <1>9, <1>11, <1>14, <2>1 DEF AnswersInv
<1>15. QED BY <1>12, <1>13, <1>14 DEF Speaks

LEMMA HearAnswers ==
  ASSUME LoopInv, AnswersInv, RolesOK, Keeps,
         NEW k \in ToolCalls, NEW q \in RequirementSet, Hears(k, q)
  PROVE  AnswersInv'
<1>1. run.messages \in Seq(MessageType)
  BY StateFields DEF Keeps
<1>2. pc = "acting" /\ k = Head(calls) /\ calls \in Seq(ToolCalls) /\ calls # <<>>
  BY DEF LoopInv, LoopTyped, Hears
<1>3. PICK ms : ms = run.messages
  OBVIOUS
<1>4. PICK us : us = run'.messages
  OBVIOUS
<1>5. PICK cs : cs = calls
  OBVIOUS
<1>6. PICK i, n : ActsAt(ms, i, n, cs)
  BY <1>2, <1>3, <1>5 DEF AnswersInv, Acts
<1>7. PICK m : m = Observation(k.id, q)
  OBVIOUS
<1>8. m \in MessageType /\ m.calls = <<>> /\ m.role = "tool" /\ m.call = k.id
      /\ m.requirement = q
  BY <1>7, CallIDTyped, MessagesTyped DEF Observation, Message
<1>9. us = Append(ms, m)
  BY <1>3, <1>4, <1>7 DEF Hears
<1>10. /\ Len(cs) \in Nat /\ DOMAIN cs = 1..Len(cs) /\ Len(cs) >= 1 /\ cs[1] = k
       /\ Tail(cs) \in Seq(ToolCalls) /\ Len(Tail(cs)) = Len(cs) - 1
       /\ DOMAIN Tail(cs) = 1..(Len(cs) - 1)
       /\ \A j \in 1..(Len(cs) - 1) : Tail(cs)[j] = cs[j + 1]
  BY <1>2, <1>5, HeadTailProperties, LenProperties, EmptySeq
<1>11. /\ Turn(ms, i, n) /\ OthersClosed(ms, i) /\ Len(ms[i].calls) = n + Len(cs)
       /\ \A j \in DOMAIN cs : ms[i].calls[n + j] = cs[j]
  BY <1>6 DEF ActsAt
<1>12. n \in Nat
  <2>1. i \in DOMAIN ms /\ n \in 0..Len(ms[i].calls)
    BY <1>11 DEF Turn
  <2>2. QED BY <2>1
<1>13. PICK next : next = n + 1
  OBVIOUS
<1>14. Follows(n, next) /\ next \in DOMAIN ms[i].calls /\ m.call = ms[i].calls[next].id
  <2>1. 1 \in DOMAIN cs
    BY <1>10
  <2>2. ms[i].calls[n + 1] = k
    BY <1>10, <1>11, <2>1
  <2>3. PICK x \in MessageType : x = ms[i]
    <3>1. i \in DOMAIN ms
      BY <1>11 DEF Turn
    <3>2. QED BY <1>1, <1>3, <3>1, ElementOfSeq, LenProperties
  <2>4. DOMAIN x.calls = 1..Len(x.calls) /\ Len(x.calls) = n + Len(cs)
    BY <1>11, <2>3, CallsTyped
  <2>5. next \in 1..(n + Len(cs))
    BY <1>10, <1>12, <1>13
  <2>6. next \in DOMAIN ms[i].calls
    BY <2>3, <2>4, <2>5
  <2>7. QED BY <1>8, <1>13, <2>2, <2>6 DEF Follows
<1>15. /\ Turn(us, i, next) /\ us[i] = ms[i]
       /\ m.requirement # NoRequirement => BlockedAt(us, i, next)
  <2>1. /\ ms \in Seq(MessageType) /\ m \in MessageType /\ us = Append(ms, m)
        /\ Turn(ms, i, n) /\ m.role = "tool" /\ Follows(n, next)
        /\ next \in DOMAIN ms[i].calls /\ m.call = ms[i].calls[next].id
    BY <1>1, <1>3, <1>8, <1>9, <1>11, <1>14
  <2>2. TurnGoesOn(ms, m, us, i, next)
    BY <2>1, NextAnswered
  <2>3. QED BY <2>2 DEF TurnGoesOn
<1>16. OthersClosed(us, i)
  <2>1. OnlyAssistants(ms)
    BY <1>3 DEF RolesOK, OnlyAssistants
  <2>2. QED BY <1>1, <1>3, <1>8, <1>9, <1>11, <2>1, OthersStay
<1>17. LastOpen(us)
  BY <1>15, <1>16 DEF LastOpen
<1>18. CASE Proceeds(Tail(cs), Heard(k))
  <2>1. /\ run'.status = "running" /\ calls' = Tail(cs)
        /\ pc' = IF Tail(cs) = <<>> THEN "thinking" ELSE "acting"
    BY <1>18 DEF Proceeds
  <2>2. ~ToReplay'
    BY <2>1 DEF ToReplay
  <2>3. CASE Tail(cs) = <<>>
    <3>1. Len(Tail(cs)) = 0
      BY <1>10, <2>3, EmptySeq
    <3>2. next = Len(us[i].calls)
      <4>1. Len(us[i].calls) = n + Len(cs)
        BY <1>11, <1>15
      <4>2. PICK a : a = Len(cs)
        OBVIOUS
      <4>3. a \in Nat /\ a - 1 = 0
        BY <1>10, <3>1, <4>2
      <4>4. a = 1
        BY <4>3
      <4>5. QED BY <1>13, <4>1, <4>2, <4>4
    <3>3. AllClosed(us)
      BY <1>15, <1>16, <3>2, TurnCloses
    <3>4. pc' = "thinking"
      BY <2>1, <2>3
    <3>5. QED BY <1>4, <1>17, <2>1, <2>2, <3>3, <3>4 DEF AnswersInv
  <2>4. CASE Tail(cs) # <<>>
    <3>1. Len(us[i].calls) = next + Len(Tail(cs))
      <4>1. Len(us[i].calls) = n + Len(cs)
        BY <1>11, <1>15
      <4>2. PICK a : a = Len(cs)
        OBVIOUS
      <4>3. a \in Nat /\ Len(Tail(cs)) = a - 1
        BY <1>10, <4>2
      <4>4. n + a = (n + 1) + (a - 1)
        BY <1>12, <4>3
      <4>5. QED BY <1>13, <4>1, <4>2, <4>3, <4>4
    <3>2. ASSUME NEW j \in DOMAIN Tail(cs)
          PROVE  us[i].calls[next + j] = Tail(cs)[j]
      <4>1. j \in 1..(Len(cs) - 1) /\ j + 1 \in DOMAIN cs /\ n + (j + 1) = next + j
        BY <1>10, <1>12, <1>13
      <4>2. Tail(cs)[j] = cs[j + 1]
        BY <1>10, <4>1
      <4>3. QED BY <1>11, <1>15, <4>1, <4>2
    <3>3. ActsAt(us, i, next, Tail(cs))
      BY <1>15, <1>16, <3>1, <3>2 DEF ActsAt
    <3>4. Acts(us, Tail(cs))
      BY <3>3 DEF Acts
    <3>5. pc' = "acting"
      BY <2>1, <2>4
    <3>6. QED BY <1>4, <1>17, <2>1, <2>2, <3>4, <3>5 DEF AnswersInv
  <2>5. QED BY <2>3, <2>4
<1>19. CASE run'.status = "failed" /\ Returns(Heard(k))
  <2>1. pc' = "between" /\ run'.status \in Terminal /\ run'.status # "suspended"
    BY <1>19 DEF Returns, Terminal
  <2>2. QED BY <1>4, <1>17, <2>1 DEF AnswersInv, ToReplay
<1>20. CASE /\ run'.status = "suspended" /\ run'.requirement = q
            /\ q.call = k.id /\ ValidRequirement(q) /\ Returns(Heard(k))
  <2>1. pc' = "between"
    BY <1>20 DEF Returns
  <2>2. q # NoRequirement
    <3>1. q.id # ""
      BY <1>20 DEF ValidRequirement
    <3>2. PICK none : none = NoRequirement
      OBVIOUS
    <3>3. none.id = ""
      BY <3>2 DEF NoRequirement
    <3>4. QED BY <3>1, <3>2, <3>3
  <2>3. BlockedAt(us, i, next)
    BY <1>8, <1>15, <2>2
  <2>4. AllClosed(us)
    BY <1>15, <1>16, <2>3, TurnCloses
  <2>5. us[i].calls[next].id = q.call
    BY <1>8, <1>14, <1>15, <1>20
  <2>6. next # 0
    BY <1>12, <1>13
  <2>7. Blocks(us, q.call)
    BY <1>15, <2>3, <2>5, <2>6 DEF Blocks
  <2>8. QED BY <1>4, <1>17, <1>20, <2>1, <2>4, <2>7 DEF AnswersInv, ToReplay
<1>21. QED BY <1>5, <1>18, <1>19, <1>20 DEF Hears

LEMMA ReplayAnswers ==
  ASSUME LoopInv, AnswersInv, RolesOK, Keeps, NEW k \in ToolCalls, Replays(k)
  PROVE  AnswersInv'
<1>1. run.messages \in Seq(MessageType)
  BY StateFields DEF Keeps
<1>2. pc = "replaying" /\ k = ReplayCall
  BY DEF Replays
<1>3. ToReplay
  BY <1>2 DEF LoopInv, ReplayOK, ToReplay
<1>4. k.id = input.resolved.call
  <2>1. k = Last(approvals)
    BY <1>2, <1>3, Redeemed
  <2>2. QED BY <1>3, <2>1 DEF LoopInv, ReplayOK
<1>5. PICK ms : ms = run.messages
  OBVIOUS
<1>6. PICK us : us = run'.messages
  OBVIOUS
<1>7. AllClosed(ms)
  <2>1. run.status \notin Terminal
    BY <1>2 DEF LoopInv, StatusOK, Terminal
  <2>2. QED BY <1>2, <1>5, <2>1 DEF AnswersInv
<1>8. PICK i, n : /\ Turn(ms, i, n) /\ n # 0
                  /\ BlockedAt(ms, i, n) /\ ms[i].calls[n].id = k.id
  BY <1>3, <1>4, <1>5 DEF AnswersInv, Blocks
<1>9. PICK m : m = Observation(k.id, NoRequirement)
  OBVIOUS
<1>10. m \in MessageType /\ m.calls = <<>> /\ m.role = "tool" /\ m.call = k.id
  BY <1>9, CallIDTyped, MessagesTyped, NothingRequired DEF Observation, Message
<1>11. us = Append(ms, m)
  BY <1>5, <1>6, <1>9 DEF Replays
<1>12. Closed(us, i)
  BY <1>1, <1>5, <1>8, <1>10, <1>11, BlockedAnswered
<1>13. OthersClosed(ms, i)
  BY <1>7 DEF AllClosed, OthersClosed
<1>14. OthersClosed(us, i)
  <2>1. OnlyAssistants(ms)
    BY <1>5 DEF RolesOK, OnlyAssistants
  <2>2. QED BY <1>1, <1>5, <1>8, <1>10, <1>11, <1>13, <2>1, OthersStay
<1>15. AllClosed(us) /\ LastOpen(us)
  BY <1>12, <1>14 DEF AllClosed, OthersClosed, LastOpen
<1>16. pc' = "thinking" /\ run'.status = "running"
  BY DEF Replays, Proceeds
<1>17. QED BY <1>6, <1>15, <1>16 DEF AnswersInv, ToReplay

LEMMA StopAnswers == ASSUME LoopInv, AnswersInv, Keeps, Stops PROVE AnswersInv'
<1>1. run'.messages = run.messages /\ pc' = "between"
      /\ run'.status \in {"failed", "cancelled", "max_steps_exceeded"}
      /\ (run'.status = "max_steps_exceeded" => pc = "thinking")
  BY DEF Stops, Returns
<1>2. run'.status \notin Terminal => AllClosed(run.messages)
  <2>1. run'.status \notin Terminal => run.status \notin Terminal /\ pc = "thinking"
    BY <1>1 DEF LoopInv, StatusOK, Terminal
  <2>2. QED BY <2>1 DEF AnswersInv
<1>3. LastOpen(run.messages)
  BY DEF AnswersInv
<1>4. QED BY <1>1, <1>2, <1>3 DEF AnswersInv, ToReplay

LEMMA HandOverAnswers ==
  ASSUME LoopInv, LoopInv', AnswersInv, Carry \/ Resume
  PROVE  AnswersInv'
<1>1. run \in StateType
  BY DEF LoopInv, LoopTyped
<1>2. run.messages \in Seq(MessageType)
  BY <1>1, StateFields
<1>3. PICK ms : ms = run.messages
  OBVIOUS
<1>4. PICK us : us = run'.messages
  OBVIOUS
<1>5. pc = "between" /\ run.status \notin Terminal /\ pc' = "entering"
  BY HandOverAdds
<1>6. run'.status # "suspended"
  BY <1>5 DEF LoopInv, StatusOK, Resumable
<1>7. AllClosed(ms)
  BY <1>3, <1>5 DEF AnswersInv
<1>8. CASE Carry
  <2>1. PICK max \in MaxSteps, said \in {<<>>, <<UserMessage>>} :
          HandOver([run EXCEPT !.messages = @ \o said], [NoInput EXCEPT !.max = max])
    BY <1>8 DEF Carry
  <2>2. PICK m : m = UserMessage
    OBVIOUS
  <2>3. m \in MessageType /\ m.calls = <<>> /\ m.role = "user"
    BY <2>2, MessagesTyped DEF UserMessage, Message
  <2>4. PICK vs : vs = run.messages \o said
    OBVIOUS
  <2>5. vs = run.messages \/ vs = Append(run.messages, m)
    BY <1>2, <2>2, <2>3, <2>4, ConcatEmptySeq, AppendIsConcat
  <2>6. run' = [[run EXCEPT !.messages = vs] EXCEPT !.version = run.version + 1]
        /\ input' = [NoInput EXCEPT !.max = max]
    BY <2>1, <2>4 DEF HandOver
  <2>7. us = vs
    BY <1>1, <1>4, <2>6 DEF StateType
  <2>8. AllClosed(us)
    <3>1. CASE vs = ms
      BY <1>7, <2>7, <3>1
    <3>2. CASE vs = Append(ms, m)
      BY <1>2, <1>3, <1>7, <2>3, <2>7, <3>2, UserAppended
    <3>3. QED BY <1>3, <2>5, <3>1, <3>2
  <2>9. ~ToReplay'
    <3>1. input'.resolved.origin # "tool"
      BY <2>6 DEF NoInput, NoRequirement
    <3>2. QED BY <3>1 DEF ToReplay, ReplayRequested
  <2>10. LastOpen(us)
    BY <2>8, ClosedIsOpen
  <2>11. QED BY <1>4, <1>5, <1>6, <2>8, <2>9, <2>10 DEF AnswersInv
<1>9. CASE Resume
  <2>1. PICK in :
          /\ HandOver([run EXCEPT !.status = "running", !.requirement = NoRequirement], in)
          /\ in.resolved = run.requirement
    <3>1. PICK max \in MaxSteps, outcome \in OutcomesOf(run.requirement.kind) :
            \E override : HandOver([run EXCEPT !.status = "running", !.requirement = NoRequirement],
                     [max |-> max, resolved |-> run.requirement,
                      resolution |-> [req |-> run.requirement.id,
                                      kind |-> run.requirement.kind, outcome |-> outcome],
                      override |-> override])
      BY <1>9 DEF Resume
    <3>2. QED BY <3>1
  <2>2. PICK st : st = [run EXCEPT !.status = "running", !.requirement = NoRequirement]
    OBVIOUS
  <2>3. st.messages = run.messages
    BY <1>1, <2>2 DEF StateType
  <2>4. run' = [st EXCEPT !.version = run.version + 1] /\ input' = in
    BY <2>1, <2>2 DEF HandOver
  <2>5. us = ms
    BY <1>1, <1>3, <1>4, <2>2, <2>3, <2>4 DEF StateType
  <2>6. ToReplay' => Blocks(us, input'.resolved.call)
    <3>1. ToReplay' => run.requirement.origin = "tool"
      BY <2>1, <2>4 DEF ToReplay, ReplayRequested
    <3>2. run.status = "suspended"
      BY <1>9 DEF Resume
    <3>3. run.requirement.origin = "tool" => Blocks(ms, run.requirement.call)
      BY <1>3, <3>2 DEF AnswersInv
    <3>4. QED BY <2>1, <2>4, <2>5, <3>1, <3>3
  <2>7. LastOpen(us)
    BY <1>7, <2>5, ClosedIsOpen
  <2>8. QED BY <1>4, <1>5, <1>6, <1>7, <2>5, <2>6, <2>7 DEF AnswersInv
<1>10. QED BY <1>8, <1>9

LEMMA AnswersNext ==
  ASSUME LoopInv, LoopInv', RolesOK, AnswersInv, [Next]_vars
  PROVE  AnswersInv'
<1>1. CASE LoopStep
  <2>1. Shape /\ Keeps
    BY <1>1, LoopShape DEF Shape
  <2>2. QED BY <2>1, EnterAnswers, SpeakAnswers, HearAnswers, ReplayAnswers, StopAnswers
       DEF Shape
<1>2. CASE Carry \/ Resume
  BY <1>2, HandOverAnswers
<1>3. CASE EndContext
  <2>1. UNCHANGED <<run, input, pc, calls>>
    BY <1>3 DEF EndContext
  <2>2. QED BY <2>1 DEF AnswersInv, ToReplay, ReplayRequested
<1>4. CASE Quiet \/ UNCHANGED vars
  <2>1. UNCHANGED <<run, input, pc, calls>>
    BY <1>4 DEF Quiet, vars
  <2>2. QED BY <2>1 DEF AnswersInv, ToReplay, ReplayRequested
<1>5. QED BY <1>1, <1>2, <1>3, <1>4 DEF Next

\* The calls of an assistant are answered in their order and each once, only a blocked
\* call again after its suspension, and the model is not asked again before all are
\* answered, unless one of them was blocked.
THEOREM CallsAreAnsweredInOrder == Spec => []AnswersFollowCalls
<1>1. Init => LoopInv /\ ContractInv /\ AnswersInv
  BY InitInv, ContractInvInit, InitAnswers
<1>2. LoopInv /\ ContractInv /\ AnswersInv /\ [Next]_vars
      => (LoopInv /\ ContractInv /\ AnswersInv)'
  <2>1. ContractInv => RolesOK
    BY DEF ContractInv
  <2>2. QED BY <2>1, NextInv, ContractInvNext, AnswersNext
<1>3. AnswersInv => AnswersFollowCalls
  BY OpenIsAnswered DEF AnswersInv
<1>4. QED BY <1>1, <1>2, <1>3, PTL DEF Spec

-----------------------------------------------------------------------------
(***************************************************************************)
(* What the normalization makes of one message more.                       *)
(***************************************************************************)

\* The message at i is the latest observation of the call k.
LatestAnswer(ms, k, i) ==
  /\ i \in DOMAIN ms /\ ms[i].role = "tool" /\ ms[i].call = k
  /\ \A h \in DOMAIN ms : ms[h].role = "tool" /\ ms[h].call = k => h <= i

\* The latest observation of k stands at j of what is sent.
PlacedAt(ms, out, k, j) ==
  j \in DOMAIN out /\ \E i \in DOMAIN ms : LatestAnswer(ms, k, i) /\ ms[i] = out[j]

\* Each call that was answered has one place in what is sent, that of its observation.
Placed(ms, out, place) ==
  /\ \A i \in DOMAIN ms : ms[i].role = "tool" => ms[i].call \in DOMAIN place
  /\ \A j \in DOMAIN out : out[j].role = "tool" =>
       out[j].call \in DOMAIN place /\ place[out[j].call] = j
  /\ \A k \in DOMAIN place : PlacedAt(ms, out, k, place[k])

Announced(ms, ids) == \A i \in DOMAIN ms : IDs(ms[i].calls) \subseteq ids

\* What is sent was said.
From(ms, out) == \A j \in DOMAIN out : \E h \in DOMAIN ms : out[j] = ms[h]

Payload(out, announced, place) ==
  [ok |-> TRUE, out |-> out, announced |-> announced, place |-> place]

\* The normalization did not refuse ms, and made out of it.
Normal(ms, out) ==
  /\ ms \in Seq(MessageType) /\ out \in Seq(MessageType) /\ From(ms, out)
  /\ \E announced, place :
       /\ Normalized(ms) = Payload(out, announced, place)
       /\ Announced(ms, announced) /\ Placed(ms, out, place)

LEMMA KeptNext ==
  ASSUME NEW out, NEW announced, NEW place, NEW m, m.role = "user"
  PROVE  NormalizeNext(Payload(out, announced, place), m)
           = Payload(Append(out, m), announced, place)
BY DEF NormalizeNext, Kept, Payload

LEMMA AnnouncedNext ==
  ASSUME NEW out, NEW announced, NEW place, NEW m, m.role = "assistant"
  PROVE  NormalizeNext(Payload(out, announced, place), m)
           = Payload(Append(out, m), announced \cup IDs(m.calls), place)
BY DEF NormalizeNext, Kept, Payload

\* vs is out with m at p, the place of m's call; more has one place more, behind out.
Replaces(out, place, m, p, vs) == p = place[m.call] /\ vs = [out EXCEPT ![p] = m]

PlacesNext(out, place, m, more) == more = Extended(place, m.call, Len(out) + 1)

LEMMA ReplacedNext ==
  ASSUME NEW out, NEW announced, NEW place, NEW m, m.role = "tool",
         TrimSpace[m.call] = m.call, m.call \in announced, m.call \in DOMAIN place, NEW p, NEW vs,
         Replaces(out, place, m, p, vs)
  PROVE  NormalizeNext(Payload(out, announced, place), m) = Payload(vs, announced, place)
BY DEF Replaces, NormalizeNext, NormalizeTool, Payload

LEMMA ExtendedNext ==
  ASSUME NEW out, NEW announced, NEW place, NEW m, m.role = "tool",
         TrimSpace[m.call] = m.call, m.call \in announced, m.call \notin DOMAIN place, NEW more,
         PlacesNext(out, place, m, more)
  PROVE  NormalizeNext(Payload(out, announced, place), m)
           = Payload(Append(out, m), announced, more)
BY DEF PlacesNext, NormalizeNext, NormalizeTool, Kept, Payload

\* A message that answers no call leaves the latest answers.
LEMMA LatestKept ==
  ASSUME NEW ms \in Seq(MessageType), NEW m \in MessageType, NEW us, us = Append(ms, m),
         NEW k, ~(m.role = "tool" /\ m.call = k), NEW i, LatestAnswer(ms, k, i)
  PROVE  LatestAnswer(us, k, i) /\ us[i] = ms[i]
<1> HIDE DEF MessageType
<1>1. /\ Len(ms) \in Nat /\ DOMAIN ms = 1..Len(ms) /\ DOMAIN us = 1..(Len(ms) + 1)
      /\ us[Len(ms) + 1] = m /\ \A x \in 1..Len(ms) : us[x] = ms[x]
  BY AppendParts
<1>2. i \in DOMAIN us /\ us[i] = ms[i]
  BY <1>1 DEF LatestAnswer
<1>3. ASSUME NEW h \in DOMAIN us, us[h].role = "tool", us[h].call = k
      PROVE  h <= i
  <2>1. h # Len(ms) + 1
    BY <1>1, <1>3
  <2>2. h \in DOMAIN ms /\ us[h] = ms[h]
    BY <1>1, <2>1
  <2>3. QED BY <1>3, <2>2 DEF LatestAnswer
<1>4. QED BY <1>2, <1>3 DEF LatestAnswer

\* One that does is the latest.
LEMMA LatestNew ==
  ASSUME NEW ms \in Seq(MessageType), NEW m \in MessageType, NEW us, us = Append(ms, m),
         m.role = "tool"
  PROVE  LatestAnswer(us, m.call, Len(ms) + 1) /\ us[Len(ms) + 1] = m
<1> HIDE DEF MessageType
<1>1. /\ Len(ms) \in Nat /\ DOMAIN us = 1..(Len(ms) + 1) /\ us[Len(ms) + 1] = m
  BY AppendParts
<1>2. \A h \in 1..(Len(ms) + 1) : h <= Len(ms) + 1
  BY <1>1
<1>3. Len(ms) + 1 \in DOMAIN us
  BY <1>1
<1>4. QED BY <1>1, <1>2, <1>3 DEF LatestAnswer

\* vs has m, and else only what out has.
Among(out, m, vs) == \A j \in DOMAIN vs : vs[j] = m \/ (j \in DOMAIN out /\ vs[j] = out[j])

\* What was sent stays, and the message comes behind it.
LEMMA FromKept ==
  ASSUME NEW ms \in Seq(MessageType), NEW out \in Seq(MessageType), NEW m \in MessageType,
         NEW us, us = Append(ms, m), NEW vs \in Seq(MessageType), From(ms, out),
         Among(out, m, vs)
  PROVE  From(us, vs)
<1> HIDE DEF MessageType
<1>1. /\ Len(ms) \in Nat /\ DOMAIN ms = 1..Len(ms) /\ DOMAIN us = 1..(Len(ms) + 1)
      /\ us[Len(ms) + 1] = m /\ \A x \in 1..Len(ms) : us[x] = ms[x]
  BY AppendParts
<1>2. Len(ms) + 1 \in DOMAIN us /\ \A h \in DOMAIN ms : h \in DOMAIN us /\ us[h] = ms[h]
  BY <1>1
<1>3. QED BY <1>1, <1>2 DEF From, Among

LEMMA KeptPlaced ==
  ASSUME NEW ms \in Seq(MessageType), NEW out \in Seq(MessageType), NEW m \in MessageType,
         NEW us, us = Append(ms, m), NEW vs, vs = Append(out, m),
         NEW place, Placed(ms, out, place), m.role # "tool"
  PROVE  Placed(us, vs, place)
<1>1. /\ Len(ms) \in Nat /\ DOMAIN ms = 1..Len(ms) /\ DOMAIN us = 1..(Len(ms) + 1)
      /\ us[Len(ms) + 1] = m /\ \A x \in 1..Len(ms) : us[x] = ms[x]
  <2> HIDE DEF MessageType
  <2>1. QED BY AppendParts
<1>2. /\ Len(out) \in Nat /\ DOMAIN out = 1..Len(out) /\ DOMAIN vs = 1..(Len(out) + 1)
      /\ vs[Len(out) + 1] = m /\ \A x \in 1..Len(out) : vs[x] = out[x]
  <2> HIDE DEF MessageType
  <2>1. QED BY AppendParts
<1>3. ASSUME NEW i \in DOMAIN us, us[i].role = "tool" PROVE us[i].call \in DOMAIN place
  <2>1. i # Len(ms) + 1
    BY <1>1, <1>3
  <2>2. i \in DOMAIN ms /\ us[i] = ms[i]
    BY <1>1, <2>1
  <2>3. QED BY <1>3, <2>2 DEF Placed
<1>4. ASSUME NEW j \in DOMAIN vs, vs[j].role = "tool"
      PROVE  vs[j].call \in DOMAIN place /\ place[vs[j].call] = j
  <2>1. j # Len(out) + 1
    BY <1>2, <1>4
  <2>2. j \in DOMAIN out /\ vs[j] = out[j]
    BY <1>2, <2>1
  <2>3. QED BY <1>4, <2>2 DEF Placed
<1>5. ASSUME NEW k \in DOMAIN place PROVE PlacedAt(us, vs, k, place[k])
  <2>1. PlacedAt(ms, out, k, place[k])
    BY DEF Placed
  <2>2. PICK j : j = place[k]
    OBVIOUS
  <2>3. j \in DOMAIN out
    BY <2>1, <2>2 DEF PlacedAt
  <2>4. PICK i \in DOMAIN ms : LatestAnswer(ms, k, i) /\ ms[i] = out[j]
    BY <2>1, <2>2 DEF PlacedAt
  <2>5. LatestAnswer(us, k, i) /\ us[i] = ms[i]
    BY <2>4, LatestKept
  <2>6. j \in DOMAIN vs /\ vs[j] = out[j] /\ i \in DOMAIN us
    BY <1>1, <1>2, <2>3
  <2>7. QED BY <2>2, <2>4, <2>5, <2>6 DEF PlacedAt
<1>6. QED BY <1>3, <1>4, <1>5 DEF Placed

\* The second observation of a call takes the place of the first.
LEMMA ReplacedPlaced ==
  ASSUME NEW ms \in Seq(MessageType), NEW out \in Seq(MessageType), NEW m \in MessageType,
         NEW us, us = Append(ms, m), NEW place, Placed(ms, out, place),
         m.role = "tool", m.call \in DOMAIN place,
         NEW p, NEW vs, Replaces(out, place, m, p, vs)
  PROVE  Placed(us, vs, place)
<1>1. /\ Len(ms) \in Nat /\ DOMAIN ms = 1..Len(ms) /\ DOMAIN us = 1..(Len(ms) + 1)
      /\ us[Len(ms) + 1] = m /\ \A x \in 1..Len(ms) : us[x] = ms[x]
  <2> HIDE DEF MessageType
  <2>1. QED BY AppendParts
<1>2. p \in DOMAIN out /\ \E i \in DOMAIN ms : LatestAnswer(ms, m.call, i) /\ ms[i] = out[p]
  BY DEF Placed, PlacedAt, Replaces
<1>3. out[p].role = "tool" /\ out[p].call = m.call
  BY <1>2 DEF LatestAnswer
<1>4. DOMAIN vs = DOMAIN out /\ vs[p] = m /\ \A j \in DOMAIN out : j # p => vs[j] = out[j]
  BY <1>2 DEF Replaces
<1>5. ASSUME NEW i \in DOMAIN us, us[i].role = "tool" PROVE us[i].call \in DOMAIN place
  <2>1. CASE i = Len(ms) + 1
    BY <1>1, <2>1
  <2>2. CASE i # Len(ms) + 1
    <3>1. i \in DOMAIN ms /\ us[i] = ms[i]
      BY <1>1, <2>2
    <3>2. QED BY <1>5, <3>1 DEF Placed
  <2>3. QED BY <2>1, <2>2
<1>6. ASSUME NEW j \in DOMAIN vs, vs[j].role = "tool"
      PROVE  vs[j].call \in DOMAIN place /\ place[vs[j].call] = j
  <2>1. CASE j = p
    BY <1>4, <2>1 DEF Replaces
  <2>2. CASE j # p
    <3>1. j \in DOMAIN out /\ vs[j] = out[j]
      BY <1>4, <2>2
    <3>2. QED BY <1>6, <3>1 DEF Placed
  <2>3. QED BY <2>1, <2>2
<1>7. ASSUME NEW k \in DOMAIN place PROVE PlacedAt(us, vs, k, place[k])
  <2>1. CASE k = m.call
    <3>1. LatestAnswer(us, m.call, Len(ms) + 1) /\ us[Len(ms) + 1] = m
      BY LatestNew
    <3>2. Len(ms) + 1 \in DOMAIN us /\ p \in DOMAIN vs /\ vs[p] = m
      BY <1>1, <1>2, <1>4
    <3>3. QED BY <2>1, <3>1, <3>2 DEF PlacedAt, Replaces
  <2>2. CASE k # m.call
    <3>1. PICK j : j = place[k]
      OBVIOUS
    <3>2. j \in DOMAIN out /\ \E i \in DOMAIN ms : LatestAnswer(ms, k, i) /\ ms[i] = out[j]
      BY <3>1 DEF Placed, PlacedAt
    <3>3. PICK i \in DOMAIN ms : LatestAnswer(ms, k, i) /\ ms[i] = out[j]
      BY <3>2
    <3>4. LatestAnswer(us, k, i) /\ us[i] = ms[i]
      BY <2>2, <3>3, LatestKept
    <3>5. out[j].call = k
      BY <3>3 DEF LatestAnswer
    <3>6. j # p
      BY <1>3, <2>2, <3>5
    <3>7. j \in DOMAIN vs /\ vs[j] = out[j] /\ i \in DOMAIN us
      BY <1>1, <1>4, <3>2, <3>6
    <3>8. QED BY <3>1, <3>3, <3>4, <3>7 DEF PlacedAt
  <2>3. QED BY <2>1, <2>2
<1>8. QED BY <1>5, <1>6, <1>7 DEF Placed

\* The first gets a new one.
LEMMA ExtendedPlaced ==
  ASSUME NEW ms \in Seq(MessageType), NEW out \in Seq(MessageType), NEW m \in MessageType,
         NEW us, us = Append(ms, m), NEW vs, vs = Append(out, m),
         NEW place, Placed(ms, out, place), m.role = "tool", m.call \notin DOMAIN place,
         NEW more, PlacesNext(out, place, m, more)
  PROVE  Placed(us, vs, more)
<1>1. /\ Len(ms) \in Nat /\ DOMAIN ms = 1..Len(ms) /\ DOMAIN us = 1..(Len(ms) + 1)
      /\ us[Len(ms) + 1] = m /\ \A x \in 1..Len(ms) : us[x] = ms[x]
  <2> HIDE DEF MessageType
  <2>1. QED BY AppendParts
<1>2. /\ Len(out) \in Nat /\ DOMAIN out = 1..Len(out) /\ DOMAIN vs = 1..(Len(out) + 1)
      /\ vs[Len(out) + 1] = m /\ \A x \in 1..Len(out) : vs[x] = out[x]
  <2> HIDE DEF MessageType
  <2>1. QED BY AppendParts
<1>3. /\ DOMAIN more = DOMAIN place \cup {m.call} /\ more[m.call] = Len(out) + 1
      /\ \A k \in DOMAIN place : more[k] = place[k]
  BY DEF PlacesNext, Extended
<1>4. ASSUME NEW i \in DOMAIN us, us[i].role = "tool" PROVE us[i].call \in DOMAIN more
  <2>1. CASE i = Len(ms) + 1
    BY <1>1, <1>3, <2>1
  <2>2. CASE i # Len(ms) + 1
    <3>1. i \in DOMAIN ms /\ us[i] = ms[i]
      BY <1>1, <2>2
    <3>2. QED BY <1>3, <1>4, <3>1 DEF Placed
  <2>3. QED BY <2>1, <2>2
<1>5. ASSUME NEW j \in DOMAIN vs, vs[j].role = "tool"
      PROVE  vs[j].call \in DOMAIN more /\ more[vs[j].call] = j
  <2>1. CASE j = Len(out) + 1
    BY <1>2, <1>3, <2>1
  <2>2. CASE j # Len(out) + 1
    <3>1. j \in DOMAIN out /\ vs[j] = out[j]
      BY <1>2, <2>2
    <3>2. QED BY <1>3, <1>5, <3>1 DEF Placed
  <2>3. QED BY <2>1, <2>2
<1>6. ASSUME NEW k \in DOMAIN more PROVE PlacedAt(us, vs, k, more[k])
  <2>1. CASE k = m.call
    <3>1. LatestAnswer(us, m.call, Len(ms) + 1) /\ us[Len(ms) + 1] = m
      BY LatestNew
    <3>2. Len(ms) + 1 \in DOMAIN us /\ Len(out) + 1 \in DOMAIN vs
      BY <1>1, <1>2
    <3>3. QED BY <1>2, <1>3, <2>1, <3>1, <3>2 DEF PlacedAt
  <2>2. CASE k # m.call
    <3>1. k \in DOMAIN place /\ more[k] = place[k]
      BY <1>3, <2>2
    <3>2. PICK j : j = place[k]
      OBVIOUS
    <3>3. j \in DOMAIN out /\ \E i \in DOMAIN ms : LatestAnswer(ms, k, i) /\ ms[i] = out[j]
      BY <3>1, <3>2 DEF Placed, PlacedAt
    <3>4. PICK i \in DOMAIN ms : LatestAnswer(ms, k, i) /\ ms[i] = out[j]
      BY <3>3
    <3>5. LatestAnswer(us, k, i) /\ us[i] = ms[i]
      BY <2>2, <3>4, LatestKept
    <3>6. j \in DOMAIN vs /\ vs[j] = out[j] /\ i \in DOMAIN us
      BY <1>1, <1>2, <3>3
    <3>7. QED BY <3>1, <3>2, <3>4, <3>5, <3>6 DEF PlacedAt
  <2>3. QED BY <2>1, <2>2
<1>7. QED BY <1>4, <1>5, <1>6 DEF Placed

\* m is sent behind the others: it is no observation, or the first of its call.
SentNew(ms, out, m, vs) ==
  /\ vs = Append(out, m)
  /\ m.role = "tool" => \A i \in DOMAIN ms : ms[i].role = "tool" => ms[i].call # m.call

\* m is sent in the place of an observation of the same call.
SentAt(out, m, vs, p) ==
  /\ p \in DOMAIN out /\ out[p].role = "tool" /\ out[p].call = m.call
  /\ m.role = "tool" /\ vs = [out EXCEPT ![p] = m]

SentAgain(out, m, vs) == \E p : SentAt(out, m, vs, p)

\* What is sent goes on with what m makes of it.
Sends(ms, out, m, us) ==
  \E vs : Normal(us, vs) /\ (SentNew(ms, out, m, vs) \/ SentAgain(out, m, vs))

Announces(ms, id) == \E i \in DOMAIN ms : id \in IDs(ms[i].calls)

LEMMA AnnouncedGrows ==
  ASSUME NEW ms \in Seq(MessageType), NEW m \in MessageType, NEW us, us = Append(ms, m),
         NEW ids, Announced(ms, ids), NEW more, ids \subseteq more, IDs(m.calls) \subseteq more
  PROVE  Announced(us, more)
<1> HIDE DEF MessageType
<1>1. /\ Len(ms) \in Nat /\ DOMAIN ms = 1..Len(ms) /\ DOMAIN us = 1..(Len(ms) + 1)
      /\ us[Len(ms) + 1] = m /\ \A x \in 1..Len(ms) : us[x] = ms[x]
  BY AppendParts
<1>2. \A x \in DOMAIN us : x \in DOMAIN ms \/ x = Len(ms) + 1
  BY <1>1
<1>3. QED BY <1>1, <1>2 DEF Announced

\* The normalization of one message more.
LEMMA NormalGoesOn ==
  ASSUME NEW ms, NEW out, Normal(ms, out), NEW m \in MessageType, NEW us, us = Append(ms, m),
         m.role # "assistant" => IDs(m.calls) = {},
         m.role = "tool" => Announces(ms, m.call) /\ TrimSpace[m.call] = m.call
  PROVE  Sends(ms, out, m, us)
<1>1. ms \in Seq(MessageType) /\ out \in Seq(MessageType) /\ From(ms, out)
  BY DEF Normal
<1>2. PICK announced, place :
        /\ Normalized(ms) = Payload(out, announced, place)
        /\ Announced(ms, announced) /\ Placed(ms, out, place)
  BY DEF Normal
<1>3. us \in Seq(MessageType)
  <2> HIDE DEF MessageType
  <2>1. QED BY <1>1, AppendProperties
<1>4. Normalized(us) = NormalizeNext(Payload(out, announced, place), m)
  <2> HIDE DEF MessageType
  <2>1. QED BY <1>1, <1>2, NormalizedAppend
<1>5. m.role \in {"user", "assistant", "tool"}
  BY DEF MessageType
<1>6. PICK vs : vs = Append(out, m)
  OBVIOUS
<1>7. /\ vs \in Seq(MessageType) /\ Len(out) \in Nat /\ DOMAIN out = 1..Len(out)
      /\ DOMAIN vs = 1..(Len(out) + 1)
      /\ vs[Len(out) + 1] = m /\ \A x \in 1..Len(out) : vs[x] = out[x]
  <2> HIDE DEF MessageType
  <2>1. QED BY <1>1, <1>6, AppendParts
<1>8. From(us, vs)
  <2>1. Among(out, m, vs)
    BY <1>7 DEF Among
  <2>2. QED BY <1>1, <1>7, <2>1, FromKept
<1>9. CASE m.role = "user"
  <2>1. Normalized(us) = Payload(vs, announced, place)
    BY <1>4, <1>6, <1>9, KeptNext
  <2>2. Announced(us, announced)
    BY <1>1, <1>2, <1>9, AnnouncedGrows
  <2>3. Placed(us, vs, place)
    BY <1>1, <1>2, <1>6, <1>9, KeptPlaced
  <2>4. Normal(us, vs)
    BY <1>3, <1>7, <1>8, <2>1, <2>2, <2>3 DEF Normal
  <2>5. QED BY <1>6, <1>9, <2>4 DEF Sends, SentNew
<1>10. CASE m.role = "assistant"
  <2>1. PICK more : more = announced \cup IDs(m.calls)
    OBVIOUS
  <2>2. Normalized(us) = Payload(vs, more, place)
    BY <1>4, <1>6, <1>10, <2>1, AnnouncedNext
  <2>3. Announced(us, more)
    <3>1. announced \subseteq more /\ IDs(m.calls) \subseteq more
      BY <2>1
    <3>2. QED BY <1>1, <1>2, <3>1, AnnouncedGrows
  <2>4. Placed(us, vs, place)
    BY <1>1, <1>2, <1>6, <1>10, KeptPlaced
  <2>5. Normal(us, vs)
    BY <1>3, <1>7, <1>8, <2>2, <2>3, <2>4 DEF Normal
  <2>6. QED BY <1>6, <1>10, <2>5 DEF Sends, SentNew
<1>11. CASE m.role = "tool"
  <2>1. m.call \in announced /\ TrimSpace[m.call] = m.call
    BY <1>2, <1>11 DEF Announces, Announced
  <2>2. Announced(us, announced)
    BY <1>1, <1>2, <1>11, AnnouncedGrows
  <2>3. CASE m.call \in DOMAIN place
    <3>1. PICK p : p = place[m.call]
      OBVIOUS
    <3>2. PICK ws : ws = [out EXCEPT ![p] = m]
      OBVIOUS
    <3>3. Replaces(out, place, m, p, ws)
      BY <3>1, <3>2 DEF Replaces
    <3>4. Normalized(us) = Payload(ws, announced, place)
      BY <1>4, <1>11, <2>1, <2>3, <3>3, ReplacedNext
    <3>5. Placed(us, ws, place)
      BY <1>1, <1>2, <1>11, <2>3, <3>3, ReplacedPlaced
    <3>6. p \in DOMAIN out /\ \E i \in DOMAIN ms : LatestAnswer(ms, m.call, i) /\ ms[i] = out[p]
      BY <1>2, <2>3, <3>1 DEF Placed, PlacedAt
    <3>7. out[p].role = "tool" /\ out[p].call = m.call
      BY <3>6 DEF LatestAnswer
    <3>8. ws \in Seq(MessageType) /\ Among(out, m, ws)
      <4> HIDE DEF MessageType
      <4>1. ws \in Seq(MessageType)
        BY <1>1, <1>7, <3>2, <3>6, ExceptSeq
      <4>2. Among(out, m, ws)
        BY <3>2, <3>6 DEF Among
      <4>3. QED BY <4>1, <4>2
    <3>9. From(us, ws)
      BY <1>1, <3>8, FromKept
    <3>10. Normal(us, ws)
      BY <1>3, <2>2, <3>4, <3>5, <3>8, <3>9 DEF Normal
    <3>11. SentAt(out, m, ws, p)
      BY <1>11, <3>2, <3>6, <3>7 DEF SentAt
    <3>12. QED BY <3>10, <3>11 DEF Sends, SentAgain
  <2>4. CASE m.call \notin DOMAIN place
    <3>1. PICK more : PlacesNext(out, place, m, more)
      BY DEF PlacesNext
    <3>2. Normalized(us) = Payload(vs, announced, more)
      BY <1>4, <1>6, <1>11, <2>1, <2>4, <3>1, ExtendedNext
    <3>3. Placed(us, vs, more)
      BY <1>1, <1>2, <1>6, <1>11, <2>4, <3>1, ExtendedPlaced
    <3>4. Normal(us, vs)
      BY <1>3, <1>7, <1>8, <2>2, <3>2, <3>3 DEF Normal
    <3>5. \A i \in DOMAIN ms : ms[i].role = "tool" => ms[i].call # m.call
      BY <1>2, <2>4 DEF Placed
    <3>6. QED BY <1>6, <3>4, <3>5 DEF Sends, SentNew
  <2>5. QED BY <2>3, <2>4
<1>12. QED BY <1>5, <1>9, <1>10, <1>11

-----------------------------------------------------------------------------
(***************************************************************************)
(* The order of what is sent, as long as no call's id is used again.       *)
(***************************************************************************)

Distinct(ms) ==
  \A i, j \in DOMAIN ms : i # j => IDs(ms[i].calls) \cap IDs(ms[j].calls) = {}

\* One of the first calls of the message at i was blocked.
BlockedBefore(ms, out, i, j) == \E h \in 1..(j - 1) : BlockedIn(ms, out[i].calls[h].id)

SettledAt(ms, out, i) ==
  \A j \in DOMAIN out[i].calls : AnswerAt(out, i, j) \/ BlockedBefore(ms, out, i, j)

AllSettled(ms, out) == \A i \in DOMAIN out : SettledAt(ms, out, i)

\* The message at j answers the call at h of the message at i, that many before it.
CallFor(out, i, h, j) ==
  /\ i \in DOMAIN out /\ h \in DOMAIN out[i].calls
  /\ i + h = j /\ out[i].calls[h].id = out[j].call

ToolsPlaced(out) == \A j \in DOMAIN out : out[j].role = "tool" => \E i, h : CallFor(out, i, h, j)

\* What is sent ends in the answers to the first n calls of the message at p.
OpenAt(ms, out, p, n) ==
  /\ p \in DOMAIN out /\ n \in Nat /\ Len(out) = p + n
  /\ ShapeOK(out[p].calls)
  /\ \A j \in 1..n : AnswerAt(out, p, j)
  /\ \A i \in DOMAIN out : i # p => SettledAt(ms, out, i)

\* cs are its other calls.
OpensAt(ms, out, p, n, cs) ==
  /\ OpenAt(ms, out, p, n)
  /\ Len(out[p].calls) = n + Len(cs)
  /\ \A j \in DOMAIN cs : out[p].calls[n + j] = cs[j]

Opens(ms, out, cs) == \E p, n : OpensAt(ms, out, p, n, cs)

\* vs has the same message as out wherever out has one, but for the outcome of a call.
Covers(out, vs) ==
  \A j \in DOMAIN out : /\ j \in DOMAIN vs /\ vs[j].role = out[j].role
                        /\ vs[j].call = out[j].call /\ vs[j].calls = out[j].calls

LEMMA AnswerStays ==
  ASSUME NEW out, NEW vs, Covers(out, vs), NEW i \in DOMAIN out, NEW j, AnswerAt(out, i, j)
  PROVE  AnswerAt(vs, i, j)
<1>1. PICK x : x = i + j
  OBVIOUS
<1>2. x \in DOMAIN out /\ out[x].role = "tool" /\ out[x].call = out[i].calls[j].id
  BY <1>1 DEF AnswerAt
<1>3. x \in DOMAIN vs /\ vs[x].role = "tool" /\ vs[x].call = vs[i].calls[j].id
  BY <1>2 DEF Covers
<1>4. QED BY <1>1, <1>3 DEF AnswerAt

LEMMA CallForStays ==
  ASSUME NEW out, NEW vs, Covers(out, vs), NEW i, NEW h, NEW j \in DOMAIN out,
         CallFor(out, i, h, j)
  PROVE  CallFor(vs, i, h, j)
BY DEF CallFor, Covers

LEMMA BlockedStays ==
  ASSUME NEW ms \in Seq(MessageType), NEW m \in MessageType, NEW us, us = Append(ms, m),
         NEW id, BlockedIn(ms, id)
  PROVE  BlockedIn(us, id)
<1> HIDE DEF MessageType
<1>1. /\ Len(ms) \in Nat /\ DOMAIN ms = 1..Len(ms) /\ DOMAIN us = 1..(Len(ms) + 1)
      /\ us[Len(ms) + 1] = m /\ \A x \in 1..Len(ms) : us[x] = ms[x]
  BY AppendParts
<1>2. \A h \in DOMAIN ms : h \in DOMAIN us /\ us[h] = ms[h]
  BY <1>1
<1>3. QED BY <1>2 DEF BlockedIn

LEMMA BlockedNew ==
  ASSUME NEW ms \in Seq(MessageType), NEW m \in MessageType, NEW us, us = Append(ms, m),
         m.requirement # NoRequirement
  PROVE  BlockedIn(us, m.call)
<1> HIDE DEF MessageType
<1>1. Len(ms) \in Nat /\ DOMAIN us = 1..(Len(ms) + 1) /\ us[Len(ms) + 1] = m
  BY AppendParts
<1>2. Len(ms) + 1 \in DOMAIN us
  BY <1>1
<1>3. QED BY <1>1, <1>2 DEF BlockedIn

LEMMA SettledStays ==
  ASSUME NEW ms \in Seq(MessageType), NEW m \in MessageType, NEW us, us = Append(ms, m),
         NEW out, NEW vs, Covers(out, vs), NEW i \in DOMAIN out, SettledAt(ms, out, i)
  PROVE  SettledAt(us, vs, i)
<1>1. vs[i].calls = out[i].calls
  BY DEF Covers
<1>2. ASSUME NEW j \in DOMAIN vs[i].calls
      PROVE  AnswerAt(vs, i, j) \/ BlockedBefore(us, vs, i, j)
  <2>1. CASE AnswerAt(out, i, j)
    BY <2>1, AnswerStays
  <2>2. CASE BlockedBefore(ms, out, i, j)
    <3>1. PICK h \in 1..(j - 1) : BlockedIn(ms, out[i].calls[h].id)
      BY <2>2 DEF BlockedBefore
    <3>2. PICK id : id = out[i].calls[h].id
      OBVIOUS
    <3>3. BlockedIn(ms, id)
      BY <3>1, <3>2
    <3>4. BlockedIn(us, id)
      BY <3>3, BlockedStays
    <3>5. QED BY <1>1, <3>2, <3>4 DEF BlockedBefore
  <2>3. QED BY <1>1, <1>2, <2>1, <2>2 DEF SettledAt
<1>3. QED BY <1>2 DEF SettledAt

LEMMA DistinctPrefix ==
  ASSUME NEW ms \in Seq(MessageType), NEW m \in MessageType, NEW us, us = Append(ms, m),
         Distinct(us)
  PROVE  /\ Distinct(ms)
         /\ \A h \in DOMAIN ms : IDs(ms[h].calls) \cap IDs(m.calls) = {}
<1> HIDE DEF MessageType
<1>1. /\ Len(ms) \in Nat /\ DOMAIN ms = 1..Len(ms) /\ DOMAIN us = 1..(Len(ms) + 1)
      /\ us[Len(ms) + 1] = m /\ \A x \in 1..Len(ms) : us[x] = ms[x]
  BY AppendParts
<1>2. \A h \in DOMAIN ms : h \in DOMAIN us /\ us[h] = ms[h] /\ h # Len(ms) + 1
  BY <1>1
<1>3. Len(ms) + 1 \in DOMAIN us
  BY <1>1
<1>4. QED BY <1>1, <1>2, <1>3 DEF Distinct

\* m is sent behind the others.
LEMMA AppendedParts ==
  ASSUME NEW ms \in Seq(MessageType), NEW out \in Seq(MessageType), NEW m \in MessageType,
         NEW us, us = Append(ms, m), NEW vs, vs = Append(out, m),
         From(ms, out), Distinct(us), Distinct(out)
  PROVE  Distinct(vs) /\ Covers(out, vs)
<1> HIDE DEF MessageType
<1>1. /\ Len(out) \in Nat /\ DOMAIN out = 1..Len(out) /\ DOMAIN vs = 1..(Len(out) + 1)
      /\ vs[Len(out) + 1] = m /\ \A x \in 1..Len(out) : vs[x] = out[x]
  BY AppendParts
<1>2. \A x \in DOMAIN vs : x = Len(out) + 1 \/ x \in DOMAIN out
  BY <1>1
<1>3. \A x \in DOMAIN out : x \in DOMAIN vs /\ vs[x] = out[x] /\ x # Len(out) + 1
  BY <1>1
<1>4. \A x \in DOMAIN out : IDs(out[x].calls) \cap IDs(m.calls) = {}
  <2>1. \A h \in DOMAIN ms : IDs(ms[h].calls) \cap IDs(m.calls) = {}
    BY DistinctPrefix
  <2>2. QED BY <2>1 DEF From
<1>5. Covers(out, vs)
  BY <1>3 DEF Covers
<1>6. ASSUME NEW i \in DOMAIN vs, NEW j \in DOMAIN vs, i # j
      PROVE  IDs(vs[i].calls) \cap IDs(vs[j].calls) = {}
  <2>1. CASE i \in DOMAIN out /\ j \in DOMAIN out
    BY <1>3, <1>6, <2>1 DEF Distinct
  <2>2. CASE i = Len(out) + 1 /\ j \in DOMAIN out
    <3>1. vs[i] = m /\ vs[j] = out[j]
      BY <1>1, <1>3, <2>2
    <3>2. QED BY <1>4, <2>2, <3>1
  <2>3. CASE j = Len(out) + 1 /\ i \in DOMAIN out
    <3>1. vs[j] = m /\ vs[i] = out[i]
      BY <1>1, <1>3, <2>3
    <3>2. QED BY <1>4, <2>3, <3>1
  <2>4. QED BY <1>2, <1>6, <2>1, <2>2, <2>3
<1>7. QED BY <1>5, <1>6 DEF Distinct

\* m is sent in the place of another.
LEMMA ReplacedParts ==
  ASSUME NEW out \in Seq(MessageType), NEW m \in MessageType, NEW vs, NEW p,
         SentAt(out, m, vs, p), OnlyAssistants(out), m.calls = <<>>
  PROVE  Covers(out, vs) /\ Covers(vs, out)
<1>1. /\ p \in DOMAIN out /\ out[p].role = "tool" /\ out[p].call = m.call
      /\ m.role = "tool" /\ vs = [out EXCEPT ![p] = m]
  BY DEF SentAt
<1>2. out[p].calls = <<>>
  BY <1>1 DEF OnlyAssistants
<1>3. DOMAIN vs = DOMAIN out /\ vs[p] = m /\ \A j \in DOMAIN out : j # p => vs[j] = out[j]
  BY <1>1
<1>4. QED BY <1>1, <1>2, <1>3 DEF Covers

InOrder(out) == Distinct(out) /\ ToolsPlaced(out)

LEMMA SettledAllStay ==
  ASSUME NEW ms \in Seq(MessageType), NEW m \in MessageType, NEW us, us = Append(ms, m),
         NEW out, NEW vs, Covers(out, vs), Covers(vs, out), AllSettled(ms, out)
  PROVE  AllSettled(us, vs)
<1>1. ASSUME NEW i \in DOMAIN vs PROVE SettledAt(us, vs, i)
  <2>1. i \in DOMAIN out
    BY DEF Covers
  <2>2. SettledAt(ms, out, i)
    BY <2>1 DEF AllSettled
  <2>3. QED BY <2>1, <2>2, SettledStays
<1>2. QED BY <1>1 DEF AllSettled

\* An answer in the place of another.
LEMMA AgainSent ==
  ASSUME NEW ms \in Seq(MessageType), NEW out \in Seq(MessageType), NEW m \in MessageType,
         NEW us, us = Append(ms, m), NEW vs, SentAgain(out, m, vs),
         OnlyAssistants(out), m.calls = <<>>, InOrder(out), AllSettled(ms, out)
  PROVE  InOrder(vs) /\ AllSettled(us, vs)
<1>1. PICK p : SentAt(out, m, vs, p)
  BY DEF SentAgain
<1>2. Covers(out, vs) /\ Covers(vs, out)
  BY <1>1, ReplacedParts
<1>3. AllSettled(us, vs)
  BY <1>2, SettledAllStay
<1>4. \A j \in DOMAIN vs : j \in DOMAIN out /\ vs[j].calls = out[j].calls
                           /\ out[j].role = vs[j].role
  BY <1>2 DEF Covers
<1>5. Distinct(vs)
  BY <1>4 DEF InOrder, Distinct
<1>6. ASSUME NEW j \in DOMAIN vs, vs[j].role = "tool"
      PROVE  \E i, h : CallFor(vs, i, h, j)
  <2>1. j \in DOMAIN out /\ out[j].role = "tool"
    BY <1>4, <1>6
  <2>2. PICK i, h : CallFor(out, i, h, j)
    BY <2>1 DEF InOrder, ToolsPlaced
  <2>3. CallFor(vs, i, h, j)
    BY <1>2, <2>1, <2>2, CallForStays
  <2>4. QED BY <2>3
<1>7. QED BY <1>3, <1>5, <1>6 DEF InOrder, ToolsPlaced

\* What is sent is in order with one message more, if that is where its call has it.
LEMMA NewInOrder ==
  ASSUME NEW ms \in Seq(MessageType), NEW out \in Seq(MessageType), NEW m \in MessageType,
         NEW us, us = Append(ms, m), NEW vs, vs = Append(out, m),
         From(ms, out), Distinct(us), InOrder(out),
         m.role = "tool" => \E i, h : CallFor(vs, i, h, Len(out) + 1)
  PROVE  InOrder(vs) /\ Covers(out, vs)
<1>1. /\ Len(out) \in Nat /\ DOMAIN out = 1..Len(out) /\ DOMAIN vs = 1..(Len(out) + 1)
      /\ vs[Len(out) + 1] = m /\ \A x \in 1..Len(out) : vs[x] = out[x]
  <2> HIDE DEF MessageType
  <2>1. QED BY AppendParts
<1>2. Distinct(vs) /\ Covers(out, vs)
  BY AppendedParts DEF InOrder
<1>3. ASSUME NEW j \in DOMAIN vs, vs[j].role = "tool"
      PROVE  \E i, h : CallFor(vs, i, h, j)
  <2>1. CASE j = Len(out) + 1
    BY <1>1, <1>3, <2>1
  <2>2. CASE j # Len(out) + 1
    <3>1. j \in DOMAIN out /\ out[j].role = "tool"
      BY <1>1, <1>3, <2>2
    <3>2. PICK i, h : CallFor(out, i, h, j)
      BY <3>1 DEF InOrder, ToolsPlaced
    <3>3. CallFor(vs, i, h, j)
      BY <1>2, <3>1, <3>2, CallForStays
    <3>4. QED BY <3>3
  <2>3. QED BY <2>1, <2>2
<1>4. QED BY <1>2, <1>3 DEF InOrder, ToolsPlaced

\* A message that answers no call.
LEMMA SpokenSent ==
  ASSUME NEW ms \in Seq(MessageType), NEW out \in Seq(MessageType), NEW m \in MessageType,
         NEW us, us = Append(ms, m), NEW vs, SentNew(ms, out, m, vs), m.role # "tool",
         From(ms, out), Distinct(us), InOrder(out), AllSettled(ms, out)
  PROVE  /\ InOrder(vs)
         /\ m.calls = <<>> => AllSettled(us, vs)
         /\ ShapeOK(m.calls) => Opens(us, vs, m.calls)
<1>1. PICK l : l = Len(out)
  OBVIOUS
<1>2. /\ l \in Nat /\ DOMAIN out = 1..l /\ DOMAIN vs = 1..(l + 1)
      /\ vs[l + 1] = m /\ \A x \in 1..l : vs[x] = out[x]
  <2> HIDE DEF MessageType
  <2>1. vs = Append(out, m)
    BY DEF SentNew
  <2>2. QED BY <1>1, <2>1, AppendParts
<1>3. Len(vs) = l + 1
  <2> HIDE DEF MessageType
  <2>1. vs = Append(out, m)
    BY DEF SentNew
  <2>2. QED BY <1>1, <2>1, AppendParts
<1>4. InOrder(vs) /\ Covers(out, vs)
  <2>1. vs = Append(out, m)
    BY DEF SentNew
  <2>2. QED BY <2>1, NewInOrder
<1>5. ASSUME NEW i \in DOMAIN vs, i # l + 1 PROVE SettledAt(us, vs, i)
  <2>1. i \in DOMAIN out
    BY <1>2, <1>5
  <2>2. SettledAt(ms, out, i)
    BY <2>1 DEF AllSettled
  <2>3. QED BY <1>4, <2>1, <2>2, SettledStays
<1>6. ASSUME m.calls = <<>> PROVE AllSettled(us, vs)
  <2>1. SettledAt(us, vs, l + 1)
    BY <1>2, <1>6 DEF SettledAt
  <2>2. QED BY <1>5, <2>1 DEF AllSettled
<1>7. ASSUME ShapeOK(m.calls) PROVE Opens(us, vs, m.calls)
  <2>1. OpenAt(us, vs, l + 1, 0)
    <3>1. l + 1 \in DOMAIN vs /\ Len(vs) = (l + 1) + 0 /\ 1..0 = {}
      BY <1>2, <1>3
    <3>2. QED BY <1>2, <1>5, <1>7, <3>1 DEF OpenAt
  <2>2. DOMAIN m.calls = 1..Len(m.calls) /\ Len(m.calls) \in Nat
    BY CallsTyped
  <2>3. \A j \in 1..Len(m.calls) : 0 + j = j
    BY <2>2
  <2>4. OpensAt(us, vs, l + 1, 0, m.calls)
    BY <1>2, <2>1, <2>2, <2>3 DEF OpensAt
  <2>5. QED BY <2>4 DEF Opens
<1>8. QED BY <1>4, <1>6, <1>7

\* No call before the next one of the message that is open was answered under its id.
LEMMA NextIsNew ==
  ASSUME NEW ms, NEW out \in Seq(MessageType), InOrder(out), NEW p, NEW n,
         OpenAt(ms, out, p, n), NEW next, Follows(n, next), next \in DOMAIN out[p].calls,
         NEW j \in DOMAIN out, out[j].role = "tool"
  PROVE  out[j].call # out[p].calls[next].id
<1> SUFFICES ASSUME out[j].call = out[p].calls[next].id PROVE FALSE
  OBVIOUS
<1>1. p \in DOMAIN out /\ Len(out) = p + n /\ n \in Nat /\ ShapeOK(out[p].calls)
  BY DEF OpenAt
<1>2. PICK i, h : CallFor(out, i, h, j)
  BY DEF InOrder, ToolsPlaced
<1>3. i \in DOMAIN out /\ h \in DOMAIN out[i].calls
      /\ i + h = j /\ out[i].calls[h].id = out[p].calls[next].id
  BY <1>2 DEF CallFor
<1>4. out[p].calls[next].id # ""
  BY <1>1 DEF ShapeOK
<1>5. i = p
  <2>1. out[p].calls[next].id \in IDs(out[p].calls)
    BY <1>4 DEF IDs
  <2>2. out[p].calls[next].id \in IDs(out[i].calls)
    BY <1>3, <1>4 DEF IDs
  <2>3. QED BY <1>1, <1>3, <2>1, <2>2 DEF InOrder, Distinct
<1>6. h = next
  BY <1>1, <1>3, <1>5 DEF ShapeOK
<1>7. DOMAIN out = 1..Len(out) /\ Len(out) \in Nat
  <2> HIDE DEF MessageType
  <2>1. QED BY LenProperties
<1>8. next = n + 1
  BY DEF Follows
<1>9. j = p + (n + 1)
  BY <1>3, <1>5, <1>6, <1>8
<1>10. j <= p + n /\ p \in Nat
  BY <1>1, <1>7
<1>11. QED BY <1>1, <1>9, <1>10

\* What is sent goes on with the answer m to the next call.
AnswersNextCall(out, us, vs, p, next, m) ==
  /\ OpenAt(us, vs, p, next) /\ InOrder(vs) /\ vs[p] = out[p]
  /\ m.requirement # NoRequirement => BlockedIn(us, vs[p].calls[next].id)

\* The observation of the next call is sent behind the others.
LEMMA HeardSent ==
  ASSUME NEW ms \in Seq(MessageType), NEW out \in Seq(MessageType), NEW m \in MessageType,
         NEW us, us = Append(ms, m), NEW vs, SentNew(ms, out, m, vs) \/ SentAgain(out, m, vs),
         From(ms, out), Distinct(us), InOrder(out), m.role = "tool", m.calls = <<>>,
         NEW p, NEW n, OpenAt(ms, out, p, n), NEW next, Follows(n, next),
         next \in DOMAIN out[p].calls, m.call = out[p].calls[next].id
  PROVE  AnswersNextCall(out, us, vs, p, next, m)
<1>1. PICK l : l = Len(out)
  OBVIOUS
<1>2. \A j \in DOMAIN out : out[j].role = "tool" => out[j].call # m.call
  BY NextIsNew
<1>3. vs = Append(out, m)
  <2>1. ~SentAgain(out, m, vs)
    BY <1>2 DEF SentAgain, SentAt
  <2>2. QED BY <2>1 DEF SentNew
<1>4. /\ l \in Nat /\ DOMAIN out = 1..l /\ DOMAIN vs = 1..(l + 1) /\ Len(vs) = l + 1
      /\ vs[l + 1] = m /\ \A x \in 1..l : vs[x] = out[x]
  <2> HIDE DEF MessageType
  <2>1. QED BY <1>1, <1>3, AppendParts
<1>5. /\ p \in DOMAIN out /\ n \in Nat /\ l = p + n /\ ShapeOK(out[p].calls)
      /\ \A j \in 1..n : AnswerAt(out, p, j)
      /\ \A i \in DOMAIN out : i # p => SettledAt(ms, out, i)
  BY <1>1 DEF OpenAt
<1>6. next = n + 1 /\ next \in Nat
  BY <1>5 DEF Follows
<1>7. p \in Nat /\ p + next = l + 1 /\ vs[p] = out[p] /\ p \in DOMAIN vs /\ p # l + 1
  <2>1. p \in 1..l /\ n \in Nat /\ l = p + n /\ l \in Nat
    BY <1>4, <1>5
  <2>2. p \in Nat /\ p + (n + 1) = l + 1 /\ p \in 1..(l + 1) /\ p # l + 1
    BY <2>1
  <2>3. vs[p] = out[p]
    BY <1>4, <2>1
  <2>4. QED BY <1>4, <1>6, <2>2, <2>3
<1>8. CallFor(vs, p, next, l + 1)
  BY <1>4, <1>7 DEF CallFor
<1>9. InOrder(vs) /\ Covers(out, vs)
  <2>1. m.role = "tool" => \E i, h : CallFor(vs, i, h, Len(out) + 1)
    BY <1>1, <1>8
  <2>2. QED BY <1>3, <2>1, NewInOrder
<1>10. ASSUME NEW j \in 1..next PROVE AnswerAt(vs, p, j)
  <2>1. CASE j = next
    <3>1. p + j = l + 1 /\ l + 1 \in DOMAIN vs
      BY <1>4, <1>7, <2>1
    <3>2. QED BY <1>4, <1>7, <2>1, <3>1 DEF AnswerAt
  <2>2. CASE j # next
    <3>1. j \in 1..n
      BY <1>5, <1>6, <2>2
    <3>2. AnswerAt(out, p, j)
      BY <1>5, <3>1
    <3>3. QED BY <1>5, <1>9, <3>2, AnswerStays
  <2>3. QED BY <2>1, <2>2
<1>11. ASSUME NEW i \in DOMAIN vs, i # p PROVE SettledAt(us, vs, i)
  <2>1. CASE i = l + 1
    <3>1. vs[i].calls = <<>>
      BY <1>4, <2>1
    <3>2. QED BY <3>1 DEF SettledAt
  <2>2. CASE i # l + 1
    <3>1. i \in DOMAIN out
      BY <1>4, <2>2
    <3>2. SettledAt(ms, out, i)
      BY <1>5, <1>11, <3>1
    <3>3. QED BY <1>9, <3>1, <3>2, SettledStays
  <2>3. QED BY <2>1, <2>2
<1>12. OpenAt(us, vs, p, next)
  BY <1>4, <1>5, <1>6, <1>7, <1>10, <1>11 DEF OpenAt
<1>13. m.requirement # NoRequirement => BlockedIn(us, vs[p].calls[next].id)
  <2>1. m.requirement # NoRequirement => BlockedIn(us, m.call)
    BY BlockedNew
  <2>2. QED BY <1>7, <2>1
<1>14. QED BY <1>7, <1>9, <1>12, <1>13 DEF AnswersNextCall

\* A message whose calls are all answered, up to one that was blocked, is settled.
LEMMA OpenSettles ==
  ASSUME NEW ms, NEW out \in Seq(MessageType), NEW p, NEW n, OpenAt(ms, out, p, n),
         n = Len(out[p].calls) \/ (n # 0 /\ BlockedIn(ms, out[p].calls[n].id))
  PROVE  AllSettled(ms, out)
<1>1. /\ p \in DOMAIN out /\ n \in Nat
      /\ \A j \in 1..n : AnswerAt(out, p, j)
      /\ \A i \in DOMAIN out : i # p => SettledAt(ms, out, i)
  BY DEF OpenAt
<1>2. DOMAIN out[p].calls = 1..Len(out[p].calls) /\ Len(out[p].calls) \in Nat
  <2>1. PICK x \in MessageType : x = out[p]
    <3> HIDE DEF MessageType
    <3>1. QED BY <1>1, ElementOfSeq, LenProperties
  <2>2. QED BY <2>1, CallsTyped
<1>3. ASSUME NEW j \in DOMAIN out[p].calls
      PROVE  AnswerAt(out, p, j) \/ BlockedBefore(ms, out, p, j)
  <2>1. CASE j <= n
    <3>1. j \in 1..n
      BY <1>1, <1>2, <2>1
    <3>2. QED BY <1>1, <3>1
  <2>2. CASE ~(j <= n)
    <3>1. n # Len(out[p].calls)
      BY <1>1, <1>2, <2>2
    <3>2. n \in 1..(j - 1) /\ BlockedIn(ms, out[p].calls[n].id)
      BY <1>1, <1>2, <2>2, <3>1
    <3>3. QED BY <3>2 DEF BlockedBefore
  <2>3. QED BY <2>1, <2>2
<1>4. QED BY <1>1, <1>3 DEF AllSettled, SettledAt

-----------------------------------------------------------------------------
(***************************************************************************)
(* What could be sent in every state.                                      *)
(***************************************************************************)

\* While call ids are not reused, what is sent is in order, and each call is answered at
\* its place, or not yet, or is behind one that was blocked.
SentOK(out) ==
  Distinct(run.messages) =>
    /\ InOrder(out)
    /\ pc = "acting" => Opens(run.messages, out, calls)
    /\ run.status \notin Terminal /\ pc # "acting" => AllSettled(run.messages, out)

PayloadInv == Trimmed(run.messages) => \E out : Normal(run.messages, out) /\ SentOK(out)

\* What comes behind a transcript leaves no blanks out of it.
LEMMA TrimmedPrefix ==
  ASSUME NEW ms \in Seq(MessageType), NEW m \in MessageType, NEW us, us = Append(ms, m),
         Trimmed(us)
  PROVE  Trimmed(ms) /\ (m.role = "tool" => TrimSpace[m.call] = m.call)
<1> HIDE DEF MessageType
<1>1. /\ Len(ms) \in Nat /\ DOMAIN ms = 1..Len(ms) /\ DOMAIN us = 1..(Len(ms) + 1)
      /\ us[Len(ms) + 1] = m /\ \A x \in 1..Len(ms) : us[x] = ms[x]
  BY AppendParts
<1>2. Len(ms) + 1 \in DOMAIN us /\ \A x \in DOMAIN ms : x \in DOMAIN us /\ us[x] = ms[x]
  BY <1>1
<1>3. m.role = "tool" => TrimSpace[m.call] = m.call
  BY <1>1, <1>2 DEF Trimmed
<1>4. Trimmed(ms)
  BY <1>2 DEF Trimmed
<1>5. QED BY <1>3, <1>4

LEMMA NoIDs == ASSUME NEW cs, cs = <<>> PROVE IDs(cs) = {}
BY DEF IDs

\* A message that answers no call begins what is to be answered.
LEMMA SaidPayload ==
  ASSUME PayloadInv, run.messages \in Seq(MessageType), pc # "acting", run.status \notin Terminal,
         NEW m \in MessageType, m.role # "tool", m.role # "assistant" => m.calls = <<>>,
         run'.messages = Append(run.messages, m),
         pc' # "acting" => m.calls = <<>> \/ run'.status \in Terminal,
         pc' = "acting" => calls' = m.calls /\ ShapeOK(m.calls)
  PROVE  PayloadInv'
<1> SUFFICES ASSUME Trimmed(run'.messages)
             PROVE  \E vs : Normal(run'.messages, vs) /\ SentOK(vs)'
  BY DEF PayloadInv, Trimmed
<1>1. PICK ms : ms = run.messages
  OBVIOUS
<1>2. PICK us : us = run'.messages
  OBVIOUS
<1>trimmed. Trimmed(ms)
  BY <1>1, TrimmedPrefix
<1>3. PICK out : Normal(ms, out) /\ SentOK(out)
  BY <1>1, <1>trimmed DEF PayloadInv
<1>4. us = Append(ms, m) /\ ms \in Seq(MessageType) /\ out \in Seq(MessageType) /\ From(ms, out)
  BY <1>1, <1>2, <1>3 DEF Normal
<1>5. m.role # "assistant" => IDs(m.calls) = {}
  BY NoIDs
<1>6. Sends(ms, out, m, us)
  BY <1>3, <1>4, <1>5, NormalGoesOn
<1>7. PICK vs : Normal(us, vs) /\ (SentNew(ms, out, m, vs) \/ SentAgain(out, m, vs))
  BY <1>6 DEF Sends
<1>8. SentNew(ms, out, m, vs)
  BY <1>7 DEF SentAgain, SentAt
<1>9. ASSUME Distinct(us)
      PROVE  /\ InOrder(vs)
             /\ m.calls = <<>> => AllSettled(us, vs)
             /\ ShapeOK(m.calls) => Opens(us, vs, m.calls)
  <2>1. Distinct(ms)
    BY <1>4, <1>9, DistinctPrefix
  <2>2. InOrder(out) /\ AllSettled(ms, out)
    BY <1>1, <1>3, <2>1 DEF SentOK
  <2>3. QED BY <1>4, <1>8, <1>9, <2>2, SpokenSent
<1>10. SentOK(vs)'
  BY <1>2, <1>9 DEF SentOK
<1>11. QED BY <1>2, <1>7, <1>10

\* Nothing is written.
LEMMA SamePayload ==
  ASSUME PayloadInv, run'.messages = run.messages, pc' # "acting",
         run'.status \notin Terminal => run.status \notin Terminal /\ pc # "acting"
  PROVE  PayloadInv'
<1> SUFFICES ASSUME Trimmed(run.messages)
             PROVE  \E out : Normal(run'.messages, out) /\ SentOK(out)'
  BY DEF PayloadInv, Trimmed
<1>1. PICK out : Normal(run.messages, out) /\ SentOK(out)
  BY DEF PayloadInv
<1>2. SentOK(out)'
  BY <1>1 DEF SentOK
<1>3. QED BY <1>1, <1>2

LEMMA EnterPayload == ASSUME LoopInv, PayloadInv, Keeps, Enters PROVE PayloadInv'
<1>typed. run.messages \in Seq(MessageType)
  BY StateFields DEF LoopInv, LoopTyped
<1>1. run.status \notin Terminal /\ pc = "entering"
  BY DEF LoopInv, StatusOK, Resumable, Terminal, Enters
<1>2. PICK m : m = UserMessage
  OBVIOUS
<1>3. m \in MessageType /\ m.calls = <<>> /\ m.role = "user"
  BY <1>2, MessagesTyped DEF UserMessage, Message
<1>4. run'.messages = run.messages \/ run'.messages = Append(run.messages, m)
  BY <1>2 DEF Enters
<1>5. pc' # "acting"
  BY DEF Enters
<1>6. CASE run'.messages = run.messages
  BY <1>1, <1>5, <1>6, SamePayload
<1>7. CASE run'.messages = Append(run.messages, m)
  BY <1>1, <1>3, <1>5, <1>7, <1>typed, SaidPayload
<1>8. QED BY <1>4, <1>6, <1>7

LEMMA SpeakPayload ==
  ASSUME LoopInv, PayloadInv, Keeps,
         NEW q \in RequirementSet, NEW cs \in CallLists \cup {<<>>}, Speaks(q, cs)
  PROVE  PayloadInv'
<1>typed. run.messages \in Seq(MessageType)
  BY StateFields DEF LoopInv, LoopTyped
<1>1. run.status \notin Terminal /\ pc # "acting"
  BY DEF LoopInv, StatusOK, Terminal, Speaks
<1>2. PICK m : m = Assistant(q, cs)
  OBVIOUS
<1>3. m \in MessageType /\ m.calls = cs /\ m.role = "assistant"
  BY <1>2, MessagesTyped DEF Assistant, Message
<1>4. run'.messages = Append(run.messages, m)
  BY <1>2 DEF Speaks
<1>5. /\ pc' # "acting" => m.calls = <<>> \/ run'.status \in Terminal
      /\ pc' = "acting" => calls' = m.calls /\ ShapeOK(m.calls)
  BY <1>3 DEF Speaks, Proceeds, Returns, Terminal
<1>6. QED BY <1>1, <1>3, <1>4, <1>5, <1>typed, SaidPayload

LEMMA StopPayload == ASSUME LoopInv, PayloadInv, Keeps, Stops PROVE PayloadInv'
<1>1. run'.messages = run.messages /\ pc' = "between"
      /\ run'.status \in {"failed", "cancelled", "max_steps_exceeded"}
      /\ (run'.status = "max_steps_exceeded" => pc = "thinking")
      /\ pc \in {"replaying", "thinking", "acting"}
  BY DEF Stops, Returns
<1>2. run'.status \notin Terminal => run.status \notin Terminal /\ pc # "acting"
  BY <1>1 DEF LoopInv, StatusOK, Terminal
<1>3. QED BY <1>1, <1>2, SamePayload

LEMMA HandOverPayload ==
  ASSUME LoopInv, PayloadInv, Carry \/ Resume
  PROVE  PayloadInv'
<1>1. run \in StateType
  BY DEF LoopInv, LoopTyped
<1>2. run.messages \in Seq(MessageType)
  BY <1>1, StateFields
<1>3. pc = "between" /\ run.status \notin Terminal /\ pc' = "entering"
  BY HandOverAdds
<1>4. PICK m : m = UserMessage
  OBVIOUS
<1>5. m \in MessageType /\ m.calls = <<>> /\ m.role = "user"
  BY <1>4, MessagesTyped DEF UserMessage, Message
<1>6. run'.messages = run.messages \/ run'.messages = Append(run.messages, m)
  <2>1. CASE Carry
    <3>1. PICK max \in MaxSteps, said \in {<<>>, <<UserMessage>>} :
            HandOver([run EXCEPT !.messages = @ \o said], [NoInput EXCEPT !.max = max])
      BY <2>1 DEF Carry
    <3>2. PICK vs : vs = run.messages \o said
      OBVIOUS
    <3>3. vs = run.messages \/ vs = Append(run.messages, m)
      BY <1>2, <1>4, <1>5, <3>2, ConcatEmptySeq, AppendIsConcat
    <3>4. run' = [[run EXCEPT !.messages = vs] EXCEPT !.version = run.version + 1]
      BY <3>1, <3>2 DEF HandOver
    <3>5. run'.messages = vs
      BY <1>1, <3>4 DEF StateType
    <3>6. QED BY <3>3, <3>5
  <2>2. CASE Resume
    <3>1. PICK in :
            HandOver([run EXCEPT !.status = "running", !.requirement = NoRequirement], in)
      BY <2>2 DEF Resume
    <3>2. PICK st : st = [run EXCEPT !.status = "running", !.requirement = NoRequirement]
      OBVIOUS
    <3>3. st.messages = run.messages
      BY <1>1, <3>2 DEF StateType
    <3>4. run' = [st EXCEPT !.version = run.version + 1]
      BY <3>1, <3>2 DEF HandOver
    <3>5. run'.messages = run.messages
      BY <1>1, <3>2, <3>3, <3>4 DEF StateType
    <3>6. QED BY <3>5
  <2>3. QED BY <2>1, <2>2
<1>7. CASE run'.messages = run.messages
  BY <1>3, <1>7, SamePayload
<1>8. CASE run'.messages = Append(run.messages, m)
  BY <1>2, <1>3, <1>5, <1>8, SaidPayload
<1>9. QED BY <1>6, <1>7, <1>8

\* A call of the transcript is announced by it.
LEMMA LatestIsAnnounced ==
  ASSUME NEW ms, NEW k, LatestCall(ms, k), k.id # ""
  PROVE  Announces(ms, k.id)
BY DEF LatestCall, Announces, IDs

\* The first of the open calls is answered.
LEMMA OpensGoesOn ==
  ASSUME NEW ms \in Seq(MessageType), NEW out \in Seq(MessageType), NEW m \in MessageType,
         NEW us, us = Append(ms, m), NEW vs, SentNew(ms, out, m, vs) \/ SentAgain(out, m, vs),
         From(ms, out), Distinct(us), InOrder(out), m.role = "tool", m.calls = <<>>,
         NEW cs \in Seq(ToolCalls), cs # <<>>, m.call = Head(cs).id,
         Opens(ms, out, cs), vs \in Seq(MessageType)
  PROVE  /\ InOrder(vs)
         /\ Tail(cs) = <<>> \/ m.requirement # NoRequirement => AllSettled(us, vs)
         /\ Opens(us, vs, Tail(cs))
<1>1. PICK p, n : OpensAt(ms, out, p, n, cs)
  BY DEF Opens
<1>2. PICK next : next = n + 1
  OBVIOUS
<1>3. /\ OpenAt(ms, out, p, n) /\ Len(out[p].calls) = n + Len(cs)
      /\ \A j \in DOMAIN cs : out[p].calls[n + j] = cs[j]
  BY <1>1 DEF OpensAt
<1>4. p \in DOMAIN out /\ n \in Nat /\ next \in Nat /\ next # 0 /\ Follows(n, next)
  BY <1>2, <1>3 DEF OpenAt, Follows
<1>5. /\ Len(cs) \in Nat /\ DOMAIN cs = 1..Len(cs) /\ Len(cs) >= 1 /\ cs[1] = Head(cs)
      /\ Tail(cs) \in Seq(ToolCalls) /\ Len(Tail(cs)) = Len(cs) - 1
      /\ DOMAIN Tail(cs) = 1..(Len(cs) - 1)
      /\ \A j \in 1..(Len(cs) - 1) : Tail(cs)[j] = cs[j + 1]
  BY HeadTailProperties, LenProperties, EmptySeq
<1>6. DOMAIN out[p].calls = 1..(n + Len(cs))
  <2>1. PICK x \in MessageType : x = out[p]
    <3> HIDE DEF MessageType
    <3>1. QED BY <1>4, ElementOfSeq, LenProperties
  <2>2. QED BY <1>3, <2>1, CallsTyped
<1>7. next \in DOMAIN out[p].calls /\ m.call = out[p].calls[next].id
  <2>1. next \in 1..(n + Len(cs))
    BY <1>2, <1>4, <1>5
  <2>2. 1 \in DOMAIN cs
    BY <1>5
  <2>3. out[p].calls[n + 1] = cs[1]
    BY <1>3, <2>2
  <2>4. QED BY <1>2, <1>5, <1>6, <2>1, <2>3
<1>8. vs[p] = out[p] /\ AnswersNextCall(out, us, vs, p, next, m)
  <2>1. /\ ms \in Seq(MessageType) /\ out \in Seq(MessageType) /\ m \in MessageType
        /\ us = Append(ms, m) /\ (SentNew(ms, out, m, vs) \/ SentAgain(out, m, vs))
        /\ From(ms, out) /\ Distinct(us) /\ InOrder(out) /\ m.role = "tool" /\ m.calls = <<>>
        /\ OpenAt(ms, out, p, n) /\ Follows(n, next)
        /\ next \in DOMAIN out[p].calls /\ m.call = out[p].calls[next].id
    BY <1>3, <1>4, <1>7
  <2>2. AnswersNextCall(out, us, vs, p, next, m)
    BY <2>1, HeardSent
  <2>3. QED BY <2>2 DEF AnswersNextCall
<1>9. OpenAt(us, vs, p, next) /\ InOrder(vs)
      /\ (m.requirement # NoRequirement => BlockedIn(us, vs[p].calls[next].id))
  BY <1>8 DEF AnswersNextCall
<1>10. Tail(cs) = <<>> => next = Len(vs[p].calls)
  <2>1. Tail(cs) = <<>> => Len(cs) - 1 = 0
    BY <1>5, EmptySeq
  <2>2. PICK a : a = Len(cs)
    OBVIOUS
  <2>3. a \in Nat /\ (Tail(cs) = <<>> => a = 1)
    BY <1>5, <2>1, <2>2
  <2>4. Len(vs[p].calls) = n + a
    BY <1>3, <1>8, <2>2
  <2>5. QED BY <1>2, <2>3, <2>4
<1>11. Tail(cs) = <<>> \/ m.requirement # NoRequirement => AllSettled(us, vs)
  BY <1>4, <1>9, <1>10, OpenSettles
<1>12. Opens(us, vs, Tail(cs))
  <2>1. Len(vs[p].calls) = next + Len(Tail(cs))
    <3>1. PICK a : a = Len(cs)
      OBVIOUS
    <3>2. a \in Nat /\ Len(Tail(cs)) = a - 1 /\ Len(vs[p].calls) = n + a
      BY <1>3, <1>5, <1>8, <3>1
    <3>3. n + a = (n + 1) + (a - 1)
      BY <1>4, <3>2
    <3>4. QED BY <1>2, <3>2, <3>3
  <2>2. ASSUME NEW j \in DOMAIN Tail(cs)
        PROVE  vs[p].calls[next + j] = Tail(cs)[j]
    <3>1. j \in 1..(Len(cs) - 1) /\ j + 1 \in DOMAIN cs /\ n + (j + 1) = next + j
      <4>1. PICK a : a = Len(cs)
        OBVIOUS
      <4>2. a \in Nat /\ DOMAIN cs = 1..a /\ j \in 1..(a - 1)
        BY <1>5, <4>1
      <4>3. j + 1 \in 1..a /\ n + (j + 1) = (n + 1) + j
        BY <1>4, <4>2
      <4>4. QED BY <1>2, <4>1, <4>2, <4>3
    <3>2. Tail(cs)[j] = cs[j + 1]
      BY <1>5, <3>1
    <3>3. QED BY <1>3, <1>8, <3>1, <3>2
  <2>3. OpensAt(us, vs, p, next, Tail(cs))
    BY <1>9, <2>1, <2>2 DEF OpensAt
  <2>4. QED BY <2>3 DEF Opens
<1>13. QED BY <1>9, <1>11, <1>12

LEMMA HearPayload ==
  ASSUME LoopInv, PayloadInv, Keeps,
         NEW k \in ToolCalls, NEW q \in RequirementSet, Hears(k, q)
  PROVE  PayloadInv'
<1> SUFFICES ASSUME Trimmed(run'.messages)
             PROVE  \E vs : Normal(run'.messages, vs) /\ SentOK(vs)'
  BY DEF PayloadInv, Trimmed
<1>1. PICK ms : ms = run.messages
  OBVIOUS
<1>2. PICK us : us = run'.messages
  OBVIOUS
<1>3. PICK cs : cs = calls
  OBVIOUS
<1>4. pc = "acting" /\ k = Head(cs) /\ cs \in Seq(ToolCalls) /\ cs # <<>>
  BY <1>3 DEF LoopInv, LoopTyped, Hears
<1>5. PICK m : m = Observation(k.id, q)
  OBVIOUS
<1>6. m \in MessageType /\ m.calls = <<>> /\ m.role = "tool" /\ m.call = k.id
      /\ m.requirement = q
  BY <1>5, CallIDTyped, MessagesTyped DEF Observation, Message
<1>trimmed. Trimmed(ms) /\ TrimSpace[m.call] = m.call
  <2>1. ms \in Seq(MessageType)
    BY <1>1, StateFields DEF LoopInv, LoopTyped
  <2>2. us = Append(ms, m) /\ Trimmed(us)
    BY <1>1, <1>2, <1>5 DEF Hears
  <2>3. QED BY <1>6, <2>1, <2>2, TrimmedPrefix
<1>7. PICK out : Normal(ms, out) /\ SentOK(out)
  BY <1>1, <1>trimmed DEF PayloadInv
<1>8. us = Append(ms, m) /\ ms \in Seq(MessageType) /\ out \in Seq(MessageType) /\ From(ms, out)
  BY <1>1, <1>2, <1>5, <1>7 DEF Normal, Hears
<1>9. Announces(ms, m.call)
  <2>1. DOMAIN cs = 1..Len(cs) /\ Len(cs) \in Nat /\ Len(cs) >= 1 /\ cs[1] = k
    BY <1>4, HeadTailProperties, LenProperties, EmptySeq
  <2>2. 1 \in DOMAIN cs
    BY <2>1
  <2>3. k.id # "" /\ LatestCall(ms, k)
    BY <1>1, <1>3, <2>1, <2>2 DEF LoopInv, CallsOK
  <2>4. QED BY <1>6, <2>3, LatestIsAnnounced
<1>10. Sends(ms, out, m, us)
  <2>1. IDs(m.calls) = {}
    BY <1>6, NoIDs
  <2>2. QED BY <1>6, <1>7, <1>8, <1>9, <1>trimmed, <2>1, NormalGoesOn
<1>11. PICK vs : Normal(us, vs) /\ (SentNew(ms, out, m, vs) \/ SentAgain(out, m, vs))
  BY <1>10 DEF Sends
<1>12. vs \in Seq(MessageType)
  BY <1>11 DEF Normal
<1>13. ASSUME Distinct(us)
       PROVE  /\ InOrder(vs)
              /\ Tail(cs) = <<>> \/ m.requirement # NoRequirement => AllSettled(us, vs)
              /\ Opens(us, vs, Tail(cs))
  <2>1. Distinct(ms)
    BY <1>6, <1>8, <1>13, DistinctPrefix
  <2>2. InOrder(out) /\ Opens(ms, out, cs)
    BY <1>1, <1>3, <1>4, <1>7, <2>1 DEF SentOK
  <2>3. m.call = Head(cs).id
    BY <1>4, <1>6
  <2>4. QED BY <1>4, <1>6, <1>8, <1>11, <1>12, <1>13, <2>2, <2>3, OpensGoesOn
<1>14. CASE Proceeds(Tail(cs), Heard(k))
  <2>1. calls' = Tail(cs) /\ pc' = IF Tail(cs) = <<>> THEN "thinking" ELSE "acting"
    BY <1>14 DEF Proceeds
  <2>2. SentOK(vs)'
    BY <1>2, <1>13, <2>1 DEF SentOK
  <2>3. QED BY <1>2, <1>11, <2>2
<1>15. CASE run'.status = "failed" /\ Returns(Heard(k))
  <2>1. pc' = "between" /\ run'.status \in Terminal
    BY <1>15 DEF Returns, Terminal
  <2>2. SentOK(vs)'
    BY <1>2, <1>13, <2>1 DEF SentOK
  <2>3. QED BY <1>2, <1>11, <2>2
<1>16. CASE /\ run'.status = "suspended" /\ run'.requirement = q
            /\ q.call = k.id /\ ValidRequirement(q) /\ Returns(Heard(k))
  <2>1. pc' = "between"
    BY <1>16 DEF Returns
  <2>2. q # NoRequirement
    <3>1. q.id # ""
      BY <1>16 DEF ValidRequirement
    <3>2. PICK none : none = NoRequirement
      OBVIOUS
    <3>3. none.id = ""
      BY <3>2 DEF NoRequirement
    <3>4. QED BY <3>1, <3>2, <3>3
  <2>3. SentOK(vs)'
    BY <1>2, <1>6, <1>13, <2>1, <2>2 DEF SentOK
  <2>4. QED BY <1>2, <1>11, <2>3
<1>17. QED BY <1>3, <1>14, <1>15, <1>16 DEF Hears

LEMMA ReplayPayload ==
  ASSUME LoopInv, AnswersInv, RolesOK, PayloadInv, Keeps, NEW k \in ToolCalls, Replays(k)
  PROVE  PayloadInv'
<1> SUFFICES ASSUME Trimmed(run'.messages)
             PROVE  \E vs : Normal(run'.messages, vs) /\ SentOK(vs)'
  BY DEF PayloadInv, Trimmed
<1>1. PICK ms : ms = run.messages
  OBVIOUS
<1>2. PICK us : us = run'.messages
  OBVIOUS
<1>3. pc = "replaying" /\ k = ReplayCall /\ run.status \notin Terminal
  BY DEF Replays, LoopInv, StatusOK, Terminal
<1>4. ToReplay
  BY <1>3 DEF LoopInv, ReplayOK, ToReplay
<1>5. k = Last(approvals)
  BY <1>3, <1>4, Redeemed
<1>6. k.id = input.resolved.call /\ LatestCall(ms, k)
  BY <1>1, <1>4, <1>5 DEF LoopInv, ReplayOK
<1>7. PICK i, n : /\ Turn(ms, i, n) /\ n # 0
                  /\ BlockedAt(ms, i, n) /\ ms[i].calls[n].id = k.id
  BY <1>1, <1>4, <1>6 DEF AnswersInv, Blocks
<1>8. PICK m : m = Observation(k.id, NoRequirement)
  OBVIOUS
<1>9. m \in MessageType /\ m.calls = <<>> /\ m.role = "tool" /\ m.call = k.id
  BY <1>8, CallIDTyped, MessagesTyped, NothingRequired DEF Observation, Message
<1>trimmed. Trimmed(ms) /\ TrimSpace[m.call] = m.call
  <2>1. ms \in Seq(MessageType)
    BY <1>1, StateFields DEF LoopInv, LoopTyped
  <2>2. us = Append(ms, m) /\ Trimmed(us)
    BY <1>1, <1>2, <1>8 DEF Replays
  <2>3. QED BY <1>9, <2>1, <2>2, TrimmedPrefix
<1>10. PICK out : Normal(ms, out) /\ SentOK(out)
  BY <1>1, <1>trimmed DEF PayloadInv
<1>11. us = Append(ms, m) /\ ms \in Seq(MessageType) /\ out \in Seq(MessageType) /\ From(ms, out)
  BY <1>1, <1>2, <1>8, <1>10 DEF Normal, Replays
<1>12. Announces(ms, m.call)
  <2>1. k.id # ""
    <3>1. PICK r : r = input.resolved
      OBVIOUS
    <3>2. ValidRequirement(r) /\ r.origin = "tool"
      BY <1>4, <3>1 DEF LoopInv, ReplayOK, ToReplay, ReplayRequested
    <3>3. r.call # ""
      BY <3>2 DEF ValidRequirement
    <3>4. QED BY <1>6, <3>1, <3>3
  <2>2. QED BY <1>6, <1>9, <2>1, LatestIsAnnounced
<1>13. Sends(ms, out, m, us)
  <2>1. IDs(m.calls) = {}
    BY <1>9, NoIDs
  <2>2. QED BY <1>9, <1>10, <1>11, <1>12, <1>trimmed, <2>1, NormalGoesOn
<1>14. PICK vs : Normal(us, vs) /\ (SentNew(ms, out, m, vs) \/ SentAgain(out, m, vs))
  BY <1>13 DEF Sends
<1>15. SentAgain(out, m, vs)
  <2>1. PICK j \in AnswersTo(ms, i) : Nth(ms, i, j) = n
    BY <1>7 DEF BlockedAt
  <2>2. n \in Nat /\ n <= n /\ AnswersFirst(ms, i, n)
    BY <1>7 DEF Turn
  <2>3. ms[j].call = ms[i].calls[n].id
    BY <2>1, <2>2 DEF AnswersFirst
  <2>4. j \in DOMAIN ms /\ ms[j].role = "tool"
    BY <2>1 DEF AnswersTo
  <2>5. QED BY <1>7, <1>9, <1>14, <2>3, <2>4 DEF SentNew
<1>16. OnlyAssistants(out)
  BY <1>1, <1>11 DEF RolesOK, OnlyAssistants, From
<1>17. ASSUME Distinct(us) PROVE InOrder(vs) /\ AllSettled(us, vs)
  <2>1. Distinct(ms)
    BY <1>9, <1>11, <1>17, DistinctPrefix
  <2>2. InOrder(out) /\ AllSettled(ms, out)
    BY <1>1, <1>3, <1>10, <2>1 DEF SentOK
  <2>3. QED BY <1>9, <1>11, <1>15, <1>16, <2>2, AgainSent
<1>18. pc' = "thinking"
  BY DEF Replays, Proceeds
<1>19. SentOK(vs)'
  BY <1>2, <1>17, <1>18 DEF SentOK
<1>20. QED BY <1>2, <1>14, <1>19

LEMMA InitPayload == ASSUME Init PROVE PayloadInv
<1>1. run.messages = <<UserMessage>> /\ pc = "between"
  BY DEF Init
<1>2. PICK m : m = UserMessage
  OBVIOUS
<1>3. m \in MessageType /\ m.calls = <<>> /\ m.role = "user"
  BY <1>2, MessagesTyped DEF UserMessage, Message
<1>4. PICK none : none = <<>>
  OBVIOUS
<1>5. none \in Seq(MessageType) /\ DOMAIN none = {}
  BY <1>4
<1>6. PICK us : us = run.messages
  OBVIOUS
<1>7. us = Append(none, m)
  BY <1>1, <1>2, <1>4, <1>6
<1>8. Normal(none, none)
  <2>1. Normalized(none) = Payload(none, {}, none)
    <3>1. Normalized(none) = Nothing
      <4> HIDE DEF MessageType
      <4>1. QED BY <1>3, <1>4, <1>5, NormalizedAppend
    <3>2. QED BY <1>4, <3>1 DEF Nothing, Payload
  <2>2. From(none, none) /\ Announced(none, {}) /\ Placed(none, none, none)
    BY <1>5 DEF From, Announced, Placed
  <2>3. QED BY <1>5, <2>1, <2>2 DEF Normal
<1>9. IDs(m.calls) = {}
  BY <1>3, NoIDs
<1>10. Sends(none, none, m, us)
  BY <1>3, <1>7, <1>8, <1>9, NormalGoesOn
<1>11. PICK vs : Normal(us, vs) /\ (SentNew(none, none, m, vs) \/ SentAgain(none, m, vs))
  BY <1>10 DEF Sends
<1>12. SentNew(none, none, m, vs)
  BY <1>3, <1>11 DEF SentAgain, SentAt
<1>13. InOrder(none) /\ AllSettled(none, none) /\ From(none, none)
  BY <1>5 DEF InOrder, Distinct, ToolsPlaced, AllSettled, From
<1>14. Distinct(us) => InOrder(vs) /\ AllSettled(us, vs)
  BY <1>3, <1>5, <1>7, <1>12, <1>13, SpokenSent
<1>15. SentOK(vs)
  BY <1>1, <1>6, <1>14 DEF SentOK
<1>16. QED BY <1>6, <1>11, <1>15 DEF PayloadInv

LEMMA PayloadNext ==
  ASSUME LoopInv, RolesOK, AnswersInv, PayloadInv, [Next]_vars
  PROVE  PayloadInv'
<1>1. CASE LoopStep
  <2>1. Shape /\ Keeps
    BY <1>1, LoopShape DEF Shape
  <2>2. QED BY <2>1, EnterPayload, SpeakPayload, HearPayload, ReplayPayload, StopPayload
       DEF Shape
<1>2. CASE Carry \/ Resume
  BY <1>2, HandOverPayload
<1>3. CASE EndContext
  <2>1. UNCHANGED <<run, pc, calls>>
    BY <1>3 DEF EndContext
  <2>2. QED BY <2>1 DEF PayloadInv, Trimmed, SentOK
<1>4. CASE Quiet \/ UNCHANGED vars
  <2>1. UNCHANGED <<run, pc, calls>>
    BY <1>4 DEF Quiet, vars
  <2>2. QED BY <2>1 DEF PayloadInv, Trimmed, SentOK
<1>5. QED BY <1>1, <1>2, <1>3, <1>4 DEF Next

\* What is sent of a call is its latest observation, once.
LEMMA SentOnce ==
  ASSUME NEW ms, NEW out, Normal(ms, out), NEW k, Observations(ms, k) # {}
  PROVE  \E j \in DOMAIN out : /\ Observations(out, k) = {j}
                               /\ out[j] = ms[Max(Observations(ms, k))]
<1>1. PICK announced, place : Placed(ms, out, place)
  BY DEF Normal
<1>2. k \in DOMAIN place
  BY <1>1 DEF Placed, Observations
<1>3. PICK j : j = place[k]
  OBVIOUS
<1>4. j \in DOMAIN out /\ \E i \in DOMAIN ms : LatestAnswer(ms, k, i) /\ ms[i] = out[j]
  BY <1>1, <1>2, <1>3 DEF Placed, PlacedAt
<1>5. PICK i \in DOMAIN ms : LatestAnswer(ms, k, i) /\ ms[i] = out[j]
  BY <1>4
<1>6. Max(Observations(ms, k)) = i
  <2>1. DOMAIN ms = 1..Len(ms) /\ Len(ms) \in Nat
    <3>1. ms \in Seq(MessageType)
      BY DEF Normal
    <3>2. QED BY <3>1, LenProperties
  <2>2. PICK S : S = Observations(ms, k)
    OBVIOUS
  <2>3. S \in SUBSET Int /\ i \in S
    BY <1>5, <2>1, <2>2 DEF Observations, LatestAnswer
  <2>4. \A h \in S : i >= h
    <3>1. \A h \in S : h <= i /\ h \in Int /\ i \in Int
      BY <1>5, <2>1, <2>2 DEF Observations, LatestAnswer
    <3>2. QED BY <3>1
  <2>5. QED BY <2>2, <2>3, <2>4, MaxIs
<1>7. Observations(out, k) = {j}
  <2>1. j \in Observations(out, k)
    BY <1>4, <1>5 DEF Observations, LatestAnswer
  <2>2. ASSUME NEW h \in Observations(out, k) PROVE h = j
    BY <1>1, <1>3 DEF Observations, Placed
  <2>3. QED BY <2>1, <2>2
<1>8. QED BY <1>4, <1>5, <1>6, <1>7

\* From the invariant, the property.
LEMMA PayloadOK == ASSUME LoopInv, PayloadInv PROVE PayloadAnswersCalls
<1> SUFFICES ASSUME pc = "thinking", Trimmed(run.messages) PROVE PayloadAnswersCalls
  BY DEF PayloadAnswersCalls
<1>1. PICK ms : ms = run.messages
  OBVIOUS
<1>2. PICK out : Normal(ms, out) /\ SentOK(out)
  BY <1>1 DEF PayloadInv
<1>3. PICK announced, place : Normalized(ms) = Payload(out, announced, place)
  BY <1>2 DEF Normal
<1>4. Normalized(ms).out = out /\ Normalized(ms).ok = TRUE
  BY <1>3 DEF Payload
<1>5. Sendable(ms)
  <2>1. out \in Seq(MessageType)
    BY <1>2 DEF Normal
  <2>2. ASSUME NEW i \in DOMAIN out PROVE out[i].role \in ProviderRoles
    <3>1. PICK x \in MessageType : x = out[i]
      <4> HIDE DEF MessageType
      <4>1. QED BY <2>1, ElementOfSeq, LenProperties
    <3>2. QED BY <3>1 DEF MessageType, ProviderRoles
  <2>3. QED BY <1>4, <2>2 DEF Sendable
<1>6. ASSUME NEW k, Observations(ms, k) # {}
      PROVE  \E j \in DOMAIN out : /\ Observations(out, k) = {j}
                                   /\ out[j] = ms[Max(Observations(ms, k))]
  BY <1>2, <1>6, SentOnce
<1>7. ASSUME Distinct(ms), NEW i \in DOMAIN out, NEW j \in DOMAIN out[i].calls
      PROVE  \/ AnswerAt(out, i, j)
             \/ \E h \in 1..(j - 1) : BlockedIn(ms, out[i].calls[h].id)
  <2>1. run.status \notin Terminal /\ pc # "acting"
    BY DEF LoopInv, StatusOK, Terminal
  <2>2. AllSettled(ms, out)
    BY <1>1, <1>2, <1>7, <2>1 DEF SentOK
  <2>3. QED BY <1>7, <2>2 DEF AllSettled, SettledAt, BlockedBefore
<1>8. DistinctIDs => Distinct(ms)
  BY <1>1 DEF DistinctIDs, Distinct
<1>9. QED BY <1>1, <1>4, <1>5, <1>6, <1>7, <1>8 DEF PayloadAnswersCalls

\* Whenever the model is asked, unless an observation has blanks around its call's id,
\* the normalization accepts the transcript and keeps the latest observation of each
\* call, once; and while call ids are not reused, the answers
\* to an assistant's calls come at once behind it, in their order, up to a blocked call.
THEOREM PayloadsAnswerCalls == Spec => []PayloadAnswersCalls
<1>1. Init => LoopInv /\ ContractInv /\ AnswersInv /\ PayloadInv
  BY InitInv, ContractInvInit, InitAnswers, InitPayload
<1>2. LoopInv /\ ContractInv /\ AnswersInv /\ PayloadInv /\ [Next]_vars
      => (LoopInv /\ ContractInv /\ AnswersInv /\ PayloadInv)'
  <2>1. ContractInv => RolesOK
    BY DEF ContractInv
  <2>2. QED BY <2>1, NextInv, ContractInvNext, AnswersNext, PayloadNext
<1>3. LoopInv /\ PayloadInv => PayloadAnswersCalls
  BY PayloadOK
<1>4. QED BY <1>1, <1>2, <1>3, PTL DEF Spec
=============================================================================
