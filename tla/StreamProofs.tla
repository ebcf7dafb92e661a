---------------------------- MODULE StreamProofs ----------------------------
(***************************************************************************)
(* Proofs about the event stream: what the broker keeps, what it tells of  *)
(* the event log, and what the loops of a client show of it (StreamBroker, *)
(* EventReaders).  The invariant is StreamInv.                             *)
(***************************************************************************)
EXTENDS EventReaders, SequenceTheorems, TLAPS

-----------------------------------------------------------------------------
(***************************************************************************)
(* Sequences of events.                                                    *)
(***************************************************************************)

\* The elements of an extended sequence.
LEMMA ToSetAppend ==
  ASSUME NEW S, NEW s \in Seq(S), NEW x \in S
  PROVE  ToSet(Append(s, x)) = ToSet(s) \cup {x}
<1>1. /\ DOMAIN s = 1..Len(s) /\ DOMAIN Append(s, x) = 1..(Len(s) + 1) /\ Len(s) \in Nat
      /\ \A i \in 1..Len(s) : Append(s, x)[i] = s[i]
      /\ Append(s, x)[Len(s) + 1] = x
  OBVIOUS
<1>2. ASSUME NEW y \in ToSet(Append(s, x)) PROVE y \in ToSet(s) \cup {x}
  BY <1>1, <1>2 DEF ToSet
<1>3. ASSUME NEW y \in ToSet(s) PROVE y \in ToSet(Append(s, x))
  BY <1>1, <1>3 DEF ToSet
<1>4. x \in ToSet(Append(s, x))
  BY <1>1 DEF ToSet
<1>5. QED BY <1>2, <1>3, <1>4

\* What is in a sequence has its type.
LEMMA ToSetTyped ==
  ASSUME NEW S, NEW s \in Seq(S), NEW x \in ToSet(s)
  PROVE  x \in S
BY DEF ToSet

\* What was in order stays in order, and what is in a sequence comes before what is
\* appended to it; nothing else comes to be in order.
LEMMA InOrderAppend ==
  ASSUME NEW S, NEW s \in Seq(S), NEW x \in S, NEW d, NEW e
  PROVE  /\ InOrder(s, d, e) => InOrder(Append(s, x), d, e)
         /\ d \in ToSet(s) => InOrder(Append(s, x), d, x)
         /\ InOrder(Append(s, x), d, e) => InOrder(s, d, e) \/ (d \in ToSet(s) /\ e = x)
<1>1. /\ DOMAIN s = 1..Len(s) /\ DOMAIN Append(s, x) = 1..(Len(s) + 1) /\ Len(s) \in Nat
      /\ \A i \in 1..Len(s) : Append(s, x)[i] = s[i]
      /\ Append(s, x)[Len(s) + 1] = x
  OBVIOUS
<1>2. InOrder(s, d, e) => InOrder(Append(s, x), d, e)
  BY <1>1 DEF InOrder
<1>3. ASSUME d \in ToSet(s) PROVE InOrder(Append(s, x), d, x)
  <2>1. PICK i \in 1..Len(s) : s[i] = d
    BY <1>1, <1>3 DEF ToSet
  <2>2. /\ i \in DOMAIN Append(s, x) /\ Len(s) + 1 \in DOMAIN Append(s, x) /\ i < Len(s) + 1
        /\ Append(s, x)[i] = d /\ Append(s, x)[Len(s) + 1] = x
    BY <1>1, <2>1
  <2>3. QED BY <2>2 DEF InOrder
<1>4. ASSUME InOrder(Append(s, x), d, e)
      PROVE  InOrder(s, d, e) \/ (d \in ToSet(s) /\ e = x)
  <2>1. PICK i, j \in 1..(Len(s) + 1) :
          i < j /\ Append(s, x)[i] = d /\ Append(s, x)[j] = e
    BY <1>1, <1>4 DEF InOrder
  <2>2. i \in 1..Len(s) /\ s[i] = d
    BY <1>1, <2>1
  <2>3. CASE j = Len(s) + 1
    BY <1>1, <2>1, <2>2, <2>3 DEF ToSet
  <2>4. CASE j \in 1..Len(s)
    BY <1>1, <2>1, <2>2, <2>4 DEF InOrder
  <2>5. QED BY <1>1, <2>1, <2>3, <2>4
<1>5. QED BY <1>2, <1>3, <1>4

\* An event is told by its publisher and its number.
LEMMA EventsAre ==
  /\ \A e \in Events : e.by \in Publishers /\ e.n \in Nat \ {0} /\ e = [by |-> e.by, n |-> e.n]
  /\ \A p \in Publishers : \A i \in 1..Publishes[p] : [by |-> p, n |-> i] \in Events
<1>1. \A p \in Publishers : Publishes[p] \in Nat
  BY PublishersAssumption
<1>2. ASSUME NEW e \in Events
      PROVE  e.by \in Publishers /\ e.n \in Nat \ {0} /\ e = [by |-> e.by, n |-> e.n]
  <2>1. PICK p \in Publishers : e \in [by : {p}, n : 1..Publishes[p]]
    BY DEF Events
  <2>2. QED BY <1>1, <2>1
<1>3. ASSUME NEW p \in Publishers, NEW i \in 1..Publishes[p]
      PROVE  [by |-> p, n |-> i] \in Events
  <2>1. [by |-> p, n |-> i] \in [by : {p}, n : 1..Publishes[p]]
    OBVIOUS
  <2>2. QED BY <2>1 DEF Events
<1>4. QED BY <1>2, <1>3

-----------------------------------------------------------------------------
(***************************************************************************)
(* The steps of a publisher.                                               *)
(***************************************************************************)

Moves(p) == BeginStart(p) \/ BeginLocked(p) \/ Publish(p)

OthersStay(p) == \A q \in Publishers : q # p => publisher'[q] = publisher[q]

\* A command begins to publish on a run that is stored, and alone if it has the mutex.
LEMMA BeginMakes ==
  ASSUME BrokerTypeOK, NEW p \in Publishers, BeginStart(p) \/ BeginLocked(p)
  PROVE  /\ publisher[p].stage = "idle" /\ OthersStay(p)
         /\ publisher' \in [Publishers -> PublisherType]
         /\ publisher'[p].stage = "logging" /\ publisher'[p].left = publisher[p].left
         /\ saved \subseteq saved' /\ saved' \subseteq Runs /\ publisher'[p].run \in saved'
         /\ publisher'[p].locked =>
              \A q \in Publishers :
                Busy(q) /\ Run(q) = publisher'[p].run => ~publisher[q].locked
         /\ UNCHANGED <<sink, runs, streamed>>
<1>1. publisher \in [Publishers -> PublisherType] /\ saved \subseteq Runs
      /\ RunsOf[p] \subseteq Runs
  BY PublishersAssumption DEF BrokerTypeOK
<1>2. ASSUME NEW r \in RunsOf[p], NEW locked \in BOOLEAN, Begins(p, r, locked)
      PROVE  /\ publisher[p].stage = "idle" /\ OthersStay(p)
             /\ publisher' \in [Publishers -> PublisherType]
             /\ publisher'[p].stage = "logging" /\ publisher'[p].left = publisher[p].left
             /\ publisher'[p].run = r /\ publisher'[p].locked = locked
             /\ UNCHANGED <<sink, runs, streamed>>
  <2>1. publisher' = [publisher EXCEPT ![p] =
                        [publisher[p] EXCEPT !.stage = "logging", !.run = r, !.locked = locked]]
    BY <1>1, <1>2 DEF Begins, PublisherType
  <2>2. [publisher[p] EXCEPT !.stage = "logging", !.run = r, !.locked = locked] \in PublisherType
    BY <1>1, <1>2 DEF PublisherType
  <2>3. QED BY <1>1, <1>2, <2>1, <2>2 DEF Begins, OthersStay, PublisherType
<1>3. CASE BeginStart(p)
  <2>1. PICK r \in RunsOf[p] \ saved : Begins(p, r, FALSE) /\ saved' = saved \cup {r}
    BY <1>3 DEF BeginStart
  <2>2. QED BY <1>1, <1>2, <2>1
<1>4. CASE BeginLocked(p)
  <2>1. PICK r \in RunsOf[p] \cap saved :
          /\ \A q \in Publishers : Busy(q) /\ Run(q) = r => ~publisher[q].locked
          /\ Begins(p, r, TRUE)
          /\ UNCHANGED saved
    BY <1>4 DEF BeginLocked
  <2>2. QED BY <1>1, <1>2, <2>1
<1>5. QED BY <1>3, <1>4

\* A command that dealt with an event has one less to publish.
LEMMA PassedMakes ==
  ASSUME BrokerTypeOK, PublishersOK, NEW p \in Publishers, Busy(p), Passed(p)
  PROVE  /\ OthersStay(p) /\ publisher' \in [Publishers -> PublisherType]
         /\ publisher'[p].run = publisher[p].run /\ publisher'[p].locked = publisher[p].locked
         /\ publisher'[p].left = publisher[p].left - 1 /\ publisher[p].left \in Nat \ {0}
         /\ publisher'[p].stage = IF publisher[p].left = 1 THEN "done" ELSE "logging"
<1>1. publisher \in [Publishers -> PublisherType]
  BY DEF BrokerTypeOK
<1>2. publisher[p].left \in Nat \ {0}
  BY <1>1 DEF PublishersOK, Busy, PublisherType
<1> DEFINE left == publisher[p].left - 1
           next == [publisher[p] EXCEPT !.left = left,
                                        !.stage = IF left = 0 THEN "done" ELSE "logging"]
<1>3. publisher' = [publisher EXCEPT ![p] = next]
  BY <1>1 DEF Passed, PublisherType
<1>4. left \in Nat /\ (left = 0 <=> publisher[p].left = 1)
  BY <1>2
<1>5. /\ next \in PublisherType /\ next.left = left
      /\ next.run = publisher[p].run /\ next.locked = publisher[p].locked
      /\ next.stage = IF publisher[p].left = 1 THEN "done" ELSE "logging"
  <2> HIDE DEF left
  <2>1. QED BY <1>1, <1>4 DEF PublisherType
<1> HIDE DEF next
<1>6. OthersStay(p) /\ publisher' \in [Publishers -> PublisherType] /\ publisher'[p] = next
  BY <1>1, <1>3, <1>5 DEF OthersStay
<1>7. QED BY <1>2, <1>5, <1>6

\* The event log accepts the next event of a command.
LEMMA LogMakes ==
  ASSUME BrokerTypeOK, PublishersOK, NEW p \in Publishers, Log(p)
  PROVE  /\ OthersStay(p) /\ publisher' \in [Publishers -> PublisherType]
         /\ publisher[p].stage = "logging" /\ publisher'[p].stage = "streaming"
         /\ publisher'[p].run = publisher[p].run /\ publisher'[p].locked = publisher[p].locked
         /\ publisher'[p].left = publisher[p].left
         /\ NextEvent(p) \in Events /\ Run(p) \in Runs /\ NextEvent(p)' = NextEvent(p)
         /\ sink'[Run(p)] = Append(sink[Run(p)], NextEvent(p))
         /\ \A r \in Runs : r # Run(p) => sink'[r] = sink[r]
         /\ sink' \in [Runs -> Seq(Events)]
         /\ UNCHANGED <<saved, runs, streamed>>
<1>1. /\ publisher \in [Publishers -> PublisherType] /\ sink \in [Runs -> Seq(Events)]
      /\ publisher[p].stage = "logging"
  BY DEF BrokerTypeOK, Log
<1>2. Run(p) \in Runs /\ NextEvent(p) \in Events
  <2>1. publisher[p].left \in 1..Publishes[p] /\ Publishes[p] \in Nat
    BY <1>1, PublishersAssumption DEF PublishersOK, PublisherType
  <2>2. QED BY <1>1, <2>1, EventsAre DEF NextEvent, Run, PublisherType
<1>3. publisher' = [publisher EXCEPT ![p] = [publisher[p] EXCEPT !.stage = "streaming"]]
  BY <1>1 DEF Log, PublisherType
<1>4. [publisher[p] EXCEPT !.stage = "streaming"] \in PublisherType
  BY <1>1 DEF PublisherType
<1>5. /\ OthersStay(p) /\ publisher' \in [Publishers -> PublisherType]
      /\ publisher'[p].stage = "streaming" /\ publisher'[p].run = publisher[p].run
      /\ publisher'[p].locked = publisher[p].locked /\ publisher'[p].left = publisher[p].left
  BY <1>1, <1>3, <1>4 DEF OthersStay, PublisherType
<1>6. NextEvent(p)' = NextEvent(p)
  BY <1>5 DEF NextEvent
<1>7. sink' = [sink EXCEPT ![Run(p)] = Append(sink[Run(p)], NextEvent(p))]
  BY <1>1, <1>2 DEF Log
<1>8. Append(sink[Run(p)], NextEvent(p)) \in Seq(Events)
  BY <1>1, <1>2
<1>9. QED BY <1>1, <1>2, <1>5, <1>6, <1>7, <1>8 DEF Log

\* Then the broker does.
LEMMA StreamMakes ==
  ASSUME BrokerTypeOK, PublishersOK, NEW p \in Publishers, Stream(p)
  PROVE  /\ publisher[p].stage = "streaming" /\ Passed(p) /\ Busy(p)
         /\ NextEvent(p) \in Events /\ Run(p) \in Runs
         /\ streamed'[Run(p)] = Append(streamed[Run(p)], NextEvent(p))
         /\ runs'[Run(p)] = Appended(runs[Run(p)], NextEvent(p))
         /\ \A r \in Runs : r # Run(p) => streamed'[r] = streamed[r] /\ runs'[r] = runs[r]
         /\ streamed' \in [Runs -> Seq(Events)]
         /\ UNCHANGED <<saved, sink>>
<1>1. /\ publisher \in [Publishers -> PublisherType] /\ streamed \in [Runs -> Seq(Events)]
      /\ publisher[p].stage = "streaming" /\ DOMAIN runs = Runs
  BY DEF BrokerTypeOK, Stream
<1>2. Run(p) \in Runs /\ NextEvent(p) \in Events
  <2>1. publisher[p].left \in 1..Publishes[p] /\ Publishes[p] \in Nat
    BY <1>1, PublishersAssumption DEF PublishersOK, PublisherType
  <2>2. QED BY <1>1, <2>1, EventsAre DEF NextEvent, Run, PublisherType
<1>3. Append(streamed[Run(p)], NextEvent(p)) \in Seq(Events)
  BY <1>1, <1>2
<1>4. /\ streamed' = [streamed EXCEPT ![Run(p)] = Append(streamed[Run(p)], NextEvent(p))]
      /\ runs' = [runs EXCEPT ![Run(p)] = Appended(runs[Run(p)], NextEvent(p))]
  BY <1>1, <1>2 DEF Stream
<1>5. QED BY <1>1, <1>2, <1>3, <1>4 DEF Stream, Busy

\* Every command that moves leaves the broker's variables of their type.
LEMMA BrokerTypeStep ==
  ASSUME BrokerTypeOK, PublishersOK, NEW p \in Publishers, Moves(p),
         runs' \in [Runs -> [next : Nat, events : Seq(StreamEventType)]]
  PROVE  BrokerTypeOK'
<1>1. CASE BeginStart(p) \/ BeginLocked(p)
  BY <1>1, BeginMakes DEF BrokerTypeOK
<1>2. CASE Log(p)
  BY <1>2, LogMakes DEF BrokerTypeOK
<1>3. CASE Stream(p)
  <2>1. publisher' \in [Publishers -> PublisherType]
    BY <1>3, StreamMakes, PassedMakes
  <2>2. QED BY <1>3, <2>1, StreamMakes DEF BrokerTypeOK
<1>4. CASE Refused(p)
  <2>1. publisher' \in [Publishers -> PublisherType]
    BY <1>4, PassedMakes DEF Refused
  <2>2. QED BY <1>4, <2>1 DEF BrokerTypeOK, Refused
<1>5. QED BY <1>1, <1>2, <1>3, <1>4 DEF Moves, Publish

-----------------------------------------------------------------------------
(***************************************************************************)
(* The broker's history.                                                   *)
(***************************************************************************)

KeptOf(s) == IF Len(s) < HistoryLimit THEN Len(s) ELSE HistoryLimit

TailOf(s) ==
  [next |-> Len(s) + 1,
   events |-> [i \in 1..KeptOf(s) |->
                StreamEvent(Len(s) - KeptOf(s) + i, s[Len(s) - KeptOf(s) + i])]]

\* The tail of a sequence of events is a history.
LEMMA TailTyped ==
  ASSUME NEW s \in Seq(Events)
  PROVE  /\ TailOf(s) \in [next : Nat, events : Seq(StreamEventType)]
         /\ KeptOf(s) \in Nat /\ KeptOf(s) <= Len(s) /\ Len(s) \in Nat
         /\ Len(TailOf(s).events) = KeptOf(s)
         /\ \A i \in 1..KeptOf(s) :
              /\ TailOf(s).events[i] = StreamEvent(Len(s) - KeptOf(s) + i, s[Len(s) - KeptOf(s) + i])
              /\ Len(s) - KeptOf(s) + i \in 1..Len(s)
<1> DEFINE n == Len(s)
           k == KeptOf(s)
           es == [i \in 1..k |-> StreamEvent(n - k + i, s[n - k + i])]
<1>1. n \in Nat /\ k \in Nat /\ k <= n
  BY LimitAssumption DEF KeptOf
<1>2. ASSUME NEW i \in 1..k PROVE n - k + i \in 1..n
  <2> HIDE DEF n, k
  <2>1. QED BY <1>1
<1>3. ASSUME NEW i \in 1..k PROVE StreamEvent(n - k + i, s[n - k + i]) \in StreamEventType
  <2>1. n - k + i \in Nat
    <3> HIDE DEF n, k
    <3>1. QED BY <1>1
  <2>2. s[n - k + i] \in Events
    BY <1>2, <1>3, ElementOfSeq
  <2>3. QED BY <2>1, <2>2 DEF StreamEvent, StreamEventType
<1>4. es \in [1..k -> StreamEventType]
  BY <1>3
<1>5. es \in Seq(StreamEventType) /\ Len(es) = k
  <2> HIDE DEF es, k, n
  <2>1. QED BY <1>1, <1>4, SeqDef, LenProperties
<1>6. TailOf(s) = [next |-> n + 1, events |-> es]
  BY DEF TailOf
<1>7. n + 1 \in Nat
  BY <1>1
<1> HIDE DEF n
<1>8. QED BY <1>1, <1>2, <1>5, <1>6, <1>7 DEF n

\* Publishing an event makes the tail of what was accepted that of what is accepted now.
LEMMA AppendedTail ==
  ASSUME NEW s \in Seq(Events), NEW e \in Events
  PROVE  Appended(TailOf(s), e) = TailOf(Append(s, e))
<1> DEFINE n == Len(s)
           k == KeptOf(s)
           t == Append(s, e)
           a == Append(TailOf(s).events, StreamEvent(n + 1, e))
<1>1. /\ n \in Nat /\ k \in Nat /\ k <= n /\ TailOf(s).events \in Seq(StreamEventType)
      /\ Len(TailOf(s).events) = k /\ TailOf(s).next = n + 1
  BY TailTyped DEF TailOf
<1>2. t \in Seq(Events) /\ Len(t) = n + 1 /\ t[n + 1] = e /\ \A i \in 1..n : t[i] = s[i]
  OBVIOUS
<1>3. StreamEvent(n + 1, e) \in StreamEventType
  BY <1>1 DEF StreamEvent, StreamEventType
<1>4. /\ a \in Seq(StreamEventType) /\ Len(a) = k + 1
      /\ \A i \in 1..(k + 1) : a[i] = StreamEvent(n - k + i, t[n - k + i])
  <2>1. a \in Seq(StreamEventType) /\ Len(a) = k + 1
    BY <1>1, <1>3
  <2>2. a[k + 1] = StreamEvent(n + 1, e)
    BY <1>1, <1>3
  <2>3. n - k + (k + 1) = n + 1
    <3> HIDE DEF n, k
    <3>1. QED BY <1>1
  <2>4. ASSUME NEW i \in 1..k PROVE a[i] = StreamEvent(n - k + i, t[n - k + i])
    <3>1. a[i] = TailOf(s).events[i]
      BY <1>1, <1>3
    <3>2. /\ TailOf(s).events[i] = StreamEvent(n - k + i, s[n - k + i])
          /\ n - k + i \in 1..n
      BY TailTyped
    <3>3. QED BY <1>2, <3>1, <3>2
  <2>5. \A i \in 1..(k + 1) : i \in 1..k \/ i = k + 1
    <3> HIDE DEF k
    <3>1. QED BY <1>1
  <2>6. QED BY <1>2, <2>1, <2>2, <2>3, <2>4, <2>5
<1>5. Appended(TailOf(s), e) = [next |-> n + 2, events |-> Kept(a)]
  BY <1>1 DEF Appended
<1>6. TailOf(t) = [next |-> n + 2, events |-> [i \in 1..KeptOf(t) |->
                     StreamEvent(n + 1 - KeptOf(t) + i, t[n + 1 - KeptOf(t) + i])]]
  <2> HIDE DEF n, t
  <2>1. /\ Len(t) = n + 1 /\ Len(t) + 1 = n + 2
        /\ n \in Nat /\ Len(t) \in Nat /\ KeptOf(t) \in Nat
    BY <1>1, <1>2, TailTyped
  <2>2. TailOf(t) = [next |-> Len(t) + 1, events |-> [i \in 1..KeptOf(t) |->
                      StreamEvent(Len(t) - KeptOf(t) + i, t[Len(t) - KeptOf(t) + i])]]
    BY DEF TailOf
  <2>3. [i \in 1..KeptOf(t) |-> StreamEvent(Len(t) - KeptOf(t) + i, t[Len(t) - KeptOf(t) + i])]
          = [i \in 1..KeptOf(t) |-> StreamEvent(n + 1 - KeptOf(t) + i, t[n + 1 - KeptOf(t) + i])]
    BY <2>1
  <2>4. QED BY <2>1, <2>2, <2>3
<1>7. k = IF n < HistoryLimit THEN n ELSE HistoryLimit
  BY DEF KeptOf
<1>8. KeptOf(t) = IF n + 1 < HistoryLimit THEN n + 1 ELSE HistoryLimit
  BY <1>2 DEF KeptOf
<1> HIDE DEF n, k, t, a
<1>9. CASE n < HistoryLimit
  <2>1. k = n /\ KeptOf(t) = n + 1
    BY <1>1, <1>7, <1>8, <1>9, LimitAssumption
  <2>2. Kept(a) = a
    BY <1>1, <1>4, <1>9, <2>1, LimitAssumption DEF Kept
  <2>3. a = [i \in 1..(n + 1) |-> StreamEvent(n + 1 - (n + 1) + i, t[n + 1 - (n + 1) + i])]
    <3>1. a = [i \in 1..(n + 1) |-> a[i]]
      BY <1>1, <1>4, <2>1
    <3>2. \A i \in 1..(n + 1) : n - n + i = i /\ n + 1 - (n + 1) + i = i
      BY <1>1
    <3>3. QED BY <1>4, <2>1, <3>1, <3>2
  <2>4. QED BY <1>5, <1>6, <2>1, <2>2, <2>3 DEF t
<1>10. CASE ~(n < HistoryLimit)
  <2>1. k = HistoryLimit /\ KeptOf(t) = HistoryLimit /\ HistoryLimit \in Nat /\ HistoryLimit # 0
    BY <1>1, <1>7, <1>8, <1>10, LimitAssumption
  <2>2. Kept(a) = SubSeq(a, 2, k + 1)
    BY <1>1, <1>4, <2>1 DEF Kept
  <2>3. /\ SubSeq(a, 2, k + 1) \in Seq(StreamEventType) /\ Len(SubSeq(a, 2, k + 1)) = k
        /\ \A i \in 1..k : SubSeq(a, 2, k + 1)[i] = a[i + 1]
    BY <1>1, <1>4, <2>1
  <2>4. SubSeq(a, 2, k + 1) = [i \in 1..k |-> a[i + 1]]
    BY <1>1, <2>3
  <2>5. \A i \in 1..k : i + 1 \in 1..(k + 1) /\ n - k + (i + 1) = n + 1 - k + i
    BY <1>1
  <2>6. \A i \in 1..k : a[i + 1] = StreamEvent(n + 1 - k + i, t[n + 1 - k + i])
    BY <1>4, <2>5
  <2>7. QED BY <1>5, <1>6, <2>1, <2>2, <2>4, <2>6 DEF t
<1>11. QED BY <1>9, <1>10

\* The history of a run is the tail of what was accepted of it.
LEMMA HistoryAsTail ==
  ASSUME BrokerTypeOK
  PROVE  HistoryIsTail <=> \A r \in Runs : runs[r] = TailOf(streamed[r])
<1>1. ASSUME NEW r \in Runs
      PROVE  runs[r] = TailOf(streamed[r]) <=>
               runs[r].next = TailOf(streamed[r]).next
                 /\ runs[r].events = TailOf(streamed[r]).events
  BY DEF BrokerTypeOK, TailOf
<1>2. QED BY <1>1 DEF HistoryIsTail, TailOf, KeptOf

\* Whoever publishes, the history is the tail of what the broker accepted.
LEMMA HistoryStep ==
  ASSUME BrokerTypeOK, PublishersOK, HistoryIsTail, NEW p \in Publishers, Moves(p)
  PROVE  /\ BrokerTypeOK' /\ HistoryIsTail'
         /\ \A r \in Runs : streamed'[r] = streamed[r] \/
              \E e \in Events : streamed'[r] = Append(streamed[r], e)
<1>1. \A r \in Runs : runs[r] = TailOf(streamed[r]) /\ streamed[r] \in Seq(Events)
  BY HistoryAsTail DEF BrokerTypeOK
<1>2. /\ \A r \in Runs : runs'[r] = TailOf(streamed'[r])
      /\ streamed' \in [Runs -> Seq(Events)] /\ DOMAIN runs' = Runs /\ runs' = [r \in Runs |-> runs'[r]]
      /\ \A r \in Runs : streamed'[r] = streamed[r] \/
           \E e \in Events : streamed'[r] = Append(streamed[r], e)
  <2>1. CASE Stream(p)
    <3>1. \A r \in Runs : runs'[r] = TailOf(streamed'[r])
      BY <1>1, <2>1, StreamMakes, AppendedTail
    <3>2. DOMAIN runs' = Runs /\ runs' = [r \in Runs |-> runs'[r]]
      BY <2>1 DEF Stream, BrokerTypeOK
    <3>3. QED BY <2>1, <3>1, <3>2, StreamMakes
  <2>2. CASE ~Stream(p)
    <3>1. UNCHANGED <<runs, streamed>>
      BY <2>2 DEF Moves, BeginStart, BeginLocked, Begins, Publish, Log, Refused
    <3>2. QED BY <1>1, <3>1 DEF BrokerTypeOK
  <2>3. QED BY <2>1, <2>2
<1>3. runs' \in [Runs -> [next : Nat, events : Seq(StreamEventType)]]
  BY <1>2, TailTyped
<1>4. BrokerTypeOK'
  BY <1>3, BrokerTypeStep
<1>5. HistoryIsTail'
  <2>1. ASSUME NEW r \in Runs
        PROVE  LET n == Len(streamed'[r])
                   kept == IF n < HistoryLimit THEN n ELSE HistoryLimit
               IN /\ runs'[r].next = n + 1
                  /\ runs'[r].events =
                       [i \in 1..kept |-> StreamEvent(n - kept + i, streamed'[r][n - kept + i])]
    <3>1. runs'[r] = TailOf(streamed'[r])
      BY <1>2
    <3>2. QED BY <3>1 DEF TailOf, KeptOf
  <2>2. QED BY <2>1 DEF HistoryIsTail
<1>6. QED BY <1>2, <1>4, <1>5

-----------------------------------------------------------------------------
(***************************************************************************)
(* The order of the log and of the stream.                                 *)
(***************************************************************************)

\* A publisher that does not begin keeps its run and its mutex, and works if it did.
LEMMA PublisherGoesOn ==
  ASSUME BrokerTypeOK, PublishersOK, NEW p \in Publishers, Publish(p)
  PROVE  /\ OthersStay(p) /\ Busy(p) /\ saved' = saved
         /\ publisher' \in [Publishers -> PublisherType]
         /\ publisher'[p].run = publisher[p].run /\ publisher'[p].locked = publisher[p].locked
         /\ publisher'[p].stage # "idle"
         /\ publisher'[p].left <= publisher[p].left
         /\ publisher'[p].stage \in {"logging", "streaming"} => publisher'[p].left # 0
<1>1. publisher[p].left \in Nat
  BY DEF BrokerTypeOK, PublisherType
<1>2. CASE Log(p)
  <2>1. publisher[p].left # 0
    BY <1>2, LogMakes DEF PublishersOK
  <2>2. /\ OthersStay(p) /\ publisher' \in [Publishers -> PublisherType]
        /\ publisher[p].stage = "logging" /\ publisher'[p].stage = "streaming"
        /\ publisher'[p].run = publisher[p].run /\ publisher'[p].locked = publisher[p].locked
        /\ publisher'[p].left = publisher[p].left /\ saved' = saved
    BY <1>2, LogMakes
  <2>3. Busy(p)
    BY <2>2 DEF Busy
  <2>4. publisher'[p].left <= publisher[p].left /\ publisher'[p].left # 0
    BY <1>1, <2>1, <2>2
  <2>5. QED BY <2>2, <2>3, <2>4
<1>3. CASE Stream(p) \/ Refused(p)
  <2>1. Busy(p) /\ Passed(p) /\ saved' = saved
    BY <1>3, StreamMakes DEF Refused
  <2>2. QED BY <1>1, <2>1, PassedMakes
<1>4. QED BY <1>2, <1>3 DEF Publish

\* The mutex keeps the publishers of a run apart.
LEMMA PublishersStep ==
  ASSUME BrokerTypeOK, PublishersOK, NEW p \in Publishers, Moves(p)
  PROVE  PublishersOK'
<1> DEFINE At(x) == publisher'[x].stage \in {"logging", "streaming"} /\ publisher'[x].locked
           OK(x) == /\ publisher'[x].left <= Publishes[x]
                    /\ publisher'[x].stage \in {"idle", "logging", "streaming"}
                         => publisher'[x].left # 0
                    /\ publisher'[x].stage # "idle" => publisher'[x].run \in saved'
<1>1. publisher \in [Publishers -> PublisherType] /\ Publishes[p] \in Nat
  BY PublishersAssumption DEF BrokerTypeOK
<1>2. CASE BeginStart(p) \/ BeginLocked(p)
  <2>1. \A x \in Publishers : OK(x)
    BY <1>2, BeginMakes DEF PublishersOK, OthersStay, Run
  <2>2. ASSUME NEW x \in Publishers, NEW y \in Publishers, At(x), At(y),
               publisher'[x].run = publisher'[y].run
        PROVE  x = y
    BY <1>2, <2>2, BeginMakes DEF PublishersOK, OthersStay, Run, Busy
  <2>3. QED BY <2>1, <2>2 DEF PublishersOK, Run, Busy
<1>3. CASE Publish(p)
  <2>1. \A x \in Publishers : OK(x)
    <3>1. ASSUME NEW x \in Publishers, x # p PROVE OK(x)
      BY <1>3, <3>1, PublisherGoesOn DEF PublishersOK, OthersStay, Run
    <3>2. publisher'[p].left <= Publishes[p]
      <4>1. /\ publisher'[p].left \in Nat /\ publisher[p].left \in Nat
            /\ publisher'[p].left <= publisher[p].left /\ publisher[p].left <= Publishes[p]
        BY <1>1, <1>3, PublisherGoesOn DEF PublishersOK, PublisherType
      <4>2. QED BY <1>1, <4>1
    <3>3. OK(p)
      BY <1>3, <3>2, PublisherGoesOn DEF PublishersOK, Busy, Run
    <3>4. QED BY <3>1, <3>3
  <2>2. ASSUME NEW x \in Publishers, NEW y \in Publishers, At(x), At(y),
               publisher'[x].run = publisher'[y].run
        PROVE  x = y
    <3>1. \A z \in Publishers : At(z) =>
            Busy(z) /\ publisher[z].locked /\ publisher'[z].run = Run(z)
      BY <1>3, PublisherGoesOn DEF OthersStay, Busy, Run
    <3>2. QED BY <2>2, <3>1 DEF PublishersOK
  <2>3. QED BY <2>1, <2>2 DEF PublishersOK, Run, Busy
<1>4. QED BY <1>2, <1>3 DEF Moves

\* The events of a run that were logged or streamed were published on it.
LEMMA LogStep ==
  ASSUME BrokerTypeOK, PublishersOK, LogOK, NEW p \in Publishers, Moves(p)
  PROVE  LogOK'
<1> DEFINE OK(r, e) == LET q == e.by IN
             /\ publisher'[q].stage # "idle" /\ publisher'[q].run = r
             /\ \/ e.n > publisher'[q].left
                \/ publisher'[q].stage = "streaming" /\ e = [by |-> q, n |-> publisher'[q].left]
<1>1. /\ publisher \in [Publishers -> PublisherType] /\ sink \in [Runs -> Seq(Events)]
      /\ publisher[p].left \in Nat
  BY DEF BrokerTypeOK, PublisherType
<1>2. ASSUME NEW r \in Runs, NEW e \in ToSet(sink[r]) PROVE OK(r, e)
  <2>1. /\ e.by \in Publishers /\ e.n \in Nat /\ e = [by |-> e.by, n |-> e.n]
        /\ publisher[e.by].stage # "idle" /\ Run(e.by) = r
        /\ \/ e.n > publisher[e.by].left
           \/ publisher[e.by].stage = "streaming" /\ e = NextEvent(e.by)
    BY <1>1, <1>2, EventsAre, ToSetTyped DEF LogOK
  <2>2. CASE BeginStart(p) \/ BeginLocked(p)
    BY <2>1, <2>2, BeginMakes DEF OthersStay, Run, NextEvent
  <2>3. CASE e.by # p
    <3>1. publisher'[e.by] = publisher[e.by]
      BY <2>1, <2>3, BeginMakes, PublisherGoesOn DEF OthersStay, Moves
    <3>2. QED BY <2>1, <3>1 DEF Run, NextEvent
  <2>4. CASE Log(p) /\ e.by = p
    BY <2>1, <2>4, LogMakes DEF Run, NextEvent
  <2>5. CASE (Stream(p) \/ Refused(p)) /\ e.by = p
    <3>1. /\ publisher'[p].left = publisher[p].left - 1 /\ publisher'[p].stage # "idle"
          /\ publisher'[p].run = publisher[p].run
      BY <2>5, StreamMakes, PassedMakes DEF Refused
    <3>2. e.n > publisher'[p].left
      <4>1. e.n >= publisher[p].left
        BY <1>1, <2>1, <2>5 DEF NextEvent
      <4>2. QED BY <1>1, <2>1, <3>1, <4>1
    <3>3. QED BY <2>1, <2>5, <3>1, <3>2 DEF Run
  <2>6. QED BY <2>2, <2>3, <2>4, <2>5 DEF Moves, Publish
<1>3. CASE Log(p)
  <2>1. OK(Run(p), NextEvent(p))
    <3>1. /\ NextEvent(p).by = p /\ NextEvent(p) = [by |-> p, n |-> publisher[p].left]
      BY DEF NextEvent
    <3>2. /\ publisher'[p].stage = "streaming" /\ publisher'[p].run = Run(p)
          /\ publisher'[p].left = publisher[p].left
      BY <1>3, LogMakes DEF Run
    <3>3. QED BY <3>1, <3>2
  <2>2. ASSUME NEW r \in Runs PROVE \A e \in ToSet(sink'[r]) : OK(r, e)
    <3>1. CASE r = Run(p)
      <4>1. /\ sink[r] \in Seq(Events) /\ NextEvent(p) \in Events
            /\ sink'[r] = Append(sink[r], NextEvent(p))
        BY <1>1, <1>3, <3>1, LogMakes
      <4>2. ToSet(sink'[r]) = ToSet(sink[r]) \cup {NextEvent(p)}
        BY <4>1, ToSetAppend
      <4>3. QED BY <1>2, <2>1, <3>1, <4>2
    <3>2. CASE r # Run(p)
      BY <1>2, <1>3, <2>2, <3>2, LogMakes
    <3>3. QED BY <3>1, <3>2
  <2>3. QED BY <2>2 DEF LogOK, Run, NextEvent
<1>4. CASE ~Log(p)
  <2>1. sink' = sink
    BY <1>4 DEF Moves, BeginStart, BeginLocked, Begins, Publish, Stream, Refused
  <2>2. \A r \in Runs : \A e \in ToSet(sink'[r]) : OK(r, e)
    BY <1>2, <2>1
  <2>3. QED BY <2>2 DEF LogOK, Run, NextEvent
<1>5. QED BY <1>3, <1>4

\* What was streamed is behind its publisher.
LEMMA StreamedStep ==
  ASSUME BrokerTypeOK, PublishersOK, StreamedOK, NEW p \in Publishers, Moves(p)
  PROVE  StreamedOK'
<1>1. /\ publisher \in [Publishers -> PublisherType] /\ streamed \in [Runs -> Seq(Events)]
      /\ \A q \in Publishers : publisher[q].left \in Nat
  BY DEF BrokerTypeOK, PublisherType
<1>2. \A q \in Publishers : publisher'[q].left \in Nat /\ publisher'[q].left <= publisher[q].left
  <2>1. CASE BeginStart(p) \/ BeginLocked(p)
    BY <1>1, <2>1, BeginMakes DEF OthersStay
  <2>2. CASE Publish(p)
    <3>1. publisher' \in [Publishers -> PublisherType] /\ publisher'[p].left <= publisher[p].left
      BY <2>2, PublisherGoesOn
    <3>2. \A q \in Publishers : publisher'[q].left \in Nat
      BY <3>1 DEF PublisherType
    <3>3. \A q \in Publishers : q # p => publisher'[q].left <= publisher[q].left
      BY <1>1, <2>2, PublisherGoesOn DEF OthersStay
    <3>4. QED BY <3>1, <3>2, <3>3
  <2>3. QED BY <2>1, <2>2 DEF Moves
<1>3. ASSUME NEW r \in Runs, NEW e \in ToSet(streamed[r]) PROVE e.n > publisher'[e.by].left
  <2>1. e.by \in Publishers /\ e.n \in Nat /\ e.n > publisher[e.by].left
    BY <1>1, <1>3, EventsAre, ToSetTyped DEF StreamedOK
  <2>2. QED BY <1>1, <1>2, <2>1
<1>4. ASSUME NEW r \in Runs, NEW e \in ToSet(streamed'[r]) PROVE e.n > publisher'[e.by].left
  <2>1. CASE Stream(p) /\ r = Run(p)
    <3>1. /\ streamed[r] \in Seq(Events) /\ NextEvent(p) \in Events
          /\ streamed'[r] = Append(streamed[r], NextEvent(p))
      BY <1>1, <2>1, StreamMakes
    <3>2. ToSet(streamed'[r]) = ToSet(streamed[r]) \cup {NextEvent(p)}
      BY <3>1, ToSetAppend
    <3>3. publisher'[p].left = publisher[p].left - 1
      BY <2>1, StreamMakes, PassedMakes
    <3>4. NextEvent(p).by = p /\ NextEvent(p).n = publisher[p].left
      BY DEF NextEvent
    <3>5. NextEvent(p).n > publisher'[NextEvent(p).by].left
      BY <1>1, <3>3, <3>4
    <3>6. QED BY <1>3, <1>4, <3>2, <3>5
  <2>2. CASE ~(Stream(p) /\ r = Run(p))
    <3>1. streamed'[r] = streamed[r]
      BY <2>2, StreamMakes DEF Moves, BeginStart, BeginLocked, Begins, Publish, Log, Refused
    <3>2. QED BY <1>3, <1>4, <3>1
  <2>3. QED BY <2>1, <2>2
<1>5. QED BY <1>4 DEF StreamedOK

\* The event a publisher is about to stream is in the log, behind those of the others
\* that had the mutex: they had given it back, and no one else took it since.
LEMMA StreamingStep ==
  ASSUME BrokerTypeOK, PublishersOK, LogOK, StreamingOK, NEW p \in Publishers, Moves(p)
  PROVE  StreamingOK'
<1> DEFINE Ev(q) == [by |-> q, n |-> publisher'[q].left]
           OK(q) == /\ Ev(q) \in ToSet(sink'[publisher'[q].run])
                    /\ publisher'[q].locked =>
                         \A d \in ToSet(sink'[publisher'[q].run]) :
                           publisher'[d.by].locked /\ d # Ev(q)
                             => InOrder(sink'[publisher'[q].run], d, Ev(q))
<1>1. /\ publisher \in [Publishers -> PublisherType] /\ sink \in [Runs -> Seq(Events)]
      /\ \A q \in Publishers : Run(q) \in Runs
  BY DEF BrokerTypeOK, PublisherType, Run
<1>2. \A r \in Runs : \A d \in ToSet(sink[r]) :
        d.by \in Publishers /\ publisher[d.by].stage # "idle" /\ Run(d.by) = r
  BY <1>1, EventsAre, ToSetTyped DEF LogOK
<1>3. \A r \in Runs : \A d \in ToSet(sink[r]) : publisher'[d.by].locked = publisher[d.by].locked
  BY <1>2, BeginMakes, PublisherGoesOn DEF OthersStay, Moves
<1>4. ASSUME NEW q \in Publishers, q # p, publisher'[q].stage = "streaming" PROVE OK(q)
  <2>1. /\ publisher'[q] = publisher[q] /\ publisher[q].stage = "streaming"
        /\ Ev(q) = NextEvent(q) /\ publisher'[q].run = Run(q) /\ Run(q) \in Runs
    BY <1>1, <1>4, BeginMakes, PublisherGoesOn DEF OthersStay, Moves, NextEvent, Run
  <2>2. /\ NextEvent(q) \in ToSet(sink[Run(q)])
        /\ publisher[q].locked =>
             \A d \in ToSet(sink[Run(q)]) :
               publisher[d.by].locked /\ d # NextEvent(q) => InOrder(sink[Run(q)], d, NextEvent(q))
    BY <2>1 DEF StreamingOK
  <2>3. CASE Log(p) /\ Run(p) = Run(q)
    <3>1. /\ sink[Run(q)] \in Seq(Events) /\ NextEvent(p) \in Events
          /\ sink'[Run(q)] = Append(sink[Run(q)], NextEvent(p))
      BY <1>1, <2>1, <2>3, LogMakes
    <3>2. ToSet(sink'[Run(q)]) = ToSet(sink[Run(q)]) \cup {NextEvent(p)}
      BY <3>1, ToSetAppend
    <3>3. publisher[q].locked => ~publisher'[p].locked
      BY <1>4, <2>1, <2>3, LogMakes DEF PublishersOK, Busy
    <3>4. NextEvent(p).by = p
      BY DEF NextEvent
    <3>5. \A d, e : InOrder(sink[Run(q)], d, e) => InOrder(sink'[Run(q)], d, e)
      BY <3>1, InOrderAppend
    <3>6. QED BY <1>3, <2>1, <2>2, <3>2, <3>3, <3>4, <3>5
  <2>4. CASE ~(Log(p) /\ Run(p) = Run(q))
    <3>1. sink'[Run(q)] = sink[Run(q)]
      BY <2>1, <2>4, LogMakes DEF Moves, BeginStart, BeginLocked, Begins, Publish, Stream, Refused
    <3>2. QED BY <1>3, <2>1, <2>2, <3>1
  <2>5. QED BY <2>3, <2>4
<1>5. ASSUME publisher'[p].stage = "streaming" PROVE OK(p)
  <2>1. Log(p)
    <3>1. CASE BeginStart(p) \/ BeginLocked(p)
      BY <1>5, <3>1, BeginMakes
    <3>2. CASE Stream(p) \/ Refused(p)
      BY <1>5, <3>2, StreamMakes, PassedMakes DEF Refused
    <3>3. QED BY <3>1, <3>2 DEF Moves, Publish
  <2>2. /\ Run(p) \in Runs /\ sink[Run(p)] \in Seq(Events) /\ NextEvent(p) \in Events
        /\ sink'[Run(p)] = Append(sink[Run(p)], NextEvent(p))
        /\ publisher'[p].run = Run(p) /\ publisher'[p].left = publisher[p].left
    BY <1>1, <2>1, LogMakes DEF Run
  <2>3. Ev(p) = NextEvent(p)
    BY <2>2 DEF NextEvent
  <2>4. ToSet(sink'[Run(p)]) = ToSet(sink[Run(p)]) \cup {NextEvent(p)}
    BY <2>2, ToSetAppend
  <2>5. \A d \in ToSet(sink[Run(p)]) : InOrder(sink'[Run(p)], d, NextEvent(p))
    BY <2>2, InOrderAppend
  <2>6. QED BY <2>2, <2>3, <2>4, <2>5
<1>6. QED BY <1>4, <1>5 DEF StreamingOK, NextEvent, Run

\* The stream keeps the log's order among those who had the mutex.
LEMMA FollowStep ==
  ASSUME BrokerTypeOK, PublishersOK, LogOK, StreamingOK, StreamedOK, StreamFollowsLog,
         NEW p \in Publishers, Moves(p)
  PROVE  StreamFollowsLog'
<1> DEFINE OK(r) == /\ ToSet(streamed'[r]) \subseteq ToSet(sink'[r])
                    /\ \A d, e \in ToSet(streamed'[r]) :
                         /\ publisher'[d.by].locked /\ publisher'[e.by].locked
                         /\ InOrder(streamed'[r], d, e)
                         => InOrder(sink'[r], d, e)
<1>1. /\ publisher \in [Publishers -> PublisherType]
      /\ sink \in [Runs -> Seq(Events)] /\ streamed \in [Runs -> Seq(Events)]
  BY DEF BrokerTypeOK
<1>2. \A r \in Runs : \A d \in ToSet(sink[r]) : publisher'[d.by].locked = publisher[d.by].locked
  <2>1. \A r \in Runs : \A d \in ToSet(sink[r]) :
          d.by \in Publishers /\ publisher[d.by].stage # "idle"
    BY <1>1, EventsAre, ToSetTyped DEF LogOK
  <2>2. QED BY <2>1, BeginMakes, PublisherGoesOn DEF OthersStay, Moves
<1>3. ASSUME NEW r \in Runs PROVE OK(r)
  <2>1. /\ ToSet(streamed[r]) \subseteq ToSet(sink[r])
        /\ \A d, e \in ToSet(streamed[r]) :
             /\ publisher[d.by].locked /\ publisher[e.by].locked /\ InOrder(streamed[r], d, e)
             => InOrder(sink[r], d, e)
    BY DEF StreamFollowsLog
  <2>2. CASE Log(p) /\ r = Run(p)
    <3>1. /\ sink[r] \in Seq(Events) /\ NextEvent(p) \in Events
          /\ sink'[r] = Append(sink[r], NextEvent(p)) /\ streamed' = streamed
      BY <1>1, <2>2, LogMakes
    <3>2. ToSet(sink'[r]) = ToSet(sink[r]) \cup {NextEvent(p)}
      BY <3>1, ToSetAppend
    <3>3. \A d, e : InOrder(sink[r], d, e) => InOrder(sink'[r], d, e)
      BY <3>1, InOrderAppend
    <3>4. QED BY <1>2, <2>1, <3>1, <3>2, <3>3
  <2>3. CASE Stream(p) /\ r = Run(p)
    <3> DEFINE x == NextEvent(p)
    <3>1. /\ streamed[r] \in Seq(Events) /\ x \in Events
          /\ streamed'[r] = Append(streamed[r], x) /\ sink' = sink
          /\ publisher[p].stage = "streaming"
      BY <1>1, <2>3, StreamMakes
    <3>2. ToSet(streamed'[r]) = ToSet(streamed[r]) \cup {x}
      BY <3>1, ToSetAppend
    <3>3. /\ x \in ToSet(sink[r])
          /\ publisher[p].locked =>
               \A d \in ToSet(sink[r]) : publisher[d.by].locked /\ d # x => InOrder(sink[r], d, x)
      BY <2>3, <3>1 DEF StreamingOK
    <3>4. x.by = p /\ x.n = publisher[p].left /\ publisher[p].left \in Nat
      BY <1>1 DEF NextEvent, PublisherType
    <3>5. x \notin ToSet(streamed[r])
      BY <3>4 DEF StreamedOK
    <3>6. \A d, e : InOrder(streamed'[r], d, e)
                      => InOrder(streamed[r], d, e) \/ (d \in ToSet(streamed[r]) /\ e = x)
      BY <3>1, InOrderAppend
    <3>7. \A d, e : InOrder(streamed[r], d, e) => d \in ToSet(streamed[r]) /\ e \in ToSet(streamed[r])
      BY DEF InOrder, ToSet
    <3> HIDE DEF x
    <3>8. ASSUME NEW d \in ToSet(streamed'[r]), NEW e \in ToSet(streamed'[r]),
                 publisher'[d.by].locked, publisher'[e.by].locked, InOrder(streamed'[r], d, e)
          PROVE  InOrder(sink'[r], d, e)
      <4>1. d \in ToSet(sink[r]) /\ e \in ToSet(sink[r])
        BY <2>1, <3>2, <3>3, <3>8
      <4>2. publisher[d.by].locked /\ publisher[e.by].locked
        BY <1>2, <3>8, <4>1
      <4>3. CASE InOrder(streamed[r], d, e)
        BY <2>1, <3>1, <3>7, <4>2, <4>3
      <4>4. CASE d \in ToSet(streamed[r]) /\ e = x
        BY <3>1, <3>3, <3>4, <3>5, <4>1, <4>2, <4>4
      <4>5. QED BY <3>6, <3>8, <4>3, <4>4
    <3>9. QED BY <2>1, <3>1, <3>2, <3>3, <3>8
  <2>4. CASE ~(Log(p) /\ r = Run(p)) /\ ~(Stream(p) /\ r = Run(p))
    <3>1. sink'[r] = sink[r] /\ streamed'[r] = streamed[r]
      BY <2>4, LogMakes, StreamMakes DEF Moves, BeginStart, BeginLocked, Begins, Publish, Refused
    <3>2. QED BY <1>2, <2>1, <3>1
  <2>5. QED BY <2>2, <2>3, <2>4
<1>4. QED BY <1>3 DEF StreamFollowsLog

-----------------------------------------------------------------------------
(***************************************************************************)
(* The broker's invariant.                                                 *)
(***************************************************************************)

LEMMA BrokerStep ==
  ASSUME BrokerInv, BrokerNext
  PROVE  /\ BrokerInv' /\ saved \subseteq saved'
         /\ \A r \in Runs : streamed'[r] = streamed[r] \/
              \E e \in Events : streamed'[r] = Append(streamed[r], e)
<1>1. PICK p \in Publishers : Moves(p)
  BY DEF BrokerNext, Moves
<1>2. saved \subseteq saved'
  BY <1>1, BeginMakes, PublisherGoesOn DEF BrokerInv, Moves
<1>3. QED BY <1>1, <1>2, HistoryStep, PublishersStep, LogStep, StreamingStep, StreamedStep, FollowStep
          DEF BrokerInv

LEMMA BrokerStays ==
  ASSUME BrokerInv, UNCHANGED brokerVars
  PROVE  BrokerInv'
BY DEF BrokerInv, brokerVars, BrokerTypeOK, PublishersOK, LogOK, StreamingOK, StreamedOK,
       HistoryIsTail, StreamFollowsLog, Busy, Run, NextEvent

\* At the beginning nothing was published.
LEMMA BrokerBegins ==
  ASSUME BrokerInit
  PROVE  BrokerInv
<1>1. ASSUME NEW r \in Runs
      PROVE  /\ sink[r] = <<>> /\ streamed[r] = <<>> /\ runs[r] = NewHistory
             /\ ToSet(sink[r]) = {} /\ ToSet(streamed[r]) = {}
  BY DEF BrokerInit, ToSet
<1>2. (CHOOSE r \in Runs : TRUE) \in Runs
  BY RunsAssumption
<1>3. \A p \in Publishers : Publishes[p] \in Nat \ {0}
  BY PublishersAssumption
<1>4. BrokerTypeOK
  BY <1>2, <1>3 DEF BrokerInit, BrokerTypeOK, PublisherType, NewHistory
<1>5. PublishersOK
  BY <1>3 DEF BrokerInit, PublishersOK, Busy
<1>6. LogOK /\ StreamedOK /\ StreamFollowsLog
  BY <1>1 DEF LogOK, StreamedOK, StreamFollowsLog
<1>7. StreamingOK
  BY DEF BrokerInit, StreamingOK
<1>8. HistoryIsTail
  <2>1. 0 < HistoryLimit
    BY LimitAssumption
  <2>2. QED BY <1>1, <2>1 DEF HistoryIsTail, NewHistory
<1>9. QED BY <1>4, <1>5, <1>6, <1>7, <1>8 DEF BrokerInv

-----------------------------------------------------------------------------
(***************************************************************************)
(* What the broker answers to a cursor.                                    *)
(***************************************************************************)

\* The broker's history, in terms of what was streamed.
LEMMA HistoryIs ==
  ASSUME BrokerInv, NEW r \in Runs
  PROVE  LET s == streamed[r]
             k == KeptOf(s)
         IN /\ s \in Seq(Events) /\ Len(s) \in Nat /\ k \in Nat /\ k <= Len(s)
            /\ k = IF Len(s) < HistoryLimit THEN Len(s) ELSE HistoryLimit
            /\ runs[r].next = Len(s) + 1
            /\ runs[r].events \in Seq(StreamEventType) /\ Len(runs[r].events) = k
            /\ \A i \in 1..k : /\ Len(s) - k + i \in 1..Len(s)
                               /\ runs[r].events[i] = StreamEvent(Len(s) - k + i, s[Len(s) - k + i])
<1>1. runs[r] = TailOf(streamed[r]) /\ streamed[r] \in Seq(Events)
  BY HistoryAsTail DEF BrokerInv, BrokerTypeOK
<1>2. runs[r].next = Len(streamed[r]) + 1
  BY <1>1 DEF TailOf
<1>3. QED BY <1>1, <1>2, TailTyped DEF KeptOf

\* A cursor is accepted if the event it names was streamed and the one after it, if there
\* is one, is kept.
LEMMA CursorErrorIs ==
  ASSUME BrokerInv, NEW r \in Runs, NEW c \in Nat
  PROVE  LET n == Len(streamed[r])
             k == KeptOf(streamed[r])
             error == CursorError(runs[r], c)
         IN /\ error \in {"", "invalid", "expired"}
            /\ error = "invalid" <=> c > n
            /\ error = "expired" <=> c + HistoryLimit < n
            /\ error = "" => c <= n /\ n - k <= c
<1> DEFINE s == streamed[r]
           n == Len(s)
           k == KeptOf(s)
           es == runs[r].events
           oldest == Head(es).id
           error == CursorError(runs[r], c)
<1>1. n \in Nat /\ k \in Nat /\ k <= n /\ runs[r].next = n + 1
  BY HistoryIs
<1>2. es \in Seq(StreamEventType) /\ Len(es) = k
  BY HistoryIs
<1>3. \A i \in 1..k : es[i] = StreamEvent(n - k + i, s[n - k + i])
  BY HistoryIs
<1>4. k = IF n < HistoryLimit THEN n ELSE HistoryLimit
  BY DEF KeptOf
<1> HIDE DEF s, n, k, es
<1>5. k # 0 => es # <<>> /\ oldest = n - k + 1
  <2>1. SUFFICES ASSUME k # 0 PROVE es # <<>> /\ oldest = n - k + 1
    OBVIOUS
  <2>2. 1 \in 1..k
    BY <1>1, <2>1
  <2>3. es[1].id = n - k + 1
    <3>1. es[1] = StreamEvent(n - k + 1, s[n - k + 1])
      BY <1>3, <2>2
    <3>2. QED BY <3>1 DEF StreamEvent
  <2>4. es # <<>> /\ Head(es) = es[1]
    BY <1>1, <1>2, <2>1
  <2>5. QED BY <2>3, <2>4
<1>6. k = 0 => es = <<>>
  BY <1>1, <1>2, EmptySeq
<1>7. /\ c >= n + 1 => error = "invalid"
      /\ c < n + 1 /\ es # <<>> /\ c < oldest - 1 => error = "expired"
      /\ c < n + 1 /\ ~(es # <<>> /\ c < oldest - 1) => error = ""
  <2>1. c < n + 1 => ~(c >= n + 1)
    BY <1>1
  <2>2. error = CASE c >= n + 1 -> "invalid"
                  [] c < n + 1 /\ es # <<>> /\ c < oldest - 1 -> "expired"
                  [] OTHER -> ""
    BY <1>1, Zenon DEF CursorError, es
  <2>3. QED BY <2>1, <2>2
<1> HIDE DEF oldest, error
<1>8. HistoryLimit \in Nat /\ HistoryLimit # 0
  BY LimitAssumption
<1>9. (es # <<>> /\ c < oldest - 1) <=> c + HistoryLimit < n
  <2>1. CASE k = 0
    BY <1>1, <1>4, <1>6, <1>8, <2>1
  <2>2. CASE k # 0
    <3>1. c < oldest - 1 <=> c < n - k
      BY <1>1, <1>5, <2>2
    <3>2. c < n - k <=> c + HistoryLimit < n
      BY <1>1, <1>4, <1>8
    <3>3. QED BY <1>5, <2>2, <3>1, <3>2
  <2>3. QED BY <2>1, <2>2
<1>10. CASE c > n
  <2>1. error = "invalid"
    <3>1. c >= n + 1
      BY <1>1, <1>10
    <3>2. QED BY <1>7, <3>1
  <2>2. ~(c + HistoryLimit < n)
    BY <1>1, <1>8, <1>10
  <2>3. QED BY <1>10, <2>1, <2>2 DEF error, n, s
<1>11. CASE c + HistoryLimit < n
  <2>1. c < n + 1 /\ ~(c > n) /\ ~(c >= n + 1)
    BY <1>1, <1>8, <1>11
  <2>2. error = "expired"
    BY <1>7, <1>9, <1>11, <2>1
  <2>3. QED BY <1>11, <2>1, <2>2 DEF error, n, s
<1>12. CASE ~(c > n) /\ ~(c + HistoryLimit < n)
  <2>1. c <= n /\ n - k <= c /\ c < n + 1
    BY <1>1, <1>4, <1>8, <1>12
  <2>2. error = ""
    BY <1>7, <1>9, <1>12, <2>1
  <2>3. QED BY <1>12, <2>1, <2>2 DEF error, n, k, s
<1>13. QED BY <1>10, <1>11, <1>12

\* The answer to an accepted cursor is all that was streamed behind it.
LEMMA AfterIs ==
  ASSUME BrokerInv, NEW r \in Runs, NEW c \in Nat,
         c <= Len(streamed[r]), Len(streamed[r]) - KeptOf(streamed[r]) <= c
  PROVE  LET s == streamed[r]
             a == After(runs[r], c)
         IN /\ s \in Seq(Events) /\ Len(s) \in Nat /\ c <= Len(s)
            /\ a \in Seq(StreamEventType) /\ Len(a) = Len(s) - c
            /\ \A i \in 1..(Len(s) - c) : a[i] = StreamEvent(c + i, s[c + i])
<1> DEFINE s == streamed[r]
           n == Len(s)
           k == KeptOf(s)
           es == runs[r].events
           a == After(runs[r], c)
           behind == {i \in DOMAIN es : es[i].id > c}
           m == c - (n - k) + 1
<1>1. s \in Seq(Events) /\ n \in Nat /\ k \in Nat /\ k <= n
  BY HistoryIs
<1>2. es \in Seq(StreamEventType) /\ Len(es) = k
  BY HistoryIs
<1>3. \A i \in 1..k : n - k + i \in 1..n /\ es[i] = StreamEvent(n - k + i, s[n - k + i])
  BY HistoryIs
<1>4. c <= n /\ n - k <= c
  OBVIOUS
<1>5. a = IF behind = {} THEN <<>> ELSE SubSeq(es, Min(behind), Len(es))
  BY DEF After
<1> HIDE DEF n, k, es, a, s
<1>6. DOMAIN es = 1..k
  BY <1>1, <1>2
<1>7. ASSUME NEW i \in 1..k PROVE es[i].id = n - k + i
  <2>1. es[i] = StreamEvent(n - k + i, s[n - k + i])
    BY <1>3
  <2>2. QED BY <2>1 DEF StreamEvent
<1>8. behind = {i \in 1..k : n - k + i > c}
  <2>1. behind = {i \in 1..k : es[i].id > c}
    BY <1>6
  <2>2. QED BY <1>7, <2>1
<1> HIDE DEF behind
<1>9. CASE c = n
  <2>1. \A i \in 1..k : ~(n - k + i > c)
    BY <1>1, <1>9
  <2>2. behind = {}
    BY <1>8, <2>1
  <2>3. a = <<>> /\ n - c = 0
    BY <1>1, <1>5, <1>9, <2>2
  <2>4. a \in Seq(StreamEventType) /\ Len(a) = n - c
    BY <2>3
  <2>5. 1..(n - c) = {}
    BY <2>3
  <2>6. QED BY <1>1, <1>4, <2>4, <2>5 DEF n, s, a
<1>10. CASE c # n
  <2>1. m \in 1..k /\ n - k + m = c + 1 /\ k - m + 1 = n - c
    BY <1>1, <1>4, <1>10
  <2>2. \A i \in 1..k : n - k + i > c <=> m <= i
    BY <1>1
  <2> HIDE DEF m
  <2>3. m \in behind /\ \A i \in behind : m <= i /\ i \in 1..k
    BY <1>8, <2>1, <2>2
  <2>4. Min(behind) \in behind /\ \A i \in behind : Min(behind) <= i
    BY <2>3 DEF Min
  <2>5. Min(behind) = m
    <3>1. Min(behind) \in 1..k /\ Min(behind) <= m /\ m <= Min(behind)
      BY <2>3, <2>4
    <3> DEFINE x == Min(behind)
    <3> HIDE DEF x
    <3>2. x = m
      BY <1>1, <2>1, <3>1 DEF x
    <3>3. QED BY <3>2 DEF x
  <2>6. a = SubSeq(es, m, k)
    BY <1>2, <1>5, <2>3, <2>5
  <2>7. \A i \in m..k : i \in 1..Len(es)
    BY <1>1, <1>2, <2>1
  <2>8. a \in Seq(StreamEventType) /\ Len(a) = k - m + 1
    BY <1>1, <1>2, <2>1, <2>6
  <2>9. \A i \in 1..(k - m + 1) : a[i] = es[m + i - 1] /\ m + i - 1 \in 1..k
    BY <1>1, <1>2, <2>1, <2>6
  <2>10. ASSUME NEW i \in 1..(n - c) PROVE a[i] = StreamEvent(c + i, s[c + i])
    <3>1. i \in 1..(k - m + 1) /\ n - k + (m + i - 1) = c + i
      BY <1>1, <2>1
    <3>2. a[i] = es[m + i - 1] /\ m + i - 1 \in 1..k
      BY <2>9, <3>1
    <3>3. es[m + i - 1] = StreamEvent(n - k + (m + i - 1), s[n - k + (m + i - 1)])
      BY <1>3, <3>2
    <3>4. QED BY <3>1, <3>2, <3>3
  <2>11. a \in Seq(StreamEventType) /\ Len(a) = n - c
    BY <2>1, <2>8
  <2>12. QED BY <1>1, <1>4, <2>10, <2>11 DEF n, s, a
<1>11. QED BY <1>9, <1>10

-----------------------------------------------------------------------------
(***************************************************************************)
(* The steps of a reader.                                                  *)
(***************************************************************************)

ConnType == [at : Nat, wire : Seq(StreamEventType), end : {"", "eof", "error"}]

ChatType ==
  [run : Runs \cup {NoRun}, cursor : Nat, stage : {"ready", "streaming", "quit"},
   answered : SUBSET Runs]

\* The wire holds the events of s that follow a cursor, in their order.
Follows(s, c, wire) ==
  /\ c + Len(wire) <= Len(s)
  /\ \A i \in DOMAIN wire : wire[i] = StreamEvent(c + i, s[c + i])

\* A place of a concatenation behind its first part is one of the second part.
LEMMA BehindFirst ==
  ASSUME NEW c \in Nat, NEW m \in Nat, NEW l \in Nat, NEW i \in 1..(m + l), ~(i <= m)
  PROVE  i - m \in 1..l /\ (c + m) + (i - m) = c + i
OBVIOUS

\* What follows a cursor, and what follows after that.
LEMMA ConcatFollows ==
  ASSUME NEW s \in Seq(Events), NEW c \in Nat, NEW x \in Nat,
         NEW wire \in Seq(StreamEventType), NEW a \in Seq(StreamEventType),
         Follows(s, c, wire), Follows(s, x, a), x = c + Len(wire), x + Len(a) = Len(s)
  PROVE  /\ wire \o a \in Seq(StreamEventType) /\ c + Len(wire \o a) = Len(s)
         /\ Follows(s, c, wire \o a)
         /\ a # <<>> => Last(a).id = Len(s)
         /\ a = <<>> => x = Len(s)
<1> DEFINE t == wire \o a
           m == Len(wire)
           l == Len(a)
           n == Len(s)
<1>1. m \in Nat /\ l \in Nat /\ n \in Nat /\ x = c + m /\ x + l = n
  BY LenProperties
<1>2. \A i \in 1..m : wire[i] = StreamEvent(c + i, s[c + i])
  BY LenProperties DEF Follows
<1>3. \A i \in 1..l : a[i] = StreamEvent(x + i, s[x + i])
  BY LenProperties DEF Follows
<1>4. t \in Seq(StreamEventType) /\ Len(t) = m + l
  BY ConcatProperties
<1>5. \A i \in 1..(m + l) : t[i] = IF i <= m THEN wire[i] ELSE a[i - m]
  BY ConcatProperties
<1> HIDE DEF t, m, l, n
<1>6. c + (m + l) = n /\ m + l \in Nat
  BY <1>1
<1>7. ASSUME NEW i \in 1..(m + l) PROVE t[i] = StreamEvent(c + i, s[c + i])
  <2>1. CASE i <= m
    <3>1. i \in 1..m
      BY <1>1, <2>1
    <3>2. QED BY <1>2, <1>5, <2>1, <3>1
  <2>2. CASE ~(i <= m)
    <3>1. i - m \in 1..l /\ x + (i - m) = c + i
      BY <1>1, <2>2, BehindFirst
    <3>2. t[i] = a[i - m]
      BY <1>5, <2>2
    <3>3. a[i - m] = StreamEvent(x + (i - m), s[x + (i - m)])
      BY <1>3, <3>1
    <3>4. QED BY <3>1, <3>2, <3>3
  <2>3. QED BY <2>1, <2>2
<1>8. DOMAIN t = 1..(m + l)
  BY <1>4, LenProperties
<1>9. c + Len(t) = n
  BY <1>4, <1>6
<1>10. Follows(s, c, t)
  <2>1. c + Len(t) <= Len(s)
    BY <1>1, <1>9 DEF n
  <2>2. QED BY <1>7, <1>8, <2>1 DEF Follows
<1>11. ASSUME a # <<>> PROVE Last(a).id = n
  <2>1. l # 0
    BY <1>1, <1>11, EmptySeq DEF l
  <2>2. l \in 1..l
    BY <1>1, <2>1
  <2>3. Last(a) = StreamEvent(x + l, s[x + l])
    BY <1>3, <2>2 DEF Last, l
  <2>4. QED BY <1>1, <2>3 DEF StreamEvent
<1>12. ASSUME a = <<>> PROVE x = n
  <2>1. l = 0
    BY <1>12 DEF l
  <2>2. QED BY <1>1, <2>1
<1>13. QED BY <1>4, <1>9, <1>10, <1>11, <1>12 DEF t, n

\* The handler sends all there is behind its cursor.
LEMMA SendsMakes ==
  ASSUME BrokerInv, NEW w \in Readers, target[w] \in Runs, NEW c \in ConnType, NEW b \in Nat,
         NEW x \in Nat, x = c.at, x = b + Len(c.wire), Follows(streamed[target[w]], b, c.wire),
         Len(streamed[target[w]]) - KeptOf(streamed[target[w]]) <= x
  PROVE  /\ Sends(w, c) \in ConnType /\ Sends(w, c).end = c.end
         /\ Follows(streamed[target[w]], b, Sends(w, c).wire)
         /\ Sends(w, c).at = b + Len(Sends(w, c).wire)
<1> DEFINE s == streamed[target[w]]
           n == Len(s)
           a == After(runs[target[w]], x)
           at == IF a = <<>> THEN x ELSE Last(a).id
           wire == c.wire \o a
<1>1. c.wire \in Seq(StreamEventType)
  BY DEF ConnType
<1>2. x <= n
  BY DEF Follows
<1>3. s \in Seq(Events) /\ n \in Nat /\ a \in Seq(StreamEventType) /\ Len(a) = n - x
  BY <1>2, AfterIs
<1>4. \A i \in 1..(n - x) : a[i] = StreamEvent(x + i, s[x + i])
  BY <1>2, AfterIs
<1>5. Sends(w, c) = [c EXCEPT !.wire = wire, !.at = at]
  BY DEF Sends
<1> HIDE DEF a
<1>6. Follows(s, x, a) /\ x + Len(a) = Len(s)
  <2>1. n - x \in Nat /\ x + (n - x) = n
    <3> HIDE DEF n
    <3>1. QED BY <1>2, <1>3
  <2>2. DOMAIN a = 1..(n - x)
    BY <1>3, LenProperties
  <2>3. x + Len(a) = Len(s)
    BY <1>3, <2>1
  <2>4. x + Len(a) <= Len(s)
    <3> HIDE DEF s
    <3>1. QED BY <1>3, <2>3
  <2>5. QED BY <1>4, <2>2, <2>3, <2>4 DEF Follows
<1>7. /\ wire \in Seq(StreamEventType) /\ b + Len(wire) = n /\ Follows(s, b, wire)
      /\ a # <<>> => Last(a).id = n
      /\ a = <<>> => x = n
  BY <1>1, <1>3, <1>6, ConcatFollows
<1> HIDE DEF s, n
<1>8. at = n
  BY <1>7
<1> HIDE DEF at, wire
<1>9. /\ Sends(w, c) \in ConnType /\ Sends(w, c).end = c.end
      /\ Sends(w, c).wire = wire /\ Sends(w, c).at = at
  BY <1>3, <1>5, <1>7, <1>8 DEF ConnType
<1>10. QED BY <1>7, <1>8, <1>9 DEF s

\* What StreamInv says of one reader.
ReaderOK(w) ==
  /\ pc[w] = "idle" => ctx[w] = [chat |-> FALSE, cancelled |-> FALSE]
  /\ pc[w] = "spawned" => ctx[w].chat
  /\ pc[w] \in {"idle", "spawned"} => from[w] = 0 /\ shown[w] = <<>>
  /\ cursor[w] = from[w] + Len(shown[w])
  /\ target[w] = NoRun =>
       ctx[w].chat /\ cursor[w] = 0 /\ pc[w] \in {"spawned", "opening", "ended"}
  /\ pc[w] = "open" =>
       /\ Follows(streamed[target[w]], cursor[w], conn[w].wire)
       /\ conn[w].end # "error" => conn[w].at = cursor[w] + Len(conn[w].wire)
  /\ pc[w] = "ended" =>
       /\ told[w] # "non_monotonic"
       /\ told[w] = "" => ctx[w].cancelled
       /\ told[w] = "expired" =>
            target[w] # NoRun /\ cursor[w] + HistoryLimit < Len(streamed[target[w]])
       /\ ctx[w].chat => told[w] # "invalid" /\ (told[w] = "not_found" => target[w] = NoRun)

ChatInv == ChatOK /\ OneLiveLoop /\ CursorIsShown

LEMMA ReadersAre ==
  ReadersInv <=> ReadersTypeOK /\ (\A w \in Readers : ReaderOK(w)) /\ ChatInv
BY DEF ReadersInv, ReaderOK, ChatInv, CursorsOK, WiresOK, EndsOK, Follows

LEMMA ReadersAreAgain ==
  ASSUME ReadersTypeOK', \A w \in Readers : ReaderOK(w)', ChatInv'
  PROVE  ReadersInv'
<1>1. CursorsOK'
  BY DEF CursorsOK, ReaderOK
<1>2. WiresOK'
  BY DEF WiresOK, ReaderOK, Follows
<1>3. EndsOK'
  BY DEF EndsOK, ReaderOK
<1>4. QED BY <1>1, <1>2, <1>3 DEF ReadersInv, ChatInv

\* More is stored and streamed, never less.
Grows ==
  /\ saved \subseteq saved'
  /\ \A r \in Runs : streamed'[r] = streamed[r] \/
       \E e \in Events : streamed'[r] = Append(streamed[r], e)

SameReader(v) ==
  /\ pc'[v] = pc[v] /\ target'[v] = target[v] /\ cursor'[v] = cursor[v] /\ conn'[v] = conn[v]
  /\ told'[v] = told[v] /\ from'[v] = from[v] /\ shown'[v] = shown[v]

Untouched(w) == \A v \in Readers : v # w => SameReader(v)

LEMMA FollowsOn ==
  ASSUME NEW s \in Seq(Events), NEW t, t = s \/ \E e \in Events : t = Append(s, e)
  PROVE  /\ Len(s) \in Nat /\ Len(t) \in Nat /\ Len(s) <= Len(t)
         /\ \A c \in Nat : \A wire \in Seq(StreamEventType) : Follows(s, c, wire) => Follows(t, c, wire)
<1>1. Len(s) \in Nat /\ Len(t) \in Nat /\ Len(s) <= Len(t) /\ \A i \in 1..Len(s) : t[i] = s[i]
  OBVIOUS
<1>2. ASSUME NEW c \in Nat, NEW wire \in Seq(StreamEventType), Follows(s, c, wire)
      PROVE  Follows(t, c, wire)
  <2> DEFINE m == Len(wire)
             n == Len(s)
             l == Len(t)
  <2>1. m \in Nat /\ DOMAIN wire = 1..m
    OBVIOUS
  <2>2. c + m <= n
    BY <1>2 DEF Follows
  <2>3. \A i \in 1..m : wire[i] = StreamEvent(c + i, s[c + i])
    BY <1>2, <2>1 DEF Follows
  <2>4. n \in Nat /\ l \in Nat /\ n <= l /\ \A i \in 1..n : t[i] = s[i]
    BY <1>1
  <2> HIDE DEF m, n, l
  <2>5. c + m <= l
    BY <2>1, <2>2, <2>4
  <2>6. \A i \in 1..m : c + i \in 1..n
    BY <2>1, <2>2, <2>4
  <2>7. \A i \in DOMAIN wire : wire[i] = StreamEvent(c + i, t[c + i])
    BY <2>1, <2>3, <2>4, <2>6
  <2>8. QED BY <2>5, <2>7 DEF Follows, m, l
<1>3. QED BY <1>1, <1>2

\* A reader that does not move stays as it should be.
LEMMA ReaderStays ==
  ASSUME BrokerTypeOK, ReadersTypeOK, Grows, NEW v \in Readers, ReaderOK(v), SameReader(v),
         ctx'[v].chat = ctx[v].chat, ctx[v].cancelled => ctx'[v].cancelled,
         pc[v] = "idle" => ctx'[v] = ctx[v]
  PROVE  ReaderOK(v)'
<1> DEFINE s == streamed[target[v]]
           t == streamed'[target[v]]
<1>0. CASE target[v] = NoRun
  BY <1>0 DEF ReaderOK, SameReader
<1> SUFFICES ASSUME target[v] # NoRun PROVE ReaderOK(v)'
  BY <1>0
<1>1. /\ target[v] \in Runs /\ cursor[v] \in Nat /\ conn[v].wire \in Seq(StreamEventType)
      /\ s \in Seq(Events) /\ (t = s \/ \E e \in Events : t = Append(s, e))
  BY DEF ReadersTypeOK, BrokerTypeOK, Grows
<1>2. /\ Len(s) \in Nat /\ Len(t) \in Nat /\ Len(s) <= Len(t)
      /\ Follows(s, cursor[v], conn[v].wire) => Follows(t, cursor[v], conn[v].wire)
  BY <1>1, FollowsOn
<1>3. cursor[v] + HistoryLimit < Len(s) => cursor[v] + HistoryLimit < Len(t)
  <2> DEFINE n == Len(s)
             l == Len(t)
             c == cursor[v]
  <2>1. n \in Nat /\ l \in Nat /\ n <= l /\ c \in Nat /\ HistoryLimit \in Nat
    BY <1>1, <1>2, LimitAssumption
  <2> HIDE DEF n, l, c
  <2>2. c + HistoryLimit < n => c + HistoryLimit < l
    BY <2>1
  <2>3. QED BY <2>2 DEF n, l, c
<1>4. QED BY <1>2, <1>3 DEF ReaderOK, SameReader

PCs == {"idle", "spawned", "opening", "open", "pausing", "ended"}

\* A loop goes somewhere.
LEMMA GoToMakes ==
  ASSUME ReadersTypeOK, NEW w \in Readers, NEW l \in PCs, GoTo(w, l)
  PROVE  /\ pc' \in [Readers -> PCs] /\ pc'[w] = l
         /\ \A v \in Readers : v # w => pc'[v] = pc[v]
BY DEF ReadersTypeOK, GoTo, PCs

\* The reader's connection changes.
LEMMA ConnMakes ==
  ASSUME ReadersTypeOK, NEW w \in Readers, NEW x \in ConnType, conn' = [conn EXCEPT ![w] = x]
  PROVE  /\ conn' \in [Readers -> ConnType] /\ conn'[w] = x
         /\ \A v \in Readers : v # w => conn'[v] = conn[v]
BY DEF ReadersTypeOK, ConnType

LEMMA NoConnTyped == NoConn \in ConnType
<1>1. <<>> \in Seq(StreamEventType)
  OBVIOUS
<1>2. QED BY <1>1 DEF NoConn, ConnType

\* A loop that ends for a good reason.
LEMMA EndsMakes ==
  ASSUME ReadersTypeOK, NEW w \in Readers, ReaderOK(w), NEW e \in Reasons, Ends(w, e),
         UNCHANGED <<brokerVars, target, cursor, ctx, chat, from, shown>>,
         e # "non_monotonic", e = "" => ctx[w].cancelled,
         e = "expired" =>
           target[w] # NoRun /\ cursor[w] + HistoryLimit < Len(streamed[target[w]]),
         ctx[w].chat => e # "invalid" /\ (e = "not_found" => target[w] = NoRun)
  PROVE  ReadersTypeOK' /\ Untouched(w) /\ ReaderOK(w)'
<1>1. /\ pc' \in [Readers -> PCs] /\ pc'[w] = "ended"
      /\ \A v \in Readers : v # w => pc'[v] = pc[v]
  BY GoToMakes DEF Ends, PCs
<1>2. /\ conn' \in [Readers -> ConnType] /\ conn'[w] = NoConn
      /\ \A v \in Readers : v # w => conn'[v] = conn[v]
  BY ConnMakes, NoConnTyped DEF Ends
<1>3. /\ told' \in [Readers -> Reasons] /\ told'[w] = e
      /\ \A v \in Readers : v # w => told'[v] = told[v]
  BY DEF Ends, ReadersTypeOK
<1>4. ReadersTypeOK'
  BY <1>1, <1>2, <1>3 DEF ReadersTypeOK, ConnType, PCs
<1>5. Untouched(w)
  BY <1>1, <1>2, <1>3 DEF Untouched, SameReader
<1>6. ReaderOK(w)'
  <2>1. /\ cursor'[w] = from'[w] + Len(shown'[w]) /\ target' = target /\ cursor' = cursor
        /\ ctx' = ctx /\ streamed' = streamed
        /\ target'[w] = NoRun => ctx'[w].chat /\ cursor'[w] = 0
    BY DEF ReaderOK, brokerVars
  <2>2. QED BY <1>1, <1>3, <2>1 DEF ReaderOK
<1>7. QED BY <1>4, <1>5, <1>6

\* A request that is accepted, and a tick.
LEMMA SendingMakes ==
  ASSUME BrokerInv, ReadersTypeOK, NEW w \in Readers, ReaderOK(w), target[w] \in Runs,
         NEW c \in ConnType, c.end = "", c.at = cursor[w] + Len(c.wire),
         Follows(streamed[target[w]], cursor[w], c.wire),
         CursorError(runs[target[w]], c.at) = ""
  PROVE  /\ Sends(w, c) \in ConnType /\ Sends(w, c).end = ""
         /\ Follows(streamed[target[w]], cursor[w], Sends(w, c).wire)
         /\ Sends(w, c).at = cursor[w] + Len(Sends(w, c).wire)
<1>1. target[w] \in Runs /\ cursor[w] \in Nat /\ c.at \in Nat
  BY DEF ReadersTypeOK, ConnType
<1>2. Len(streamed[target[w]]) - KeptOf(streamed[target[w]]) <= c.at
  BY <1>1, CursorErrorIs
<1>3. QED BY <1>1, <1>2, SendsMakes

LEMMA OpenMakes ==
  ASSUME BrokerInv, ReadersTypeOK, NEW w \in Readers, ReaderOK(w), Open(w)
  PROVE  ReadersTypeOK' /\ Untouched(w) /\ ReaderOK(w)'
<1> DEFINE c == [NoConn EXCEPT !.at = cursor[w]]
           x == Sends(w, c)
<1>1. cursor[w] \in Nat /\ target[w] \in Runs /\ target[w] # NoRun
  BY ReadersAssumption DEF ReadersTypeOK, Open, OpenError, BrokerInv, BrokerTypeOK
<1>2. c \in ConnType /\ c.end = "" /\ c.wire = <<>> /\ c.at = cursor[w]
  <2>1. NoConn = [at |-> 0, wire |-> <<>>, end |-> ""]
    BY DEF NoConn
  <2>2. c.end = "" /\ c.wire = <<>> /\ c.at = cursor[w]
    BY <2>1
  <2>3. c \in ConnType
    BY <1>1, NoConnTyped DEF ConnType
  <2>4. QED BY <2>2, <2>3
<1>3. Len(c.wire) = 0 /\ DOMAIN c.wire = {}
  <2>1. Len(<<>>) = 0 /\ DOMAIN <<>> = {}
    OBVIOUS
  <2>2. QED BY <1>2, <2>1
<1>4. CursorError(runs[target[w]], cursor[w]) = ""
  BY DEF Open, OpenError
<1> HIDE DEF c
<1>5. c.at = cursor[w] + Len(c.wire)
  <2>1. cursor[w] + 0 = cursor[w]
    BY <1>1
  <2>2. QED BY <1>2, <1>3, <2>1
<1>6. Follows(streamed[target[w]], cursor[w], c.wire)
  <2>1. cursor[w] <= Len(streamed[target[w]])
    BY <1>1, <1>4, CursorErrorIs
  <2>2. cursor[w] + Len(c.wire) <= Len(streamed[target[w]])
    <3>1. cursor[w] + Len(c.wire) = cursor[w]
      BY <1>2, <1>5
    <3>2. QED BY <2>1, <3>1
  <2>3. QED BY <1>3, <2>2 DEF Follows
<1>7. /\ x \in ConnType /\ x.end = "" /\ Follows(streamed[target[w]], cursor[w], x.wire)
      /\ x.at = cursor[w] + Len(x.wire)
  BY <1>1, <1>2, <1>4, <1>5, <1>6, SendingMakes
<1>8. /\ conn' = [conn EXCEPT ![w] = x] /\ GoTo(w, "open")
      /\ UNCHANGED <<brokerVars, target, cursor, told, ctx, chat, from, shown>>
  BY DEF Open, c
<1> HIDE DEF x
<1>9. /\ conn' \in [Readers -> ConnType] /\ conn'[w] = x
      /\ \A v \in Readers : v # w => conn'[v] = conn[v]
  BY <1>7, <1>8, ConnMakes
<1>10. /\ pc' \in [Readers -> PCs] /\ pc'[w] = "open"
       /\ \A v \in Readers : v # w => pc'[v] = pc[v]
  BY <1>8, GoToMakes DEF PCs
<1>11. ReadersTypeOK'
  BY <1>8, <1>9, <1>10 DEF ReadersTypeOK, ConnType, PCs
<1>12. Untouched(w)
  BY <1>8, <1>9, <1>10 DEF Untouched, SameReader
<1>13. ReaderOK(w)'
  <2>1. /\ cursor'[w] = from'[w] + Len(shown'[w]) /\ target' = target /\ cursor' = cursor
        /\ streamed' = streamed
    BY <1>8 DEF ReaderOK, brokerVars
  <2>2. QED BY <1>1, <1>7, <1>9, <1>10, <2>1 DEF ReaderOK
<1>14. QED BY <1>11, <1>12, <1>13

LEMMA OpenRefusedMakes ==
  ASSUME BrokerInv, ReadersTypeOK, ChatInv, NEW w \in Readers, ReaderOK(w), OpenRefused(w)
  PROVE  ReadersTypeOK' /\ Untouched(w) /\ ReaderOK(w)'
<1>1. UNCHANGED <<brokerVars, target, cursor, ctx, chat, from, shown>>
  BY DEF OpenRefused
<1>2. CASE Ends(w, "broken")
  BY <1>1, <1>2, EndsMakes DEF Reasons
<1>3. CASE OpenError(w) # "" /\ Ends(w, OpenError(w))
  <2> DEFINE e == OpenError(w)
             n == Len(streamed[target[w]])
  <2>2. CASE target[w] \notin saved
    <3>1. e = "not_found" /\ (ctx[w].chat => target[w] = NoRun)
      BY <2>2 DEF OpenError, ChatInv, ChatOK
    <3>2. QED BY <1>1, <1>3, <3>1, EndsMakes DEF Reasons
  <2>3. CASE target[w] \in saved
    <3>0. cursor[w] \in Nat /\ target[w] \in Runs /\ target[w] # NoRun
      BY <2>3, ReadersAssumption DEF ReadersTypeOK, BrokerInv, BrokerTypeOK
    <3>1. e = CursorError(runs[target[w]], cursor[w])
      BY <2>3 DEF OpenError
    <3>2. /\ e \in {"", "invalid", "expired"}
          /\ e = "invalid" => cursor[w] > n
          /\ e = "expired" => cursor[w] + HistoryLimit < n
      BY <3>0, <3>1, CursorErrorIs
    <3>3. ctx[w].chat => e # "invalid"
      <4>1. ctx[w].chat => cursor[w] <= n
        BY <3>0 DEF ChatInv, ChatOK
      <4>2. n \in Nat
        BY <3>0, HistoryIs
      <4> DEFINE k == cursor[w]
      <4> HIDE DEF n, k
      <4>3. k \in Nat /\ (ctx[w].chat => k <= n) /\ (e = "invalid" => k > n)
        BY <3>0, <3>2, <4>1 DEF k, n
      <4>4. ~(k <= n /\ k > n)
        BY <4>2, <4>3
      <4>5. QED BY <4>3, <4>4
    <3>4. QED BY <1>1, <1>3, <3>0, <3>2, <3>3, EndsMakes DEF Reasons
  <2>4. QED BY <2>2, <2>3
<1>4. QED BY <1>2, <1>3 DEF OpenRefused

LEMMA LeaveMakes ==
  ASSUME ReadersTypeOK, NEW w \in Readers, ReaderOK(w), Leave(w)
  PROVE  ReadersTypeOK' /\ Untouched(w) /\ ReaderOK(w)'
BY EndsMakes DEF Leave, Reasons

LEMMA PollMakes ==
  ASSUME BrokerInv, ReadersTypeOK, NEW w \in Readers, ReaderOK(w), Poll(w)
  PROVE  ReadersTypeOK' /\ Untouched(w) /\ ReaderOK(w)'
<1> DEFINE c == conn[w]
           x == IF CursorError(runs[target[w]], c.at) # "" THEN [c EXCEPT !.end = "eof"]
                                                           ELSE Sends(w, c)
<1>1. c \in ConnType /\ c.end = "" /\ pc[w] = "open"
  BY DEF Poll, ReadersTypeOK, ConnType
<1>2. /\ Follows(streamed[target[w]], cursor[w], c.wire)
      /\ c.at = cursor[w] + Len(c.wire) /\ target[w] # NoRun /\ target[w] \in Runs
  BY <1>1 DEF ReaderOK, ReadersTypeOK
<1>3. /\ x \in ConnType /\ Follows(streamed[target[w]], cursor[w], x.wire)
      /\ x.at = cursor[w] + Len(x.wire)
  <2>1. CASE CursorError(runs[target[w]], c.at) # ""
    <3>1. x = [c EXCEPT !.end = "eof"]
      BY <2>1
    <3>2. x \in ConnType /\ x.wire = c.wire /\ x.at = c.at
      <4> HIDE DEF x, c
      <4>1. QED BY <1>1, <3>1 DEF ConnType
    <3>3. QED BY <1>2, <3>2
  <2>2. CASE CursorError(runs[target[w]], c.at) = ""
    <3>1. x = Sends(w, c)
      BY <2>2
    <3>2. QED BY <1>1, <1>2, <2>2, <3>1, SendingMakes
  <2>3. QED BY <2>1, <2>2
<1>4. conn' = [conn EXCEPT ![w] = x]
  BY DEF Poll, ReadersTypeOK
<1>5. UNCHANGED <<brokerVars, pc, target, cursor, told, ctx, chat, from, shown>>
  BY DEF Poll
<1> HIDE DEF x
<1>6. /\ conn' \in [Readers -> ConnType] /\ conn'[w] = x
      /\ \A v \in Readers : v # w => conn'[v] = conn[v]
  BY <1>3, <1>4, ConnMakes
<1>7. ReadersTypeOK' /\ Untouched(w)
  BY <1>5, <1>6 DEF ReadersTypeOK, ConnType, Untouched, SameReader
<1>8. ReaderOK(w)'
  <2>1. /\ cursor'[w] = from'[w] + Len(shown'[w]) /\ target' = target /\ cursor' = cursor
        /\ streamed' = streamed /\ pc'[w] = "open"
    BY <1>1, <1>5 DEF ReaderOK, brokerVars
  <2>2. QED BY <1>2, <1>3, <1>6, <2>1 DEF ReaderOK
<1>9. QED BY <1>7, <1>8

\* Some of what follows a cursor, the first of it, and the rest.
LEMMA FollowsParts ==
  ASSUME NEW s \in Seq(Events), NEW c \in Nat, NEW wire \in Seq(StreamEventType),
         Follows(s, c, wire)
  PROVE  /\ \A n \in 0..Len(wire) : /\ SubSeq(wire, 1, n) \in Seq(StreamEventType)
                                    /\ Follows(s, c, SubSeq(wire, 1, n))
         /\ wire # <<>> =>
              /\ Head(wire) = StreamEvent(c + 1, s[c + 1]) /\ c + 1 <= Len(s) /\ s[c + 1] \in Events
              /\ Tail(wire) \in Seq(StreamEventType) /\ Follows(s, c + 1, Tail(wire))
              /\ Len(wire) = 1 + Len(Tail(wire)) /\ Len(Tail(wire)) \in Nat
<1> DEFINE m == Len(wire)
           l == Len(s)
<1>1. m \in Nat /\ DOMAIN wire = 1..m /\ l \in Nat /\ \A i \in 1..l : s[i] \in Events
  BY LenProperties, ElementOfSeq
<1>2. \A i \in 1..m : wire[i] = StreamEvent(c + i, s[c + i])
  BY <1>1 DEF Follows
<1>3. c + m <= l
  BY DEF Follows
<1>4. ASSUME NEW n \in 0..m
      PROVE  SubSeq(wire, 1, n) \in Seq(StreamEventType) /\ Follows(s, c, SubSeq(wire, 1, n))
  <2> DEFINE t == SubSeq(wire, 1, n)
  <2>1. t \in Seq(StreamEventType) /\ Len(t) = n /\ \A i \in 1..n : t[i] = wire[i]
    OBVIOUS
  <2> HIDE DEF t, m, l
  <2>2. n \in Nat /\ c + n <= l /\ \A i \in 1..n : i \in 1..m
    BY <1>1, <1>3
  <2>3. DOMAIN t = 1..n
    BY <2>1, LenProperties
  <2>4. \A i \in 1..n : t[i] = StreamEvent(c + i, s[c + i])
    BY <1>2, <2>1, <2>2
  <2>5. c + Len(t) <= Len(s)
    BY <2>1, <2>2 DEF l
  <2>6. QED BY <2>1, <2>3, <2>4, <2>5 DEF Follows, t
<1>5. ASSUME wire # <<>>
      PROVE  /\ Head(wire) = StreamEvent(c + 1, s[c + 1]) /\ c + 1 <= Len(s) /\ s[c + 1] \in Events
             /\ Tail(wire) \in Seq(StreamEventType) /\ Follows(s, c + 1, Tail(wire))
             /\ Len(wire) = 1 + Len(Tail(wire)) /\ Len(Tail(wire)) \in Nat
  <2> DEFINE t == Tail(wire)
             k == Len(t)
  <2>1. t \in Seq(StreamEventType) /\ m = 1 + k /\ k \in Nat /\ Head(wire) = wire[1]
    BY <1>5
  <2>2. \A i \in 1..k : t[i] = wire[i + 1]
    BY <1>5
  <2>3. DOMAIN t = 1..k
    BY <2>1, LenProperties
  <2> HIDE DEF t, m, l, k
  <2>4. c + 1 \in 1..l /\ 1 \in 1..m /\ c + 1 + k <= l
    BY <1>1, <1>3, <2>1
  <2>5. \A i \in 1..k : i + 1 \in 1..m /\ c + (i + 1) = c + 1 + i
    BY <1>1, <2>1
  <2>6. \A i \in 1..k : t[i] = StreamEvent(c + 1 + i, s[c + 1 + i])
    BY <1>2, <2>2, <2>5
  <2>7. Follows(s, c + 1, t)
    BY <2>3, <2>4, <2>6 DEF Follows, k, l
  <2>8. Head(wire) = StreamEvent(c + 1, s[c + 1])
    BY <1>2, <2>1, <2>4
  <2>9. c + 1 <= l
    BY <2>4
  <2>10. QED BY <1>1, <2>1, <2>4, <2>7, <2>8, <2>9 DEF t, m, l, k
<1>6. QED BY <1>4, <1>5

LEMMA BreakMakes ==
  ASSUME BrokerTypeOK, ReadersTypeOK, NEW w \in Readers, ReaderOK(w), Break(w)
  PROVE  ReadersTypeOK' /\ Untouched(w) /\ ReaderOK(w)'
<1>1. PICK n \in 0..Len(conn[w].wire) :
        conn' = [conn EXCEPT ![w].wire = SubSeq(@, 1, n), ![w].end = "error"]
  BY DEF Break
<1> DEFINE t == SubSeq(conn[w].wire, 1, n)
           x == [conn[w] EXCEPT !.wire = t, !.end = "error"]
<1>2. /\ conn[w] \in ConnType /\ streamed[target[w]] \in Seq(Events) /\ cursor[w] \in Nat
      /\ conn[w].wire \in Seq(StreamEventType) /\ pc[w] = "open" /\ target[w] # NoRun
  BY DEF ReadersTypeOK, ConnType, BrokerTypeOK, Break, ReaderOK
<1>3. t \in Seq(StreamEventType) /\ Follows(streamed[target[w]], cursor[w], t)
  BY <1>2, FollowsParts DEF ReaderOK
<1>4. conn' = [conn EXCEPT ![w] = x]
  BY <1>1 DEF ReadersTypeOK
<1>5. x \in ConnType /\ x.wire = t /\ x.end = "error"
  <2> HIDE DEF t
  <2>1. QED BY <1>2, <1>3 DEF ConnType
<1>6. UNCHANGED <<brokerVars, pc, target, cursor, told, ctx, chat, from, shown>>
  BY DEF Break
<1> HIDE DEF x, t
<1>7. /\ conn' \in [Readers -> ConnType] /\ conn'[w] = x
      /\ \A v \in Readers : v # w => conn'[v] = conn[v]
  BY <1>4, <1>5, ConnMakes
<1>8. ReadersTypeOK' /\ Untouched(w)
  BY <1>6, <1>7 DEF ReadersTypeOK, ConnType, Untouched, SameReader
<1>9. ReaderOK(w)'
  <2>1. /\ cursor'[w] = from'[w] + Len(shown'[w]) /\ target' = target /\ cursor' = cursor
        /\ streamed' = streamed /\ pc'[w] = "open"
    BY <1>2, <1>6 DEF ReaderOK, brokerVars
  <2>2. QED BY <1>2, <1>3, <1>5, <1>7, <2>1 DEF ReaderOK
<1>10. QED BY <1>8, <1>9

LEMMA EndOfStreamMakes ==
  ASSUME ReadersTypeOK, NEW w \in Readers, ReaderOK(w), EndOfStream(w)
  PROVE  ReadersTypeOK' /\ Untouched(w) /\ ReaderOK(w)'
<1>1. UNCHANGED <<brokerVars, target, cursor, ctx, chat, from, shown>>
  BY DEF EndOfStream
<1>2. CASE Ends(w, "broken")
  BY <1>1, <1>2, EndsMakes DEF Reasons
<1>3. CASE GoTo(w, "pausing") /\ conn' = [conn EXCEPT ![w] = NoConn] /\ UNCHANGED told
  <2>1. /\ pc' \in [Readers -> PCs] /\ pc'[w] = "pausing"
        /\ \A v \in Readers : v # w => pc'[v] = pc[v]
    BY <1>3, GoToMakes DEF PCs
  <2>2. /\ conn' \in [Readers -> ConnType] /\ conn'[w] = NoConn
        /\ \A v \in Readers : v # w => conn'[v] = conn[v]
    BY <1>3, ConnMakes, NoConnTyped
  <2>3. ReadersTypeOK' /\ Untouched(w)
    BY <1>1, <1>3, <2>1, <2>2 DEF ReadersTypeOK, ConnType, PCs, Untouched, SameReader
  <2>4. target[w] # NoRun
    BY DEF EndOfStream, ReaderOK
  <2>5. ReaderOK(w)'
    BY <1>1, <2>1, <2>4 DEF ReaderOK
  <2>6. QED BY <2>3, <2>5
<1>4. QED BY <1>2, <1>3 DEF EndOfStream

LEMMA ReopenMakes ==
  ASSUME ReadersTypeOK, NEW w \in Readers, ReaderOK(w), Reopen(w)
  PROVE  ReadersTypeOK' /\ Untouched(w) /\ ReaderOK(w)'
<1>1. UNCHANGED <<brokerVars, target, cursor, conn, told, ctx, chat, from, shown>>
  BY DEF Reopen
<1>2. /\ pc' \in [Readers -> PCs] /\ pc'[w] = "opening"
      /\ \A v \in Readers : v # w => pc'[v] = pc[v]
  BY GoToMakes DEF Reopen, PCs
<1>3. ReadersTypeOK' /\ Untouched(w)
  BY <1>1, <1>2 DEF ReadersTypeOK, PCs, Untouched, SameReader
<1>4. ReaderOK(w)'
  BY <1>1, <1>2 DEF ReaderOK
<1>5. QED BY <1>3, <1>4

\* The next frame is the event that follows the cursor.
LEMMA ReadMakes ==
  ASSUME BrokerTypeOK, ReadersTypeOK, NEW w \in Readers, ReaderOK(w), Read(w)
  PROVE  /\ ReadersTypeOK' /\ Untouched(w) /\ ReaderOK(w)'
         /\ cursor[w] + 1 <= Len(streamed[target[w]])
         /\ cursor' = [cursor EXCEPT ![w] = cursor[w] + 1]
         /\ shown' = [shown EXCEPT ![w] = Append(@, streamed[target[w]][cursor[w] + 1])]
         /\ streamed[target[w]][cursor[w] + 1] \in Events
         /\ chat' = AdvanceCursor(w, cursor[w] + 1)
         /\ pc[w] = "open" /\ UNCHANGED <<brokerVars, pc, told, target, ctx, from>>
<1> DEFINE s == streamed[target[w]]
           c == cursor[w]
           wire == conn[w].wire
           e == s[c + 1]
<1>1. /\ s \in Seq(Events) /\ c \in Nat /\ wire \in Seq(StreamEventType) /\ wire # <<>>
      /\ pc[w] = "open" /\ conn[w] \in ConnType /\ shown[w] \in Seq(Events)
      /\ target[w] # NoRun
  BY DEF ReadersTypeOK, BrokerTypeOK, ConnType, Read, ReaderOK
<1>2. Follows(s, c, wire) /\ (conn[w].end # "error" => conn[w].at = c + Len(wire))
  BY <1>1 DEF ReaderOK
<1> DEFINE t == Tail(wire)
           k == Len(t)
           x == [conn[w] EXCEPT !.wire = t]
<1>3. /\ Head(wire) = StreamEvent(c + 1, e) /\ c + 1 <= Len(s) /\ e \in Events
      /\ t \in Seq(StreamEventType) /\ Follows(s, c + 1, t) /\ Len(wire) = 1 + k /\ k \in Nat
  BY <1>1, <1>2, FollowsParts
<1>4. Head(wire).id = c + 1 /\ Head(wire).event = e
  BY <1>3 DEF StreamEvent
<1>5. c + 1 \in Nat /\ ~(c + 1 <= c)
  <2> HIDE DEF c
  <2>1. QED BY <1>1
<1>6. /\ cursor' = [cursor EXCEPT ![w] = c + 1] /\ chat' = AdvanceCursor(w, c + 1)
      /\ shown' = [shown EXCEPT ![w] = Append(@, e)]
      /\ conn' = [conn EXCEPT ![w].wire = Tail(@)]
      /\ UNCHANGED <<pc, told>>
  BY <1>4, <1>5 DEF Read
<1>7. UNCHANGED <<brokerVars, pc, told, target, ctx, from>>
  BY <1>6 DEF Read
<1>8. x \in ConnType /\ x.wire = t /\ x.end = conn[w].end /\ x.at = conn[w].at
  <2> HIDE DEF t
  <2>1. QED BY <1>1, <1>3 DEF ConnType
<1>9. conn' = [conn EXCEPT ![w] = x]
  BY <1>6 DEF ReadersTypeOK
<1> HIDE DEF x
<1>10. /\ conn' \in [Readers -> ConnType] /\ conn'[w] = x
       /\ \A v \in Readers : v # w => conn'[v] = conn[v]
  BY <1>8, <1>9, ConnMakes
<1>11. /\ cursor' \in [Readers -> Nat] /\ cursor'[w] = c + 1
       /\ \A v \in Readers : v # w => cursor'[v] = cursor[v]
  <2> HIDE DEF c
  <2>1. QED BY <1>5, <1>6 DEF ReadersTypeOK
<1>12. /\ shown' \in [Readers -> Seq(Events)] /\ shown'[w] = Append(shown[w], e)
       /\ \A v \in Readers : v # w => shown'[v] = shown[v]
  <2> HIDE DEF e
  <2>1. Append(shown[w], e) \in Seq(Events)
    BY <1>1, <1>3
  <2>2. QED BY <1>6, <2>1 DEF ReadersTypeOK
<1>13. chat' \in ChatType
  <2> HIDE DEF c
  <2>1. QED BY <1>5, <1>6 DEF AdvanceCursor, ReadersTypeOK, ChatType
<1>14. ReadersTypeOK'
  BY <1>7, <1>10, <1>11, <1>12, <1>13 DEF ReadersTypeOK, ConnType, ChatType
<1>15. Untouched(w)
  BY <1>7, <1>10, <1>11, <1>12 DEF Untouched, SameReader
<1>16. ReaderOK(w)'
  <2>1. c + 1 = from[w] + Len(Append(shown[w], e))
    <3>1. c = from[w] + Len(shown[w])
      BY DEF ReaderOK
    <3>2. Len(Append(shown[w], e)) = Len(shown[w]) + 1 /\ Len(shown[w]) \in Nat
      <4> HIDE DEF e
      <4>1. QED BY <1>1, <1>3
    <3>3. from[w] \in Nat
      BY DEF ReadersTypeOK
    <3> DEFINE l == Len(shown[w])
               f == from[w]
               m == Len(Append(shown[w], e))
    <3> HIDE DEF c, l, f, m
    <3>4. c = f + l /\ m = l + 1 /\ l \in Nat /\ f \in Nat
      BY <3>1, <3>2, <3>3 DEF l, f, m
    <3>5. c + 1 = f + m
      BY <3>4
    <3>6. QED BY <3>5 DEF l, f, m
  <2>2. x.end # "error" => x.at = c + 1 + Len(x.wire)
    <3>1. x.end # "error" => x.at = c + (1 + k)
      BY <1>2, <1>3, <1>8
    <3>2. c + (1 + k) = c + 1 + k
      <4> HIDE DEF c, k
      <4>1. QED BY <1>1, <1>3
    <3>3. QED BY <1>8, <3>1, <3>2
  <2>3. /\ pc'[w] = "open" /\ target' = target /\ streamed' = streamed /\ from' = from
    BY <1>1, <1>7 DEF brokerVars
  <2> HIDE DEF c, e, t, k
  <2>4. Follows(streamed'[target'[w]], cursor'[w], conn'[w].wire)
    BY <1>3, <1>8, <1>10, <1>11, <2>3
  <2>5. cursor'[w] = from'[w] + Len(shown'[w])
    BY <1>11, <1>12, <2>1, <2>3
  <2>6. QED BY <1>1, <1>10, <1>11, <2>2, <2>3, <2>4, <2>5 DEF ReaderOK
<1>17. QED BY <1>1, <1>3, <1>6, <1>7, <1>14, <1>15, <1>16

\* The loop of the chat begins behind the event the chat is at, which is none.
LEMMA ReadActiveRunMakes ==
  ASSUME ReadersTypeOK, ChatInv, NEW w \in Readers, ReaderOK(w), ReadActiveRun(w)
  PROVE  /\ ReadersTypeOK' /\ Untouched(w) /\ ReaderOK(w)'
         /\ cursor' = cursor /\ from' = from
<1>1. pc[w] = "spawned" /\ ctx[w].chat /\ from[w] = 0 /\ shown[w] = <<>>
  BY DEF ReadActiveRun, ReaderOK
<1>2. Len(shown[w]) = 0
  BY <1>1
<1>3. cursor[w] = 0
  <2>1. cursor[w] = from[w] + Len(shown[w])
    BY DEF ReaderOK
  <2>2. QED BY <1>1, <1>2, <2>1
<1>4. chat.run = target[w] => chat.cursor = 0
  <2>1. chat.run = target[w] => chat.cursor = from[w] + Len(shown[w])
    BY <1>1 DEF ChatInv, CursorIsShown
  <2>2. QED BY <1>1, <1>2, <2>1
<1>5. cursor' = [cursor EXCEPT ![w] = 0]
  BY <1>4 DEF ReadActiveRun, ReadsActive
<1>6. cursor' = cursor
  BY <1>3, <1>5 DEF ReadersTypeOK
<1>7. from' = from
  <2>1. from' = [from EXCEPT ![w] = cursor'[w]]
    BY DEF ReadActiveRun
  <2>2. cursor'[w] = 0
    BY <1>3, <1>6
  <2>3. QED BY <1>1, <2>1, <2>2 DEF ReadersTypeOK
<1>8. UNCHANGED <<brokerVars, target, conn, told, ctx, chat, shown>>
  BY DEF ReadActiveRun
<1>9. /\ pc' \in [Readers -> PCs] /\ pc'[w] = "opening"
      /\ \A v \in Readers : v # w => pc'[v] = pc[v]
  BY GoToMakes DEF ReadActiveRun, PCs
<1>10. ReadersTypeOK' /\ Untouched(w)
  BY <1>6, <1>7, <1>8, <1>9 DEF ReadersTypeOK, PCs, Untouched, SameReader
<1>11. ReaderOK(w)'
  BY <1>1, <1>3, <1>6, <1>7, <1>8, <1>9 DEF ReaderOK
<1>12. QED BY <1>6, <1>7, <1>10, <1>11

LEMMA RunEventsMakes ==
  ASSUME ReadersTypeOK, NEW w \in Readers, ReaderOK(w), RunEvents(w)
  PROVE  /\ ReadersTypeOK' /\ Untouched(w) /\ ReaderOK(w)' /\ ~ctx[w].chat
<1>1. PICK r \in Runs, n \in 0..MaxCursor :
        /\ target' = [target EXCEPT ![w] = r]
        /\ cursor' = [cursor EXCEPT ![w] = n]
        /\ from' = [from EXCEPT ![w] = n]
  BY DEF RunEvents
<1>2. n \in Nat
  BY ReadersAssumption
<1>3. pc[w] = "idle" /\ shown[w] = <<>> /\ ctx[w] = [chat |-> FALSE, cancelled |-> FALSE]
  BY DEF RunEvents, ReaderOK
<1>4. UNCHANGED <<brokerVars, conn, told, ctx, chat, shown>>
  BY DEF RunEvents
<1>5. /\ pc' \in [Readers -> PCs] /\ pc'[w] = "opening"
      /\ \A v \in Readers : v # w => pc'[v] = pc[v]
  BY GoToMakes DEF RunEvents, PCs
<1>6. ReadersTypeOK'
  BY <1>1, <1>2, <1>4, <1>5 DEF ReadersTypeOK, PCs
<1>7. Untouched(w)
  BY <1>1, <1>4, <1>5 DEF Untouched, SameReader
<1>8. ReaderOK(w)'
  <2>1. cursor'[w] = n /\ from'[w] = n /\ shown'[w] = <<>>
    BY <1>1, <1>3, <1>4 DEF ReadersTypeOK
  <2>2. cursor'[w] = from'[w] + Len(shown'[w])
    <3>1. Len(<<>>) = 0 /\ n + 0 = n
      BY <1>2
    <3>2. QED BY <2>1, <3>1
  <2>3. target'[w] # NoRun
    BY <1>1, ReadersAssumption DEF ReadersTypeOK
  <2>4. QED BY <1>5, <2>2, <2>3 DEF ReaderOK
<1>9. QED BY <1>3, <1>6, <1>7, <1>8

\* The new loop of the chat reads its active run, and all others are cancelled.
LEMMA StartStreamMakes ==
  ASSUME BrokerTypeOK, ReadersTypeOK, ChatInv, NEW w \in Readers, ReaderOK(w), StartStream(w)
  PROVE  /\ ReadersTypeOK' /\ Untouched(w) /\ ReaderOK(w)'
         /\ target'[w] = chat.run /\ ctx'[w] = [chat |-> TRUE, cancelled |-> FALSE]
         /\ ~ctx[w].chat /\ from[w] = 0 /\ shown[w] = <<>> /\ cursor[w] = 0
         /\ \A v \in Readers : v # w =>
              /\ ctx'[v].chat = ctx[v].chat
              /\ ctx'[v].cancelled = (ctx[v].cancelled \/ Live(v))
              /\ pc[v] = "idle" /\ ~ctx[v].chat => ctx'[v] = ctx[v]
         /\ chat'.stage = "ready" /\ chat'.run = chat.run /\ chat'.cursor = chat.cursor
         /\ chat.stage = "streaming" /\ chat'.answered = chat.answered
         /\ UNCHANGED <<brokerVars, cursor, conn, told, from, shown>>
<1>1. /\ UNCHANGED <<brokerVars, cursor, conn, told, from, shown>> /\ chat.stage = "streaming"
      /\ pc[w] = "idle" /\ target' = [target EXCEPT ![w] = chat.run]
      /\ chat' = [chat EXCEPT !.stage = "ready"]
  BY DEF StartStream
<1>2. /\ from[w] = 0 /\ shown[w] = <<>> /\ ctx[w] = [chat |-> FALSE, cancelled |-> FALSE]
      /\ cursor[w] = from[w] + Len(shown[w])
  BY <1>1 DEF ReaderOK
<1>3. cursor[w] = 0
  <2>1. Len(shown[w]) = 0
    BY <1>2
  <2>2. QED BY <1>2, <2>1
<1>4. chat.run \in Runs \cup {NoRun}
  BY <1>1 DEF ReadersTypeOK
<1>5. /\ target' \in [Readers -> Runs \cup {NoRun}] /\ target'[w] = chat.run
      /\ \A v \in Readers : v # w => target'[v] = target[v]
  BY <1>1, <1>4 DEF ReadersTypeOK
<1>6. /\ pc' \in [Readers -> PCs] /\ pc'[w] = "spawned"
      /\ \A v \in Readers : v # w => pc'[v] = pc[v]
  BY GoToMakes DEF StartStream, PCs
<1> DEFINE C == [chat : BOOLEAN, cancelled : BOOLEAN]
           next(v) == IF v = w THEN [chat |-> TRUE, cancelled |-> FALSE]
                      ELSE [ctx[v] EXCEPT !.cancelled = @ \/ Live(v)]
<1>7. ctx' = [v \in Readers |-> next(v)]
  BY DEF StartStream
<1>8. ASSUME NEW v \in Readers, v # w
      PROVE  /\ next(v) \in C /\ next(v).chat = ctx[v].chat
             /\ next(v).cancelled = (ctx[v].cancelled \/ Live(v))
             /\ ~ctx[v].chat => next(v) = ctx[v]
  <2>1. ctx[v] \in C /\ next(v) = [ctx[v] EXCEPT !.cancelled = @ \/ Live(v)]
    BY <1>8 DEF ReadersTypeOK
  <2>2. next(v).chat = ctx[v].chat /\ next(v).cancelled = (ctx[v].cancelled \/ Live(v))
    BY <2>1
  <2>3. (ctx[v].cancelled \/ Live(v)) \in BOOLEAN
    BY <2>1
  <2>4. next(v) \in C
    BY <2>1, <2>3
  <2>5. ~ctx[v].chat => next(v) = ctx[v]
    BY <2>1 DEF Live
  <2>6. QED BY <2>2, <2>4, <2>5
<1>9. ctx' \in [Readers -> C] /\ ctx'[w] = [chat |-> TRUE, cancelled |-> FALSE]
  <2>1. next(w) = [chat |-> TRUE, cancelled |-> FALSE] /\ next(w) \in C
    OBVIOUS
  <2> HIDE DEF next
  <2>2. QED BY <1>7, <1>8, <2>1
<1>10. \A v \in Readers : v # w =>
         /\ ctx'[v].chat = ctx[v].chat /\ ctx'[v].cancelled = (ctx[v].cancelled \/ Live(v))
         /\ ~ctx[v].chat => ctx'[v] = ctx[v]
  <2> HIDE DEF next
  <2>1. QED BY <1>7, <1>8
<1> HIDE DEF next
<1>11. /\ chat'.stage = "ready" /\ chat'.run = chat.run /\ chat'.cursor = chat.cursor
       /\ chat' \in ChatType /\ chat'.answered = chat.answered
  BY <1>1 DEF ReadersTypeOK, ChatType
<1>12. ReadersTypeOK'
  BY <1>1, <1>5, <1>6, <1>9, <1>11 DEF ReadersTypeOK, PCs, ChatType
<1>13. Untouched(w)
  BY <1>1, <1>5, <1>6 DEF Untouched, SameReader
<1>14. ReaderOK(w)'
  BY <1>1, <1>2, <1>3, <1>6, <1>9 DEF ReaderOK
<1>15. QED BY <1>1, <1>2, <1>3, <1>5, <1>9, <1>10, <1>11, <1>12, <1>13, <1>14

-----------------------------------------------------------------------------
(***************************************************************************)
(* The chat.                                                               *)
(***************************************************************************)

\* What the broker goes on to do does not disturb the chat.
LEMMA ChatStays ==
  ASSUME BrokerTypeOK, ReadersTypeOK, ChatInv, Grows,
         UNCHANGED <<target, cursor, ctx, chat, from, shown>>
  PROVE  ChatInv'
<1>1. ASSUME NEW w \in Readers, ctx[w].chat, target[w] # NoRun
      PROVE  cursor[w] <= Len(streamed'[target[w]])
  <2> DEFINE s == streamed[target[w]]
             t == streamed'[target[w]]
  <2>1. s \in Seq(Events) /\ (t = s \/ \E e \in Events : t = Append(s, e)) /\ cursor[w] \in Nat
    BY <1>1 DEF BrokerTypeOK, ReadersTypeOK, Grows
  <2>2. cursor[w] <= Len(s)
    BY <1>1 DEF ChatInv, ChatOK
  <2>3. Len(s) \in Nat /\ Len(t) \in Nat /\ Len(s) <= Len(t)
    BY <2>1, FollowsOn
  <2> DEFINE n == Len(s)
             l == Len(t)
             c == cursor[w]
  <2> HIDE DEF n, l, c
  <2>4. c <= n /\ n <= l /\ c \in Nat /\ n \in Nat /\ l \in Nat
    BY <2>1, <2>2, <2>3 DEF n, l, c
  <2>5. c <= l
    BY <2>4
  <2>6. QED BY <2>5 DEF c, l
<1>2. ChatOK'
  BY <1>1 DEF ChatInv, ChatOK, Grows
<1>3. OneLiveLoop' /\ CursorIsShown'
  BY DEF ChatInv, OneLiveLoop, CursorIsShown, Live
<1>4. QED BY <1>2, <1>3 DEF ChatInv

LEMMA StartStreamKeeps ==
  ASSUME BrokerTypeOK, ReadersTypeOK, ChatInv, \A v \in Readers : ReaderOK(v),
         NEW w \in Readers, StartStream(w)
  PROVE  ChatInv'
<1>1. /\ target'[w] = chat.run /\ ctx'[w] = [chat |-> TRUE, cancelled |-> FALSE]
      /\ ~ctx[w].chat /\ from[w] = 0 /\ shown[w] = <<>> /\ cursor[w] = 0
      /\ \A v \in Readers : v # w =>
           ctx'[v].chat = ctx[v].chat /\ ctx'[v].cancelled = (ctx[v].cancelled \/ Live(v))
      /\ chat'.stage = "ready" /\ chat'.run = chat.run /\ chat'.cursor = chat.cursor
      /\ chat.stage = "streaming" /\ chat'.answered = chat.answered
      /\ cursor' = cursor /\ from' = from /\ shown' = shown /\ saved' = saved /\ streamed' = streamed
  BY StartStreamMakes DEF brokerVars
<1>2. \A v \in Readers : v # w => target'[v] = target[v]
  BY StartStreamMakes DEF Untouched, SameReader
<1>3. /\ chat.run \in chat.answered \cup {NoRun} /\ chat.answered \subseteq saved
      /\ saved \subseteq Runs /\ chat.cursor = 0
      /\ \A v \in Readers : ctx[v].chat /\ target[v] = chat.run => chat.run = NoRun
  BY <1>1 DEF ChatInv, ChatOK, BrokerTypeOK
<1>4. chat.run # NoRun => Len(streamed[chat.run]) \in Nat
  BY <1>3 DEF BrokerTypeOK
<1>5. chat.run # NoRun => 0 <= Len(streamed[chat.run])
  BY <1>4
<1>6. ChatOK'
  <2>1. ASSUME NEW v \in Readers, ctx'[v].chat, target'[v] # NoRun
        PROVE  /\ target'[v] \in chat'.answered /\ cursor'[v] <= Len(streamed'[target'[v]])
               /\ \A u \in Readers : ctx'[u].chat /\ target'[u] = target'[v] => u = v
    <3>1. CASE v = w
      BY <1>1, <1>2, <1>3, <1>5, <2>1, <3>1
    <3>2. CASE v # w
      BY <1>1, <1>2, <1>3, <2>1, <3>2 DEF ChatInv, ChatOK
    <3>3. QED BY <3>1, <3>2
  <2>2. chat'.stage # "streaming" /\ chat'.answered \subseteq saved'
    BY <1>1, <1>3
  <2>3. QED BY <2>1, <2>2 DEF ChatOK
<1>7. OneLiveLoop'
  <2>1. \A v \in Readers : v # w => ~(ctx'[v].chat /\ ~ctx'[v].cancelled)
    BY <1>1 DEF Live
  <2>2. QED BY <1>1, <2>1 DEF OneLiveLoop, Live
<1>8. CursorIsShown'
  <2>1. ASSUME NEW v \in Readers, ctx'[v].chat, target'[v] = chat'.run
        PROVE  from'[v] + Len(shown'[v]) = 0
    <3>1. v # w => target[v] = NoRun
      BY <1>1, <1>2, <1>3, <2>1
    <3>2. cursor[v] = from[v] + Len(shown[v]) /\ (target[v] = NoRun => cursor[v] = 0)
      BY DEF ReaderOK
    <3>3. cursor[v] = 0
      BY <1>1, <3>1, <3>2
    <3>4. QED BY <1>1, <3>2, <3>3
  <2>2. chat'.cursor = 0
    BY <1>1, <1>3
  <2>3. QED BY <2>1, <2>2 DEF CursorIsShown
<1>9. QED BY <1>6, <1>7, <1>8 DEF ChatInv

\* A run becomes active when its start has returned, with its id or without one.
LEMMA SetActiveRunMakes ==
  ASSUME BrokerTypeOK, PublishersOK, ReadersTypeOK, ChatInv, \A v \in Readers : ReaderOK(v),
         NEW r \in Runs, SetActiveRun(r)
  PROVE  ReadersTypeOK' /\ ChatInv'
<1>1. /\ r \in saved /\ r \notin chat.answered
      /\ UNCHANGED <<brokerVars, pc, target, cursor, conn, told, ctx, from, shown>>
  BY DEF SetActiveRun, Started, PublishersOK
<1>2. PICK id \in {r, NoRun} :
        chat' = [chat EXCEPT !.run = id, !.cursor = 0, !.stage = "streaming",
                             !.answered = @ \cup {r}]
  BY DEF SetActiveRun, AnsweredIDs
<1>3. /\ chat'.run = id /\ chat'.cursor = 0 /\ chat'.stage = "streaming"
      /\ chat'.answered = chat.answered \cup {r} /\ chat' \in ChatType
  BY <1>2 DEF ReadersTypeOK, ChatType
<1>4. ReadersTypeOK'
  BY <1>1, <1>3 DEF ReadersTypeOK, ChatType
<1>5. saved' = saved /\ streamed' = streamed
  BY <1>1 DEF brokerVars
<1>6. \A w \in Readers : ctx[w].chat /\ target[w] = id => id = NoRun
  BY <1>1, <1>2 DEF ChatInv, ChatOK
<1>7. ChatOK'
  <2>1. chat'.answered \subseteq saved'
    BY <1>1, <1>3, <1>5 DEF ChatInv, ChatOK
  <2>2. \A w \in Readers : ctx'[w].chat /\ target'[w] # NoRun =>
          /\ target'[w] \in chat'.answered
          /\ cursor'[w] <= Len(streamed'[target'[w]])
          /\ \A v \in Readers : ctx'[v].chat /\ target'[v] = target'[w] => v = w
    BY <1>1, <1>3, <1>5 DEF ChatInv, ChatOK
  <2>3. \A w \in Readers : ctx'[w].chat /\ target'[w] = chat'.run => chat'.run = NoRun
    BY <1>1, <1>3, <1>6
  <2>4. QED BY <1>3, <2>1, <2>2, <2>3 DEF ChatOK
<1>8. CursorIsShown'
  <2>1. ASSUME NEW w \in Readers, ctx[w].chat, target[w] = id
        PROVE  from[w] + Len(shown[w]) = 0
    <3>1. cursor[w] = from[w] + Len(shown[w]) /\ cursor[w] = 0
      BY <1>6, <2>1 DEF ReaderOK
    <3>2. QED BY <3>1
  <2>2. QED BY <1>1, <1>3, <2>1 DEF CursorIsShown
<1>9. OneLiveLoop'
  BY <1>1, <1>3 DEF ChatInv, OneLiveLoop, Live
<1>10. QED BY <1>4, <1>7, <1>8, <1>9 DEF ChatInv

LEMMA QuitMakes ==
  ASSUME BrokerTypeOK, ReadersTypeOK, ChatInv, Quit
  PROVE  /\ ReadersTypeOK' /\ ChatInv'
         /\ \A w \in Readers : /\ ctx'[w].chat = ctx[w].chat
                               /\ ctx[w].cancelled => ctx'[w].cancelled
                               /\ ~ctx[w].chat => ctx'[w] = ctx[w]
<1> DEFINE C == [chat : BOOLEAN, cancelled : BOOLEAN]
           next(w) == [ctx[w] EXCEPT !.cancelled = @ \/ Live(w)]
<1>1. /\ chat' = [chat EXCEPT !.stage = "quit"] /\ ctx' = [w \in Readers |-> next(w)]
      /\ UNCHANGED <<brokerVars, pc, target, cursor, conn, told, from, shown>>
  BY DEF Quit
<1>2. ASSUME NEW w \in Readers
      PROVE  /\ next(w) \in C /\ next(w).chat = ctx[w].chat
             /\ next(w).cancelled = (ctx[w].cancelled \/ Live(w))
             /\ ~ctx[w].chat => next(w) = ctx[w]
  <2>1. ctx[w] \in C
    BY DEF ReadersTypeOK
  <2>2. next(w).chat = ctx[w].chat /\ next(w).cancelled = (ctx[w].cancelled \/ Live(w))
    BY <2>1
  <2>3. (ctx[w].cancelled \/ Live(w)) \in BOOLEAN
    BY <2>1
  <2>4. next(w) \in C
    BY <2>1, <2>3
  <2>5. ~ctx[w].chat => next(w) = ctx[w]
    BY <2>1 DEF Live
  <2>6. QED BY <2>2, <2>4, <2>5
<1> HIDE DEF next
<1>3. /\ ctx' \in [Readers -> C]
      /\ \A w \in Readers : /\ ctx'[w].chat = ctx[w].chat
                            /\ ctx'[w].cancelled = (ctx[w].cancelled \/ Live(w))
                            /\ ~ctx[w].chat => ctx'[w] = ctx[w]
  BY <1>1, <1>2
<1>4. /\ chat'.run = chat.run /\ chat'.cursor = chat.cursor /\ chat'.stage = "quit"
      /\ chat' \in ChatType /\ chat'.answered = chat.answered
  BY <1>1 DEF ReadersTypeOK, ChatType
<1>5. ReadersTypeOK'
  BY <1>1, <1>3, <1>4 DEF ReadersTypeOK, ChatType
<1>6. saved' = saved /\ streamed' = streamed
  BY <1>1 DEF brokerVars
<1>7. ChatOK'
  BY <1>1, <1>3, <1>4, <1>6 DEF ChatInv, ChatOK
<1>8. OneLiveLoop'
  <2>1. \A w \in Readers : ~(ctx'[w].chat /\ ~ctx'[w].cancelled)
    BY <1>3 DEF Live
  <2>2. QED BY <2>1 DEF OneLiveLoop, Live
<1>9. CursorIsShown'
  <2> DEFINE loops == {w \in Readers : ctx[w].chat /\ target[w] = chat.run}
             loopsAfter == {w \in Readers : ctx'[w].chat /\ target'[w] = chat'.run}
  <2>1. loopsAfter = loops
    BY <1>1, <1>3, <1>4
  <2>2. chat'.cursor = chat.cursor /\ from' = from /\ shown' = shown
    BY <1>1, <1>4
  <2>3. QED BY <2>1, <2>2 DEF ChatInv, CursorIsShown
<1>10. QED BY <1>3, <1>5, <1>7, <1>8, <1>9 DEF ChatInv

LEMMA RunEventsKeeps ==
  ASSUME ReadersTypeOK, ChatInv, NEW w \in Readers, ReaderOK(w), RunEvents(w)
  PROVE  ChatInv'
<1>1. ~ctx[w].chat /\ UNCHANGED <<brokerVars, ctx, chat, shown>>
  BY RunEventsMakes DEF RunEvents
<1>2. \A v \in Readers : v # w =>
        target'[v] = target[v] /\ cursor'[v] = cursor[v] /\ from'[v] = from[v]
  BY RunEventsMakes DEF Untouched, SameReader
<1>3. \A v \in Readers : ctx[v].chat => v # w
  BY <1>1
<1>4. saved' = saved /\ streamed' = streamed
  BY <1>1 DEF brokerVars
<1>5. ChatOK'
  BY <1>1, <1>2, <1>3, <1>4 DEF ChatInv, ChatOK
<1>6. OneLiveLoop'
  BY <1>1, <1>2, <1>3 DEF ChatInv, OneLiveLoop, Live
<1>7. CursorIsShown'
  <2> DEFINE loops == {v \in Readers : ctx[v].chat /\ target[v] = chat.run}
             next == {v \in Readers : ctx'[v].chat /\ target'[v] = chat'.run}
  <2>1. next = loops
    BY <1>1, <1>2, <1>3
  <2>2. \A v \in loops : from'[v] = from[v] /\ shown'[v] = shown[v]
    BY <1>1, <1>2, <1>3
  <2>3. QED BY <1>1, <2>1, <2>2 DEF ChatInv, CursorIsShown
<1>8. QED BY <1>5, <1>6, <1>7 DEF ChatInv

\* The chat's cursor advances with the loop of the active run, and with no other.
LEMMA ReadKeeps ==
  ASSUME BrokerTypeOK, ReadersTypeOK, ChatInv, NEW w \in Readers, ReaderOK(w), Read(w)
  PROVE  ChatInv'
<1> DEFINE c == cursor[w]
           e == streamed[target[w]][c + 1]
<1>1. /\ c + 1 <= Len(streamed[target[w]]) /\ e \in Events
      /\ cursor' = [cursor EXCEPT ![w] = c + 1]
      /\ shown' = [shown EXCEPT ![w] = Append(@, e)]
      /\ chat' = AdvanceCursor(w, c + 1)
      /\ target' = target /\ ctx' = ctx /\ from' = from /\ saved' = saved /\ streamed' = streamed
      /\ pc[w] = "open" /\ target[w] # NoRun
  BY ReadMakes DEF brokerVars, ReaderOK
<1>2. /\ c \in Nat /\ chat.cursor \in Nat /\ shown[w] \in Seq(Events) /\ from[w] \in Nat
      /\ c = from[w] + Len(shown[w])
  BY DEF ReadersTypeOK, ReaderOK
<1>3. cursor'[w] = c + 1 /\ \A v \in Readers : v # w => cursor'[v] = cursor[v]
  BY <1>1 DEF ReadersTypeOK
<1>4. shown'[w] = Append(shown[w], e) /\ \A v \in Readers : v # w => shown'[v] = shown[v]
  BY <1>1 DEF ReadersTypeOK
<1>5. chat'.run = chat.run /\ chat'.stage = chat.stage /\ chat'.answered = chat.answered
  BY <1>1 DEF AdvanceCursor, ReadersTypeOK
<1>6. ChatOK'
  <2> HIDE DEF c
  <2>1. chat.stage = "streaming" => chat'.cursor = chat.cursor
    <3>1. chat.stage = "streaming" => ~ReadsActive(w) \/ ~ctx[w].chat
      BY <1>1 DEF ChatInv, ChatOK, ReadsActive
    <3>2. QED BY <1>1, <3>1 DEF AdvanceCursor
  <2>2. QED BY <1>1, <1>3, <1>5, <2>1 DEF ChatInv, ChatOK
<1>7. OneLiveLoop'
  BY <1>1, <1>5 DEF ChatInv, OneLiveLoop, Live
<1>8. CursorIsShown'
  <2> DEFINE loops == {v \in Readers : ctx[v].chat /\ target[v] = chat.run}
  <2>1. CASE w \in loops
    <3>1. \A v \in loops : v = w
      BY <1>1, <2>1 DEF ChatInv, ChatOK
    <3>2. chat.cursor = c
      BY <1>2, <2>1 DEF ChatInv, CursorIsShown
    <3>3. c + 1 > chat.cursor
      <4> HIDE DEF c
      <4>1. QED BY <1>2, <3>2
    <3>4. chat'.cursor = c + 1
      <4>1. chat' = [chat EXCEPT !.cursor = c + 1]
        BY <1>1, <2>1, <3>3 DEF AdvanceCursor, ReadsActive
      <4>2. QED BY <4>1 DEF ReadersTypeOK
    <3>5. c + 1 = from[w] + Len(Append(shown[w], e))
      <4> DEFINE l == Len(shown[w])
                 f == from[w]
                 m == Len(Append(shown[w], e))
      <4>1. m = l + 1 /\ l \in Nat /\ f \in Nat /\ c = f + l
        <5> HIDE DEF e
        <5>1. QED BY <1>1, <1>2
      <4> HIDE DEF l, f, m, c
      <4>2. c + 1 = f + m
        BY <4>1
      <4>3. QED BY <4>2 DEF l, f, m
    <3>6. QED BY <1>1, <1>4, <1>5, <2>1, <3>1, <3>4, <3>5 DEF CursorIsShown
  <2>2. CASE w \notin loops
    <3>1. chat' = chat
      BY <1>1, <2>2 DEF AdvanceCursor, ReadsActive
    <3>2. \A v \in loops : shown'[v] = shown[v]
      BY <1>4, <2>2
    <3>3. QED BY <1>1, <3>1, <3>2 DEF ChatInv, CursorIsShown
  <2>3. QED BY <2>1, <2>2
<1>9. QED BY <1>6, <1>7, <1>8 DEF ChatInv

-----------------------------------------------------------------------------
(***************************************************************************)
(* The invariant.                                                          *)
(***************************************************************************)

\* An idle reader is not of the chat.
LEMMA IdleReader ==
  ASSUME NEW v \in Readers, ReaderOK(v), pc[v] = "idle"
  PROVE  ~ctx[v].chat
<1>1. ctx[v] = [chat |-> FALSE, cancelled |-> FALSE]
  BY DEF ReaderOK
<1>2. QED BY <1>1

LEMMA StreamBegins == Init => StreamInv
<1> SUFFICES ASSUME Init PROVE StreamInv
  OBVIOUS
<1>1. BrokerInv
  BY BrokerBegins DEF Init
<1>2. (CHOOSE r \in Runs : TRUE) \in Runs
  BY RunsAssumption
<1>3. NoConn \in ConnType
  BY NoConnTyped
<1>4. /\ pc \in [Readers -> PCs] /\ target \in [Readers -> Runs \cup {NoRun}]
      /\ \A w \in Readers : target[w] # NoRun
      /\ cursor \in [Readers -> Nat]
      /\ from \in [Readers -> Nat] /\ told \in [Readers -> Reasons]
  BY <1>2, ReadersAssumption DEF Init, PCs, Reasons
<1>5. /\ conn \in [Readers -> ConnType] /\ ctx \in [Readers -> [chat : BOOLEAN, cancelled : BOOLEAN]]
      /\ shown \in [Readers -> Seq(Events)]
      /\ chat \in ChatType
  <2>1. conn \in [Readers -> ConnType]
    BY <1>3 DEF Init
  <2>2. ctx \in [Readers -> [chat : BOOLEAN, cancelled : BOOLEAN]]
    BY DEF Init
  <2>3. shown \in [Readers -> Seq(Events)]
    <3>1. <<>> \in Seq(Events)
      OBVIOUS
    <3>2. QED BY <3>1 DEF Init
  <2>4. chat \in ChatType
    BY DEF Init, ChatType
  <2>5. QED BY <2>1, <2>2, <2>3, <2>4
<1>6. ReadersTypeOK
  BY <1>4, <1>5 DEF ReadersTypeOK, PCs, ConnType, ChatType
<1>7. ASSUME NEW w \in Readers PROVE ReaderOK(w)
  <2>1. /\ pc[w] = "idle" /\ from[w] = 0 /\ shown[w] = <<>> /\ cursor[w] = 0
        /\ ctx[w] = [chat |-> FALSE, cancelled |-> FALSE]
    BY DEF Init
  <2>2. cursor[w] = from[w] + Len(shown[w])
    <3>1. Len(shown[w]) = 0
      BY <2>1
    <3>2. QED BY <2>1, <3>1
  <2>3. QED BY <1>4, <2>1, <2>2 DEF ReaderOK
<1>8. ChatInv
  <2>1. /\ \A w \in Readers : ~ctx[w].chat
        /\ chat.stage = "ready" /\ chat.cursor = 0 /\ chat.answered = {}
    BY DEF Init
  <2>2. QED BY <2>1 DEF ChatInv, ChatOK, OneLiveLoop, CursorIsShown, Live
<1>9. QED BY <1>1, <1>6, <1>7, <1>8, ReadersAre DEF StreamInv

\* The step of one reader leaves the others as they should be.
LEMMA ReaderMoves ==
  ASSUME BrokerTypeOK, ReadersTypeOK, \A v \in Readers : ReaderOK(v), UNCHANGED brokerVars,
         NEW w \in Readers, Untouched(w), ReadersTypeOK', ReaderOK(w)', ChatInv',
         \A v \in Readers : v # w =>
           /\ ctx'[v].chat = ctx[v].chat /\ (ctx[v].cancelled => ctx'[v].cancelled)
           /\ pc[v] = "idle" /\ ~ctx[v].chat => ctx'[v] = ctx[v]
  PROVE  ReadersInv'
<1>1. Grows
  BY DEF Grows, brokerVars
<1>2. ASSUME NEW v \in Readers, v # w PROVE ReaderOK(v)'
  <2>1. pc[v] = "idle" => ctx'[v] = ctx[v]
    <3>1. pc[v] = "idle" => ~ctx[v].chat
      BY IdleReader
    <3>2. QED BY <1>2, <3>1
  <2>2. SameReader(v)
    BY <1>2 DEF Untouched
  <2>3. QED BY <1>1, <1>2, <2>1, <2>2, ReaderStays
<1>3. QED BY <1>2, ReadersAreAgain

LEMMA ReaderStep ==
  ASSUME BrokerInv, ReadersInv, NEW w \in Readers, Step(w)
  PROVE  ReadersInv'
<1>1. ReadersTypeOK /\ (\A v \in Readers : ReaderOK(v)) /\ ChatInv
  BY ReadersAre
<1>2. BrokerTypeOK
  BY DEF BrokerInv
<1>3. UNCHANGED <<brokerVars, ctx>>
  BY DEF Step, ReadActiveRun, Open, OpenRefused, Leave, Poll, Read, EndOfStream, Reopen, Break
<1>4. ReadersTypeOK' /\ Untouched(w) /\ ReaderOK(w)'
  BY <1>1, <1>2, ReadActiveRunMakes, OpenMakes, OpenRefusedMakes, LeaveMakes, PollMakes, ReadMakes,
     EndOfStreamMakes, ReopenMakes, BreakMakes DEF Step
<1>5. ChatInv'
  <2>1. CASE Read(w)
    BY <1>1, <1>2, <2>1, ReadKeeps
  <2>2. CASE ~Read(w)
    <3>1. UNCHANGED <<target, cursor, ctx, chat, from, shown>>
      <4>1. CASE ReadActiveRun(w)
        BY <1>1, <4>1, ReadActiveRunMakes DEF ReadActiveRun
      <4>2. CASE ~ReadActiveRun(w)
        BY <2>2, <4>2 DEF Step, Open, OpenRefused, Leave, Poll, EndOfStream, Reopen, Break
      <4>3. QED BY <4>1, <4>2
    <3>2. Grows
      BY <1>3 DEF Grows, brokerVars
    <3>3. QED BY <1>1, <1>2, <3>1, <3>2, ChatStays
  <2>3. QED BY <2>1, <2>2
<1>6. QED BY <1>1, <1>2, <1>3, <1>4, <1>5, ReaderMoves

LEMMA ReadersStep ==
  ASSUME StreamInv, Next, ~UNCHANGED vars
  PROVE  StreamInv'
<1>1. /\ BrokerInv /\ ReadersTypeOK /\ (\A v \in Readers : ReaderOK(v)) /\ ChatInv
      /\ BrokerTypeOK /\ PublishersOK /\ ReadersInv
  BY ReadersAre DEF StreamInv, BrokerInv
<1>2. CASE BrokerNext /\ UNCHANGED readerVars
  <2>1. BrokerInv' /\ Grows
    BY <1>1, <1>2, BrokerStep DEF Grows
  <2>2. UNCHANGED <<pc, target, cursor, conn, told, ctx, chat, from, shown>>
    BY <1>2 DEF readerVars
  <2>3. ReadersTypeOK'
    BY <1>1, <2>2 DEF ReadersTypeOK
  <2>4. ASSUME NEW v \in Readers PROVE ReaderOK(v)'
    BY <1>1, <2>1, <2>2, ReaderStays DEF SameReader
  <2>5. ChatInv'
    BY <1>1, <2>1, <2>2, ChatStays
  <2>6. QED BY <2>1, <2>3, <2>4, <2>5, ReadersAreAgain DEF StreamInv
<1>3. ASSUME NEW r \in Runs, SetActiveRun(r) PROVE StreamInv'
  <2>1. UNCHANGED <<brokerVars, pc, target, cursor, conn, told, ctx, from, shown>>
    BY <1>3 DEF SetActiveRun
  <2>2. ReadersTypeOK' /\ ChatInv'
    BY <1>1, <1>3, SetActiveRunMakes
  <2>3. Grows
    BY <2>1 DEF Grows, brokerVars
  <2>4. ASSUME NEW v \in Readers PROVE ReaderOK(v)'
    BY <1>1, <2>1, <2>3, ReaderStays DEF SameReader
  <2>5. QED BY <1>1, <2>1, <2>2, <2>4, BrokerStays, ReadersAreAgain DEF StreamInv
<1>4. ASSUME NEW w \in Readers, StartStream(w) PROVE StreamInv'
  <2>1. /\ UNCHANGED brokerVars /\ ReadersTypeOK' /\ Untouched(w) /\ ReaderOK(w)'
        /\ \A v \in Readers : v # w =>
             /\ ctx'[v].chat = ctx[v].chat /\ (ctx[v].cancelled => ctx'[v].cancelled)
             /\ pc[v] = "idle" /\ ~ctx[v].chat => ctx'[v] = ctx[v]
    BY <1>1, <1>4, StartStreamMakes
  <2>2. ChatInv'
    BY <1>1, <1>4, StartStreamKeeps
  <2>3. QED BY <1>1, <2>1, <2>2, BrokerStays, ReaderMoves DEF StreamInv
<1>5. ASSUME NEW w \in Readers, RunEvents(w) PROVE StreamInv'
  <2>1. UNCHANGED brokerVars /\ ctx' = ctx
    BY <1>5 DEF RunEvents
  <2>2. ReadersTypeOK' /\ Untouched(w) /\ ReaderOK(w)' /\ ChatInv'
    BY <1>1, <1>5, RunEventsMakes, RunEventsKeeps
  <2>3. QED BY <1>1, <2>1, <2>2, BrokerStays, ReaderMoves DEF StreamInv
<1>6. ASSUME NEW w \in Readers, Step(w) PROVE StreamInv'
  <2>1. UNCHANGED brokerVars
    BY <1>6 DEF Step, ReadActiveRun, Open, OpenRefused, Leave, Poll, Read, EndOfStream, Reopen, Break
  <2>2. QED BY <1>1, <1>6, <2>1, BrokerStays, ReaderStep DEF StreamInv
<1>7. CASE Quit
  <2>1. UNCHANGED <<brokerVars, pc, target, cursor, conn, told, from, shown>>
    BY <1>7 DEF Quit
  <2>2. /\ ReadersTypeOK' /\ ChatInv'
        /\ \A w \in Readers : /\ ctx'[w].chat = ctx[w].chat
                              /\ ctx[w].cancelled => ctx'[w].cancelled
                              /\ ~ctx[w].chat => ctx'[w] = ctx[w]
    BY <1>1, <1>7, QuitMakes
  <2>3. Grows
    BY <2>1 DEF Grows, brokerVars
  <2>4. ASSUME NEW v \in Readers PROVE ReaderOK(v)'
    <3>1. pc[v] = "idle" => ctx'[v] = ctx[v]
      <4>1. pc[v] = "idle" => ~ctx[v].chat
        BY <1>1, IdleReader
      <4>2. QED BY <2>2, <4>1
    <3>2. QED BY <1>1, <2>1, <2>2, <2>3, <3>1, ReaderStays DEF SameReader
  <2>5. QED BY <1>1, <2>1, <2>2, <2>4, BrokerStays, ReadersAreAgain DEF StreamInv
<1>8. QED BY <1>2, <1>3, <1>4, <1>5, <1>6, <1>7 DEF Next, Begin, Quiet

LEMMA StreamStays ==
  ASSUME StreamInv, UNCHANGED vars
  PROVE  StreamInv'
<1>1. BrokerInv'
  BY BrokerStays DEF StreamInv, vars
<1>2. UNCHANGED <<pc, target, cursor, conn, told, ctx, chat, from, shown>>
      /\ saved' = saved /\ streamed' = streamed
  BY DEF vars, readerVars, brokerVars
<1>3. ReadersInv
  BY DEF StreamInv
<1>4. ReadersTypeOK'
  BY <1>2, <1>3 DEF ReadersInv, ReadersTypeOK
<1>5. CursorsOK' /\ WiresOK' /\ EndsOK'
  BY <1>2, <1>3 DEF ReadersInv, CursorsOK, WiresOK, EndsOK
<1>6. ChatOK'
  BY <1>2, <1>3 DEF ReadersInv, ChatOK
<1>7. OneLiveLoop' /\ CursorIsShown'
  BY <1>2, <1>3 DEF ReadersInv, OneLiveLoop, CursorIsShown, Live
<1>8. QED BY <1>1, <1>4, <1>5, <1>6, <1>7 DEF StreamInv, ReadersInv

\* From the publishers to the terminals, the stream is as StreamInv says: commands that
\* hold the mutex log and stream alone on their run, the broker keeps the tail of what it
\* accepted, the wire of a reader holds what follows its cursor, and the chat's cursor is
\* what its one live loop has shown.
THEOREM StreamInvariant == Spec => []StreamInv
<1>1. StreamInv /\ [Next]_vars => StreamInv'
  BY ReadersStep, StreamStays
<1>2. QED BY <1>1, StreamBegins, PTL DEF Spec

\* The broker keeps the last events of each run, under their numbers.
THEOREM HistoriesAreTails == Spec => []HistoryIsTail
<1>1. StreamInv => HistoryIsTail
  BY DEF StreamInv, BrokerInv
<1>2. QED BY <1>1, StreamInvariant, PTL

\* The stream tells the events of the commands that hold the mutex in the order of the
\* event log, however publishers and their contexts interleave between the two sinks.
THEOREM StreamsFollowTheLog == Spec => []StreamFollowsLog
<1>1. StreamInv => StreamFollowsLog
  BY DEF StreamInv, BrokerInv
<1>2. QED BY <1>1, StreamInvariant, PTL

\* At most one loop of the chat is live, that of the active run.
THEOREM OneLoopIsLive == Spec => []OneLiveLoop
<1>1. StreamInv => OneLiveLoop
  BY DEF StreamInv, ReadersInv
<1>2. QED BY <1>1, StreamInvariant, PTL

\* The chat's cursor is the last event its loop of the active run has shown.
THEOREM CursorsAreShown == Spec => []CursorIsShown
<1>1. StreamInv => CursorIsShown
  BY DEF StreamInv, ReadersInv
<1>2. QED BY <1>1, StreamInvariant, PTL

\* A loop tells why it ends: it says that its cursor expired only if the next event is
\* lost to it; the chat never holds a cursor that the server does not know, and a run that
\* it does not know only with the empty id of a start that was overtaken.
THEOREM EndsAreAlwaysTold == Spec => []EndsAreTold
<1>1. StreamInv => EndsAreTold
  <2> SUFFICES ASSUME StreamInv, NEW w \in Readers, pc[w] = "ended", told[w] = "expired"
               PROVE  cursor[w] + 1 < Head(runs[target[w]].events).id
    BY DEF StreamInv, ReadersInv, EndsOK, EndsAreTold
  <2> DEFINE s == streamed[target[w]]
             n == Len(s)
             k == KeptOf(s)
             es == runs[target[w]].events
             c == cursor[w]
  <2>1. target[w] \in Runs /\ c \in Nat /\ BrokerInv
    BY DEF StreamInv, ReadersInv, ReadersTypeOK, EndsOK
  <2>2. c + HistoryLimit < n
    BY DEF StreamInv, ReadersInv, EndsOK
  <2>3. /\ n \in Nat /\ k \in Nat /\ k = IF n < HistoryLimit THEN n ELSE HistoryLimit
        /\ es \in Seq(StreamEventType) /\ Len(es) = k
    BY <2>1, HistoryIs
  <2>4. \A i \in 1..k : es[i] = StreamEvent(n - k + i, s[n - k + i])
    BY <2>1, HistoryIs
  <2>5. HistoryLimit \in Nat /\ HistoryLimit # 0
    BY LimitAssumption
  <2> HIDE DEF s, n, k, es, c
  <2>6. k = HistoryLimit /\ 1 \in 1..k
    BY <2>1, <2>2, <2>3, <2>5
  <2>7. es[1] = StreamEvent(n - k + 1, s[n - k + 1])
    BY <2>4, <2>6
  <2>8. Head(es) = es[1] /\ es[1].id = n - k + 1
    BY <2>7 DEF StreamEvent
  <2>9. c + 1 < n - k + 1
    BY <2>1, <2>2, <2>3, <2>5, <2>6
  <2>10. QED BY <2>8, <2>9 DEF es, c
<1>2. QED BY <1>1, StreamInvariant, PTL

-----------------------------------------------------------------------------
(***************************************************************************)
(* Readers and broker implement the event log.                             *)
(***************************************************************************)

PlaceOf(w) ==
  IF pc[w] \in {"idle", "spawned"} \/ target[w] = NoRun
  THEN [run |-> CHOOSE r \in Runs : TRUE, after |-> 0]
  ELSE [run |-> target[w], after |-> from[w]]

reads == [w \in Readers |-> Reading(w)]

places == [w \in Readers |-> PlaceOf(w)]

logVars == <<streamed, reads, places, shown>>

LEMMA SameView ==
  ASSUME UNCHANGED <<pc, target, from>>
  PROVE  UNCHANGED <<reads, places>>
BY DEF reads, places, Reading, AtWork, PlaceOf

\* The step of one reader, as the event log sees it.
LEMMA ViewOf ==
  ASSUME NEW w \in Readers, Untouched(w), NEW b \in BOOLEAN, Reading(w)' = b, NEW x, PlaceOf(w)' = x
  PROVE  /\ reads' = [reads EXCEPT ![w] = b] /\ places' = [places EXCEPT ![w] = x]
         /\ reads'[w] = b /\ places'[w] = x
<1>1. ASSUME NEW v \in Readers, v # w PROVE Reading(v)' = Reading(v) /\ PlaceOf(v)' = PlaceOf(v)
  BY <1>1 DEF Untouched, SameReader, Reading, AtWork, PlaceOf
<1>2. reads' = [v \in Readers |-> Reading(v)'] /\ places' = [v \in Readers |-> PlaceOf(v)']
  BY DEF reads, places
<1>3. reads = [v \in Readers |-> Reading(v)] /\ places = [v \in Readers |-> PlaceOf(v)]
  BY DEF reads, places
<1>4. QED BY <1>1, <1>2, <1>3

\* A reader that goes on reading, or has not begun to, is not seen to move.
LEMMA ViewStays ==
  ASSUME NEW w \in Readers, Untouched(w), Reading(w)' = Reading(w), PlaceOf(w)' = PlaceOf(w)
  PROVE  UNCHANGED <<reads, places>>
<1>1. ASSUME NEW v \in Readers PROVE Reading(v)' = Reading(v) /\ PlaceOf(v)' = PlaceOf(v)
  <2>1. CASE v = w
    BY <2>1
  <2>2. CASE v # w
    BY <2>2 DEF Untouched, SameReader, Reading, AtWork, PlaceOf
  <2>3. QED BY <2>1, <2>2
<1>2. reads' = [v \in Readers |-> Reading(v)'] /\ places' = [v \in Readers |-> PlaceOf(v)']
  BY DEF reads, places
<1>3. reads = [v \in Readers |-> Reading(v)] /\ places = [v \in Readers |-> PlaceOf(v)]
  BY DEF reads, places
<1>4. QED BY <1>1, <1>2, <1>3

LEMMA BrokerAdds ==
  ASSUME BrokerTypeOK, PublishersOK, BrokerNext, UNCHANGED readerVars
  PROVE  [LogOf!Next]_logVars
<1>1. UNCHANGED <<reads, places>> /\ shown' = shown
  BY SameView DEF readerVars
<1>2. PICK p \in Publishers : Moves(p)
  BY DEF BrokerNext, Moves
<1>3. CASE Stream(p)
  <2>1. Run(p) \in Runs /\ NextEvent(p) \in Events
    BY <1>3, StreamMakes
  <2>2. streamed' = [streamed EXCEPT ![Run(p)] = Append(@, NextEvent(p))]
    BY <1>3 DEF Stream
  <2>3. LogOf!Add(Run(p), NextEvent(p))
    BY <1>1, <2>2 DEF LogOf!Add, reads, places, PlaceOf
  <2>4. QED BY <2>1, <2>3 DEF LogOf!Next
<1>4. CASE ~Stream(p)
  BY <1>1, <1>2, <1>4 DEF Moves, BeginStart, BeginLocked, Begins, Publish, Log, Refused, logVars
<1>5. QED BY <1>3, <1>4

LEMMA ReaderStarts ==
  ASSUME NEW w \in Readers, Untouched(w), ~Reading(w), shown[w] = <<>>,
         Reading(w)', NEW x \in [run : Runs, after : Nat], PlaceOf(w)' = x,
         UNCHANGED <<streamed, shown>>
  PROVE  LogOf!Next
<1>1. Reading(w)' = TRUE
  BY DEF Reading, AtWork
<1>2. /\ reads' = [reads EXCEPT ![w] = TRUE] /\ places' = [places EXCEPT ![w] = x]
      /\ places'[w] = x
  BY <1>1, ViewOf
<1>3. ~reads[w]
  BY DEF reads
<1>4. LogOf!Start(w)
  BY <1>2, <1>3 DEF LogOf!Start, reads, places, PlaceOf
<1>5. QED BY <1>4 DEF LogOf!Next

LEMMA ReaderEnds ==
  ASSUME NEW w \in Readers, Untouched(w), Reading(w), pc'[w] = "ended",
         UNCHANGED <<streamed, shown, target, from>>
  PROVE  LogOf!Next
<1>1. Reading(w)' = FALSE
  BY DEF Reading, AtWork
<1>2. PlaceOf(w)' = PlaceOf(w)
  BY DEF PlaceOf, Reading, AtWork
<1>3. /\ reads' = [reads EXCEPT ![w] = FALSE] /\ places' = [places EXCEPT ![w] = PlaceOf(w)]
  BY <1>1, <1>2, ViewOf
<1>4. reads[w] /\ places' = places
  BY <1>3 DEF reads, places
<1>5. LogOf!Stop(w)
  BY <1>3, <1>4 DEF LogOf!Stop, reads, places, PlaceOf
<1>6. QED BY <1>5 DEF LogOf!Next

LEMMA ReaderShows ==
  ASSUME BrokerTypeOK, ReadersTypeOK, NEW w \in Readers, ReaderOK(w), Read(w)
  PROVE  LogOf!Next
<1> DEFINE c == cursor[w]
           s == streamed[target[w]]
           l == Len(s)
           f == from[w]
           k == Len(shown[w])
<1>1. /\ c + 1 <= l /\ shown' = [shown EXCEPT ![w] = Append(@, s[c + 1])]
      /\ pc[w] = "open" /\ UNCHANGED <<brokerVars, pc, target, from>>
  BY ReadMakes
<1>2. UNCHANGED <<reads, places>> /\ streamed' = streamed
  BY <1>1, SameView DEF brokerVars
<1>3. /\ c \in Nat /\ l \in Nat /\ f \in Nat /\ k \in Nat /\ s \in Seq(Events) /\ c = f + k
  <2>1. shown[w] \in Seq(Events) /\ s \in Seq(Events) /\ c \in Nat /\ f \in Nat
    BY <1>1, ReaderOK(w) DEF ReadersTypeOK, BrokerTypeOK, ReaderOK
  <2>2. QED BY <2>1, LenProperties DEF ReaderOK
<1>4. DOMAIN s = 1..l
  BY <1>3, LenProperties
<1>5. reads[w] /\ places[w].run = target[w] /\ places[w].after = f
  BY <1>1, ReaderOK(w) DEF ReaderOK, reads, places, Reading, AtWork, PlaceOf
<1>6. f + k + 1 = c + 1 /\ c + 1 \in DOMAIN s
  <2> HIDE DEF c, l, f, k, s
  <2>1. QED BY <1>1, <1>3, <1>4
<1>7. LogOf!Show(w)
  BY <1>1, <1>2, <1>5, <1>6 DEF LogOf!Show, reads, places, PlaceOf
<1>8. QED BY <1>7 DEF LogOf!Next

LEMMA EventLogStep ==
  ASSUME StreamInv, [Next]_vars
  PROVE  [LogOf!Next]_logVars
<1>1. /\ BrokerInv /\ ReadersTypeOK /\ (\A v \in Readers : ReaderOK(v)) /\ ChatInv
      /\ BrokerTypeOK /\ PublishersOK
  BY ReadersAre DEF StreamInv, BrokerInv
<1>2. CASE BrokerNext /\ UNCHANGED readerVars
  BY <1>1, <1>2, BrokerAdds
<1>3. CASE Quit \/ (\E r \in Runs : SetActiveRun(r)) \/ UNCHANGED vars
  <2>1. UNCHANGED <<streamed, shown, pc, target, from>>
    BY <1>3 DEF Quit, SetActiveRun, vars, brokerVars, readerVars
  <2>2. QED BY <2>1, SameView DEF logVars
<1>4. ASSUME NEW w \in Readers, StartStream(w) PROVE [LogOf!Next]_logVars
  <2>1. Untouched(w)
    BY <1>1, <1>4, StartStreamMakes
  <2>2. pc[w] = "idle" /\ pc'[w] = "spawned" /\ UNCHANGED <<streamed, shown>>
    BY <1>1, <1>4, GoToMakes DEF StartStream, PCs, brokerVars
  <2>3. Reading(w)' = Reading(w) /\ PlaceOf(w)' = PlaceOf(w)
    BY <2>2 DEF Reading, AtWork, PlaceOf
  <2>4. QED BY <2>1, <2>2, <2>3, ViewStays DEF logVars
<1>5. ASSUME NEW w \in Readers, RunEvents(w) \/ ReadActiveRun(w) PROVE [LogOf!Next]_logVars
  <2>1. /\ Untouched(w) /\ ReadersTypeOK' /\ UNCHANGED <<streamed, shown>>
        /\ pc[w] \in {"idle", "spawned"} /\ pc'[w] = "opening"
    BY <1>1, <1>5, RunEventsMakes, ReadActiveRunMakes, GoToMakes
       DEF RunEvents, ReadActiveRun, PCs, brokerVars
  <2>2. CASE target'[w] = NoRun
    <3>1. target[w] = NoRun
      <4>1. ~RunEvents(w)
        BY <1>1, <2>2, ReadersAssumption DEF RunEvents, ReadersTypeOK
      <4>2. QED BY <1>5, <2>2, <4>1 DEF ReadActiveRun
    <3>2. Reading(w)' = Reading(w) /\ PlaceOf(w)' = PlaceOf(w)
      BY <2>2, <3>1 DEF Reading, PlaceOf
    <3>3. QED BY <2>1, <3>2, ViewStays DEF logVars
  <2>3. CASE target'[w] # NoRun
    <3>1. ~Reading(w) /\ Reading(w)' /\ shown[w] = <<>>
      BY <1>1, <2>1, <2>3 DEF Reading, AtWork, ReaderOK
    <3>2. PlaceOf(w)' \in [run : Runs, after : Nat]
      BY <2>1, <2>3 DEF PlaceOf, ReadersTypeOK
    <3>3. QED BY <2>1, <3>1, <3>2, ReaderStarts
  <2>4. QED BY <2>2, <2>3
<1>6. ASSUME NEW w \in Readers, Step(w), ~ReadActiveRun(w), ~Read(w)
      PROVE  [LogOf!Next]_logVars
  <2>1. Untouched(w)
    BY <1>1, <1>6, OpenMakes, OpenRefusedMakes, LeaveMakes, PollMakes, EndOfStreamMakes,
       ReopenMakes, BreakMakes DEF Step
  <2>2. /\ UNCHANGED <<streamed, shown, target, from>> /\ AtWork(w)
        /\ pc'[w] = "ended" \/ pc'[w] \notin {"idle", "spawned", "ended"}
    <3>1. CASE Poll(w) \/ Break(w)
      BY <3>1 DEF Poll, Break, AtWork, brokerVars
    <3>2. CASE Open(w) \/ OpenRefused(w) \/ Leave(w) \/ EndOfStream(w) \/ Reopen(w)
      BY <1>1, <3>2, GoToMakes
         DEF Open, OpenRefused, Leave, EndOfStream, Reopen, Ends, AtWork, brokerVars, PCs
    <3>3. QED BY <1>6, <3>1, <3>2 DEF Step
  <2>3. CASE pc'[w] = "ended" /\ target[w] # NoRun
    BY <2>1, <2>2, <2>3, ReaderEnds DEF Reading
  <2>4. CASE pc'[w] \notin {"idle", "spawned", "ended"} \/ target[w] = NoRun
    <3>1. Reading(w)' = Reading(w) /\ PlaceOf(w)' = PlaceOf(w)
      BY <2>2, <2>4 DEF Reading, AtWork, PlaceOf
    <3>2. QED BY <2>1, <2>2, <3>1, ViewStays DEF logVars
  <2>5. QED BY <2>2, <2>3, <2>4
<1>7. ASSUME NEW w \in Readers, Read(w) PROVE LogOf!Next
  BY <1>1, <1>7, ReaderShows
<1>8. QED BY <1>2, <1>3, <1>4, <1>5, <1>6, <1>7 DEF Next, Begin, Step, Quiet

\* Readers are shown the events of their run from their cursor on, each once and in order:
\* the stream implements the event log of EventLog, whatever breaks or is cancelled.
THEOREM StreamIsEventLog == Spec => IsEventLog
<1>1. Init => LogOf!Init
  <2> SUFFICES ASSUME Init PROVE LogOf!Init
    OBVIOUS
  <2>1. streamed = [r \in Runs |-> <<>>] /\ shown = [w \in Readers |-> <<>>]
    BY DEF Init, BrokerInit
  <2>2. reads = [w \in Readers |-> FALSE]
    BY DEF Init, reads, Reading, AtWork
  <2>3. places \in [Readers -> [run : Runs, after : Nat]]
    <3>1. (CHOOSE r \in Runs : TRUE) \in Runs
      BY RunsAssumption
    <3>2. \A w \in Readers : PlaceOf(w) = [run |-> CHOOSE r \in Runs : TRUE, after |-> 0]
      BY DEF Init, PlaceOf
    <3>3. QED BY <3>1, <3>2 DEF places
  <2>4. QED BY <2>1, <2>2, <2>3 DEF LogOf!Init, reads, places, PlaceOf
<1>2. StreamInv /\ [Next]_vars => [LogOf!Next]_logVars
  BY EventLogStep
<1>3. QED
  BY <1>1, <1>2, StreamInvariant, PTL
     DEF Spec, IsEventLog, LogOf!Spec, LogOf!logVars, logVars, reads, places, PlaceOf
=============================================================================
