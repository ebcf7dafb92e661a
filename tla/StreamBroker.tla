---------------------------- MODULE StreamBroker ----------------------------
(***************************************************************************)
(* The server's side of the event stream: runstream.Broker, which keeps    *)
(* the last events of every run under consecutive ids, and fanoutSink      *)
(* (runtimewire), which hands each event to the event log and then to the  *)
(* broker.                                                                 *)
(*                                                                         *)
(* A publisher is a command at work: the start that created the run, which *)
(* holds no lock, or a command that holds the run's mutex.  Its context    *)
(* may end at any moment, and a sink that finds it done refuses the event; *)
(* the runner's own events then go on under a detached context.            *)
(***************************************************************************)
EXTENDS SequencesExt

CONSTANTS Runs,
          Publishers,   \* the commands that publish
          HistoryLimit, \* the events the broker keeps of a run
          RunsOf,       \* Publishers -> the runs a command may name
          Publishes,    \* bound: Publishers -> the events it publishes
          CtxMayEnd     \* the publishers whose contexts may end

ASSUME RunsAssumption == Runs # {}

ASSUME LimitAssumption == HistoryLimit \in Nat \ {0}

ASSUME PublishersAssumption ==
  /\ RunsOf \in [Publishers -> SUBSET Runs]
  /\ Publishes \in [Publishers -> Nat \ {0}]
  /\ CtxMayEnd \subseteq Publishers

VARIABLES
  saved,     \* the runs that are in the run store
  publisher, \* publisher -> its stage, its run, whether it holds the mutex, the events left
  sink,      \* run -> the events the event log has accepted
  runs,      \* run -> its history: the next id and the events kept
  streamed   \* run -> all the events the broker has accepted (auxiliary)

brokerVars == <<saved, publisher, sink, runs, streamed>>

\* The event a publisher has n - 1 events behind.
Events == UNION {[by : {p}, n : 1..Publishes[p]] : p \in Publishers}

StreamEvent(id, e) == [id |-> id, event |-> e]

NewHistory == [next |-> 1, events |-> <<>>]

\* Defect: an event too many is dropped.
KeptShort(events) ==
  SubSeq(events, 1 + Len(events) - (IF Len(events) >= HistoryLimit THEN HistoryLimit - 1
                                                                   ELSE Len(events)),
         Len(events))

\* The last HistoryLimit events.
Kept(events) ==
  LET drop == Len(events) - HistoryLimit
  IN IF drop > 0 THEN SubSeq(events, drop + 1, Len(events)) ELSE events

\* Broker.Publish
Appended(h, e) ==
  [next |-> h.next + 1, events |-> Kept(Append(h.events, StreamEvent(h.next, e)))]

-----------------------------------------------------------------------------
(***************************************************************************)
(* Broker.EventsAfter, for a cursor that is not negative.  A run without a *)
(* history answers as NewHistory does.                                     *)
(***************************************************************************)

\* Defect: the cursor may be one event further behind.
CursorErrorLax(h, cursor) ==
  CASE cursor >= h.next -> "invalid"
    [] cursor < h.next /\ h.events # <<>> /\ cursor + 1 < Head(h.events).id - 1 -> "expired"
    [] OTHER -> ""

\* Defect: the event before the oldest one is taken for lost.
CursorErrorStrict(h, cursor) ==
  CASE cursor >= h.next -> "invalid"
    [] cursor < h.next /\ h.events # <<>> /\ cursor < Head(h.events).id -> "expired"
    [] OTHER -> ""

CursorError(h, cursor) ==
  CASE cursor >= h.next -> "invalid"
    [] cursor < h.next /\ h.events # <<>> /\ cursor < Head(h.events).id - 1 -> "expired"
    [] OTHER -> ""

\* What follows the first event behind the cursor, and it.
After(h, cursor) ==
  LET behind == {i \in DOMAIN h.events : h.events[i].id > cursor}
  IN IF behind = {} THEN <<>> ELSE SubSeq(h.events, Min(behind), Len(h.events))

-----------------------------------------------------------------------------
(***************************************************************************)
(* The publishers.                                                         *)
(***************************************************************************)

Run(p) == publisher[p].run

Busy(p) == publisher[p].stage \in {"logging", "streaming"}

Begins(p, r, locked) ==
  /\ publisher[p].stage = "idle"
  /\ publisher' = [publisher EXCEPT ![p].stage = "logging", ![p].run = r, ![p].locked = locked]
  /\ UNCHANGED <<sink, runs, streamed>>

\* A start publishes once its first save has created the run.
BeginStart(p) ==
  \E r \in RunsOf[p] \ saved : Begins(p, r, FALSE) /\ saved' = saved \cup {r}

\* Defect: a command publishes after it has given the mutex back.
BeginUnlocked(p) ==
  \E r \in RunsOf[p] \cap saved : Begins(p, r, TRUE) /\ UNCHANGED saved

\* The others publish while they hold the run's mutex.
BeginLocked(p) ==
  \E r \in RunsOf[p] \cap saved :
    /\ \A q \in Publishers : Busy(q) /\ Run(q) = r => ~publisher[q].locked
    /\ Begins(p, r, TRUE)
    /\ UNCHANGED saved

NextEvent(p) == [by |-> p, n |-> publisher[p].left]

\* The event is dealt with.
Passed(p) ==
  LET left == publisher[p].left - 1 IN
  publisher' = [publisher EXCEPT ![p].left = left,
                                 ![p].stage = IF left = 0 THEN "done" ELSE "logging"]

\* fanoutSink.Publish: first the event log...
Log(p) ==
  /\ publisher[p].stage = "logging"
  /\ sink' = [sink EXCEPT ![Run(p)] = Append(@, NextEvent(p))]
  /\ publisher' = [publisher EXCEPT ![p].stage = "streaming"]
  /\ UNCHANGED <<saved, runs, streamed>>

\* ... then the broker.
Stream(p) ==
  /\ publisher[p].stage = "streaming"
  /\ runs' = [runs EXCEPT ![Run(p)] = Appended(@, NextEvent(p))]
  /\ streamed' = [streamed EXCEPT ![Run(p)] = Append(@, NextEvent(p))]
  /\ Passed(p)
  /\ UNCHANGED <<saved, sink>>

\* The context is done: both sinks refuse, or only the second.
Refused(p) ==
  /\ p \in CtxMayEnd
  /\ Busy(p)
  /\ Passed(p)
  /\ UNCHANGED <<saved, sink, runs, streamed>>

BrokerInit ==
  /\ saved = {}
  /\ publisher = [p \in Publishers |->
                  [stage |-> "idle", run |-> CHOOSE r \in Runs : TRUE,
                   locked |-> FALSE, left |-> Publishes[p]]]
  /\ sink = [r \in Runs |-> <<>>]
  /\ runs = [r \in Runs |-> NewHistory]
  /\ streamed = [r \in Runs |-> <<>>]

Publish(p) == Log(p) \/ Stream(p) \/ Refused(p)

BrokerNext ==
  \E p \in Publishers : BeginStart(p) \/ BeginLocked(p) \/ Publish(p)

-----------------------------------------------------------------------------
(***************************************************************************)
(* Properties.                                                             *)
(***************************************************************************)

\* The broker keeps the last events it accepted, all of them until there are more than
\* HistoryLimit, under the numbers they were accepted as.
HistoryIsTail ==
  \A r \in Runs :
    LET h == runs[r]
        n == Len(streamed[r])
        kept == IF n < HistoryLimit THEN n ELSE HistoryLimit
    IN /\ h.next = n + 1
       /\ h.events = [i \in 1..kept |-> StreamEvent(n - kept + i, streamed[r][n - kept + i])]

\* Two events in the order of the sequence s.
InOrder(s, d, e) == \E i, j \in DOMAIN s : i < j /\ s[i] = d /\ s[j] = e

\* The stream tells the events of the commands that hold the mutex in the order of the
\* event log, although the two sinks are not updated together, and tells none that the
\* log does not have.
StreamFollowsLog ==
  \A r \in Runs :
    /\ ToSet(streamed[r]) \subseteq ToSet(sink[r])
    /\ \A d, e \in ToSet(streamed[r]) :
         /\ publisher[d.by].locked /\ publisher[e.by].locked
         /\ InOrder(streamed[r], d, e)
         => InOrder(sink[r], d, e)

-----------------------------------------------------------------------------
(***************************************************************************)
(* The inductive invariant behind them.                                    *)
(***************************************************************************)

PublisherType ==
  [stage : {"idle", "logging", "streaming", "done"}, run : Runs, locked : BOOLEAN, left : Nat]

StreamEventType == [id : Nat, event : Events]

BrokerTypeOK ==
  /\ saved \subseteq Runs
  /\ publisher \in [Publishers -> PublisherType]
  /\ sink \in [Runs -> Seq(Events)]
  /\ runs \in [Runs -> [next : Nat, events : Seq(StreamEventType)]]
  /\ streamed \in [Runs -> Seq(Events)]

\* A publisher works on a stored run, one that holds the mutex as the only one.
PublishersOK ==
  \A p \in Publishers :
    /\ publisher[p].left <= Publishes[p]
    /\ publisher[p].stage \in {"idle", "logging", "streaming"} => publisher[p].left # 0
    /\ publisher[p].stage # "idle" => Run(p) \in saved
    /\ \A q \in Publishers :
         /\ Busy(p) /\ publisher[p].locked /\ Busy(q) /\ publisher[q].locked
         /\ Run(p) = Run(q)
         => p = q

\* What was logged was published by a command at work on the run, and is one of the
\* events it has behind it.
LogOK ==
  \A r \in Runs : \A e \in ToSet(sink[r]) :
    LET p == e.by IN
    /\ publisher[p].stage # "idle" /\ Run(p) = r
    /\ \/ e.n > publisher[p].left
       \/ publisher[p].stage = "streaming" /\ e = NextEvent(p)

\* The event a publisher is about to stream was logged, and after every other event of
\* those who had the mutex.
StreamingOK ==
  \A p \in Publishers : publisher[p].stage = "streaming" =>
    LET e == NextEvent(p) IN
    /\ e \in ToSet(sink[Run(p)])
    /\ publisher[p].locked =>
         \A d \in ToSet(sink[Run(p)]) :
           publisher[d.by].locked /\ d # e => InOrder(sink[Run(p)], d, e)

StreamedOK ==
  \A r \in Runs : \A e \in ToSet(streamed[r]) : e.n > publisher[e.by].left

BrokerInv ==
  /\ BrokerTypeOK /\ PublishersOK /\ LogOK /\ StreamingOK /\ StreamedOK
  /\ HistoryIsTail /\ StreamFollowsLog
=============================================================================
