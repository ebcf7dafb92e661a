---------------------------- MODULE EventReaders ----------------------------
(***************************************************************************)
(* The event stream from the broker to the terminal: handleRunEvents       *)
(* (httpapi), which sends what the broker kept behind a cursor and then    *)
(* polls; and its readers in the client, the chat's stream loop            *)
(* (cmd_chat.go, chat/state.go) and the events command (cmd_events.go).    *)
(*                                                                         *)
(* A reader is one such loop.  The chat starts one for each run it starts  *)
(* and cancels the one before; an events command begins wherever its user  *)
(* says.  What a reader prints last, or returns, when it gives up is why   *)
(* it ended.  The frames' encoding and their size are left out.            *)
(***************************************************************************)
EXTENDS StreamBroker

CONSTANTS Readers,
          NoRun,        \* the empty run id: the chat has no active run
          MaxCursor,    \* bound: the cursors an events command may begin with
          Viewers,      \* bound: the readers that may be events commands
          ConnMayBreak  \* the readers whose connections may break

ASSUME ReadersAssumption ==
  /\ NoRun \notin Runs
  /\ MaxCursor \in Nat
  /\ Viewers \subseteq Readers /\ ConnMayBreak \subseteq Readers

VARIABLES
  pc,     \* reader -> where its loop is
  target, \* reader -> the run it reads
  cursor, \* reader -> currentCursor
  conn,   \* reader -> its connection: the handler's cursor, the events sent, its end
  told,   \* reader -> why it ended, as it told its user
  ctx,    \* reader -> whether it is of the chat, and whether it was cancelled
  chat,   \* the chat: its active run and cursor, whether it still has to start the stream,
          \* and the runs whose starts were answered (auxiliary)
  from,   \* reader -> the cursor it began with (auxiliary)
  shown   \* reader -> the events it has shown (auxiliary)

readerVars == <<pc, target, cursor, conn, told, ctx, chat, from, shown>>

vars == <<brokerVars, readerVars>>

NoConn == [at |-> 0, wire |-> <<>>, end |-> ""]

GoTo(w, l) == pc' = [pc EXCEPT ![w] = l]

\* The loop returns, with the error e if it has one.
Ends(w, e) ==
  /\ GoTo(w, "ended")
  /\ told' = [told EXCEPT ![w] = e]
  /\ conn' = [conn EXCEPT ![w] = NoConn]

-----------------------------------------------------------------------------
(***************************************************************************)
(* Readers begin and are cancelled.                                        *)
(***************************************************************************)

\* The start of r was accepted: no event of its was refused.
Started(r) ==
  \E p \in Publishers :
    /\ Run(p) = r /\ publisher[p].stage = "done" /\ ~publisher[p].locked
    /\ {e \in Events : e.by = p} \subseteq ToSet(streamed[r])

\* The run ids that an accepted start of r may answer: when its step budget is used up
\* and a command with the mutex has saved before it, the answer is an empty state.
AnsweredIDs(r) ==
  {r} \cup {NoRun : q \in {p \in Publishers : publisher[p].locked /\ Run(p) = r}}

\* /start returned and State.SetActiveRun, with whatever run id it returned.
SetActiveRun(r) ==
  /\ chat.stage = "ready"
  /\ Started(r) /\ r \notin chat.answered
  /\ \E id \in AnsweredIDs(r) :
       chat' = [chat EXCEPT !.run = id, !.cursor = 0, !.stage = "streaming",
                            !.answered = @ \cup {r}]
  /\ UNCHANGED <<brokerVars, pc, target, cursor, conn, told, ctx, from, shown>>

Live(w) == ctx[w].chat /\ ~ctx[w].cancelled

\* Defect: the stream of the run before goes on.
StartStreamBeside(w) ==
  /\ chat.stage = "streaming"
  /\ pc[w] = "idle"
  /\ GoTo(w, "spawned")
  /\ target' = [target EXCEPT ![w] = chat.run]
  /\ ctx' = [ctx EXCEPT ![w] = [chat |-> TRUE, cancelled |-> FALSE]]
  /\ chat' = [chat EXCEPT !.stage = "ready"]
  /\ UNCHANGED <<brokerVars, cursor, conn, told, from, shown>>

\* startStream: the loop of the run before is cancelled and the new one spawned.
StartStream(w) ==
  /\ chat.stage = "streaming"
  /\ pc[w] = "idle"
  /\ GoTo(w, "spawned")
  /\ target' = [target EXCEPT ![w] = chat.run]
  /\ ctx' = [v \in Readers |->
               IF v = w THEN [chat |-> TRUE, cancelled |-> FALSE]
               ELSE [ctx[v] EXCEPT !.cancelled = @ \/ Live(v)]]
  /\ chat' = [chat EXCEPT !.stage = "ready"]
  /\ UNCHANGED <<brokerVars, cursor, conn, told, from, shown>>

\* The chat has an active run, and the loop reads it.
ReadsActive(w) == chat.run # NoRun /\ chat.run = target[w]

\* The loop's goroutine looks where the chat is by now.
ReadActiveRun(w) ==
  /\ pc[w] = "spawned"
  /\ cursor' = [cursor EXCEPT ![w] = IF ReadsActive(w) THEN chat.cursor ELSE 0]
  /\ from' = [from EXCEPT ![w] = cursor'[w]]
  /\ GoTo(w, "opening")
  /\ UNCHANGED <<brokerVars, target, conn, told, ctx, chat, shown>>

\* /quit or the end of the input: stopStream.
Quit ==
  /\ chat.stage = "ready"
  /\ chat' = [chat EXCEPT !.stage = "quit"]
  /\ ctx' = [w \in Readers |-> [ctx[w] EXCEPT !.cancelled = @ \/ Live(w)]]
  /\ UNCHANGED <<brokerVars, pc, target, cursor, conn, told, from, shown>>

\* The events command, with any run and any cursor.
RunEvents(w) ==
  /\ w \in Viewers
  /\ pc[w] = "idle"
  /\ \E r \in Runs, n \in 0..MaxCursor :
       /\ target' = [target EXCEPT ![w] = r]
       /\ cursor' = [cursor EXCEPT ![w] = n]
       /\ from' = [from EXCEPT ![w] = n]
  /\ GoTo(w, "opening")
  /\ UNCHANGED <<brokerVars, conn, told, ctx, chat, shown>>

-----------------------------------------------------------------------------
(***************************************************************************)
(* The request and the stream.                                             *)
(***************************************************************************)

\* Why the request is refused: by handleRunEvents, or, when the run id is empty, by
\* handleRunQuery, to which the request is redirected.
OpenError(w) ==
  IF target[w] \notin saved THEN "not_found" ELSE CursorError(runs[target[w]], cursor[w])

Sends(w, c) ==
  LET events == After(runs[target[w]], c.at)
  IN [c EXCEPT !.wire = @ \o events, !.at = IF events = <<>> THEN @ ELSE Last(events).id]

\* The request of a live loop is answered with the events behind its cursor.
Open(w) ==
  /\ pc[w] = "opening" /\ ~ctx[w].cancelled
  /\ OpenError(w) = ""
  /\ conn' = [conn EXCEPT ![w] = Sends(w, [NoConn EXCEPT !.at = cursor[w]])]
  /\ GoTo(w, "open")
  /\ UNCHANGED <<brokerVars, target, cursor, told, ctx, chat, from, shown>>

OpenRefused(w) ==
  /\ pc[w] = "opening" /\ ~ctx[w].cancelled
  /\ \/ OpenError(w) # "" /\ Ends(w, OpenError(w))
     \/ w \in ConnMayBreak /\ Ends(w, "broken")
  /\ UNCHANGED <<brokerVars, target, cursor, ctx, chat, from, shown>>

\* A request or a pause of a cancelled loop: it returns without a word.
Leave(w) ==
  /\ pc[w] \in {"opening", "pausing"} /\ ctx[w].cancelled
  /\ Ends(w, "")
  /\ UNCHANGED <<brokerVars, target, cursor, ctx, chat, from, shown>>

\* Defect: a tick that the broker refuses is passed over.
PollOn(w) ==
  /\ pc[w] = "open" /\ conn[w].end = ""
  /\ CursorError(runs[target[w]], conn[w].at) = ""
  /\ conn' = [conn EXCEPT ![w] = Sends(w, @)]
  /\ UNCHANGED <<brokerVars, pc, target, cursor, told, ctx, chat, from, shown>>

\* A tick of the handler: the events behind its cursor, or, when the broker refuses the
\* cursor, the end of the stream, without an error in it.
Poll(w) ==
  /\ pc[w] = "open" /\ conn[w].end = ""
  /\ conn' = [conn EXCEPT ![w] =
                IF CursorError(runs[target[w]], @.at) # "" THEN [@ EXCEPT !.end = "eof"]
                                                           ELSE Sends(w, @)]
  /\ UNCHANGED <<brokerVars, pc, target, cursor, told, ctx, chat, from, shown>>

\* The connection breaks, or the loop was cancelled and with it its request: the reader
\* gets some of what was sent and then an error.
Break(w) ==
  /\ pc[w] = "open" /\ conn[w].end # "error"
  /\ w \in ConnMayBreak \/ ctx[w].cancelled
  /\ \E n \in 0..Len(conn[w].wire) :
       conn' = [conn EXCEPT ![w].wire = SubSeq(@, 1, n), ![w].end = "error"]
  /\ UNCHANGED <<brokerVars, pc, target, cursor, told, ctx, chat, from, shown>>

\* Defect: the cursor is advanced whichever run is active.
AdvanceAnyCursor(w, id) == IF ctx[w].chat THEN [chat EXCEPT !.cursor = id] ELSE chat

\* State.AdvanceCursor, which only a loop of the chat calls.
AdvanceCursor(w, id) ==
  IF ctx[w].chat /\ ReadsActive(w) /\ id > chat.cursor
  THEN [chat EXCEPT !.cursor = id] ELSE chat

\* The next frame; one that does not follow the cursor ends the loop.
Read(w) ==
  /\ pc[w] = "open" /\ conn[w].wire # <<>>
  /\ LET frame == Head(conn[w].wire) IN
     IF frame.id <= cursor[w]
     THEN /\ Ends(w, "non_monotonic")
          /\ UNCHANGED <<cursor, chat, shown>>
     ELSE /\ cursor' = [cursor EXCEPT ![w] = frame.id]
          /\ chat' = AdvanceCursor(w, frame.id)
          /\ shown' = [shown EXCEPT ![w] = Append(@, frame.event)]
          /\ conn' = [conn EXCEPT ![w].wire = Tail(@)]
          /\ UNCHANGED <<pc, told>>
  /\ UNCHANGED <<brokerVars, target, ctx, from>>

\* The body is at its end: a stream that ended is opened again after a pause, an error
\* ends the loop.
EndOfStream(w) ==
  /\ pc[w] = "open" /\ conn[w].wire = <<>>
  /\ \/ /\ conn[w].end = "eof"
        /\ GoTo(w, "pausing")
        /\ conn' = [conn EXCEPT ![w] = NoConn]
        /\ UNCHANGED told
     \/ conn[w].end = "error" /\ Ends(w, "broken")
  /\ UNCHANGED <<brokerVars, target, cursor, ctx, chat, from, shown>>

Reopen(w) ==
  /\ pc[w] = "pausing"
  /\ GoTo(w, "opening")
  /\ UNCHANGED <<brokerVars, target, cursor, conn, told, ctx, chat, from, shown>>

Init ==
  /\ BrokerInit
  /\ pc = [w \in Readers |-> "idle"]
  /\ target = [w \in Readers |-> CHOOSE r \in Runs : TRUE]
  /\ cursor = [w \in Readers |-> 0]
  /\ conn = [w \in Readers |-> NoConn]
  /\ told = [w \in Readers |-> ""]
  /\ ctx = [w \in Readers |-> [chat |-> FALSE, cancelled |-> FALSE]]
  /\ chat = [run |-> NoRun, cursor |-> 0, stage |-> "ready", answered |-> {}]
  /\ from = [w \in Readers |-> 0]
  /\ shown = [w \in Readers |-> <<>>]

\* What a loop, its handler and the network do by themselves.
Step(w) ==
  \/ ReadActiveRun(w) \/ Open(w) \/ OpenRefused(w) \/ Leave(w) \/ Poll(w)
  \/ Read(w) \/ EndOfStream(w) \/ Reopen(w) \/ Break(w)

Begin(w) == StartStream(w) \/ RunEvents(w)

\* The commands have ended, and no reader is between two steps of its own.
Quiet ==
  /\ \A p \in Publishers : publisher[p].stage = "done"
  /\ \A w \in Readers : pc[w] \in {"idle", "open", "ended"} /\ conn[w].wire = <<>>
                                                        /\ conn[w].end = ""
  /\ UNCHANGED vars

Next ==
  \/ BrokerNext /\ UNCHANGED readerVars
  \/ \E r \in Runs : SetActiveRun(r)
  \/ \E w \in Readers : Begin(w) \/ Step(w)
  \/ Quit
  \/ Quiet

Spec == Init /\ [][Next]_vars

\* Handlers tick, requests are answered, and a loop reads what it is sent and pauses for
\* a while only.
FairSpec ==
  Spec /\ \A w \in Readers :
    /\ WF_vars(ReadActiveRun(w)) /\ WF_vars(Open(w)) /\ WF_vars(OpenRefused(w))
    /\ WF_vars(Leave(w)) /\ WF_vars(Poll(w)) /\ WF_vars(Read(w))
    /\ WF_vars(EndOfStream(w)) /\ WF_vars(Reopen(w))

-----------------------------------------------------------------------------
(***************************************************************************)
(* Properties.                                                             *)
(***************************************************************************)

\* A cancelled chat loop and the next one may both still print, but only one is live, and
\* it is that of the active run once the stream was started.
OneLiveLoop ==
  \A v, w \in Readers :
    /\ Live(v) /\ Live(w) => v = w
    /\ Live(w) /\ chat.stage = "ready" => target[w] = chat.run

\* The chat's cursor is the last event its loop of the active run has shown, whatever the
\* loop of the run before still reads.
CursorIsShown ==
  LET loops == {w \in Readers : ctx[w].chat /\ target[w] = chat.run} IN
  /\ loops = {} => chat.cursor = 0
  /\ \A w \in loops : chat.cursor = from[w] + Len(shown[w])

\* A loop that was not cancelled never ends without a word; it says that its cursor
\* expired only if the next event is lost to it, and the chat's never hold a cursor the
\* server does not know, nor a run, but for the empty id of a start that was overtaken.
EndsAreTold ==
  \A w \in Readers : pc[w] = "ended" =>
    /\ told[w] # "non_monotonic"
    /\ told[w] = "" => ctx[w].cancelled
    /\ told[w] = "expired" => cursor[w] + 1 < Head(runs[target[w]].events).id
    /\ ctx[w].chat => told[w] # "invalid" /\ (told[w] = "not_found" => target[w] = NoRun)

\* A reader that restarts from cursor 0 is let in (client README.md:138).
ZeroCursorOpens ==
  \A w \in Readers : cursor[w] = 0 => told[w] # "expired"

AtWork(w) == pc[w] \notin {"idle", "spawned", "ended"}

Reading(w) == AtWork(w) /\ target[w] # NoRun

\* Readers are shown their run's events from their cursor on, each once and in order.
LogOf == INSTANCE EventLog WITH
  log <- streamed,
  reading <- [w \in Readers |-> Reading(w)],
  place <- [w \in Readers |->
              IF pc[w] \in {"idle", "spawned"} \/ target[w] = NoRun
              THEN [run |-> CHOOSE r \in Runs : TRUE, after |-> 0]
              ELSE [run |-> target[w], after |-> from[w]]],
  seen <- shown

IsEventLog == LogOf!Spec

\* A reader catches up with its run again and again, unless its loop ends; the loop of an
\* empty run id does.
ReadersCatchUp ==
  \A w \in Readers :
    []<>(AtWork(w) => Reading(w) /\ from[w] + Len(shown[w]) >= Len(streamed[target[w]]))

-----------------------------------------------------------------------------
(***************************************************************************)
(* The inductive invariant behind them.                                    *)
(***************************************************************************)

Reasons == {"", "not_found", "invalid", "expired", "broken", "non_monotonic"}

ReadersTypeOK ==
  /\ pc \in [Readers -> {"idle", "spawned", "opening", "open", "pausing", "ended"}]
  /\ target \in [Readers -> Runs \cup {NoRun}]
  /\ cursor \in [Readers -> Nat] /\ from \in [Readers -> Nat]
  /\ conn \in [Readers -> [at : Nat, wire : Seq(StreamEventType), end : {"", "eof", "error"}]]
  /\ told \in [Readers -> Reasons]
  /\ ctx \in [Readers -> [chat : BOOLEAN, cancelled : BOOLEAN]]
  /\ chat \in [run : Runs \cup {NoRun}, cursor : Nat, stage : {"ready", "streaming", "quit"},
               answered : SUBSET Runs]
  /\ shown \in [Readers -> Seq(Events)]

\* A reader begins with nothing shown, and its cursor is the last event it has shown; only
\* a loop of the chat has no run, and it shows nothing.
CursorsOK ==
  \A w \in Readers :
    /\ pc[w] = "idle" => ctx[w] = [chat |-> FALSE, cancelled |-> FALSE]
    /\ pc[w] = "spawned" => ctx[w].chat
    /\ pc[w] \in {"idle", "spawned"} => from[w] = 0 /\ shown[w] = <<>>
    /\ cursor[w] = from[w] + Len(shown[w])
    /\ target[w] = NoRun =>
         ctx[w].chat /\ cursor[w] = 0 /\ pc[w] \in {"spawned", "opening", "ended"}

\* On the wire are the events that follow the cursor; the handler is as far as they go.
WiresOK ==
  \A w \in Readers : pc[w] = "open" =>
    LET log == streamed[target[w]]
        c == conn[w]
    IN /\ cursor[w] + Len(c.wire) <= Len(log)
       /\ \A i \in DOMAIN c.wire : c.wire[i] = StreamEvent(cursor[w] + i, log[cursor[w] + i])
       /\ c.end # "error" => c.at = cursor[w] + Len(c.wire)

\* The chat reads runs whose starts were answered, each with one loop, and not beyond what
\* was streamed.
ChatOK ==
  /\ chat.answered \subseteq saved
  /\ \A w \in Readers : ctx[w].chat /\ target[w] # NoRun =>
       /\ target[w] \in chat.answered
       /\ cursor[w] <= Len(streamed[target[w]])
       /\ \A v \in Readers : ctx[v].chat /\ target[v] = target[w] => v = w
  /\ chat.stage = "streaming" =>
       /\ chat.run \in chat.answered \cup {NoRun}
       /\ chat.cursor = 0
       /\ \A w \in Readers : ctx[w].chat /\ target[w] = chat.run => chat.run = NoRun

\* Why a loop ended, in terms of the events that were streamed.
EndsOK ==
  \A w \in Readers : pc[w] = "ended" =>
    /\ told[w] # "non_monotonic"
    /\ told[w] = "" => ctx[w].cancelled
    /\ told[w] = "expired" =>
         target[w] # NoRun /\ cursor[w] + HistoryLimit < Len(streamed[target[w]])
    /\ ctx[w].chat => told[w] # "invalid" /\ (told[w] = "not_found" => target[w] = NoRun)

ReadersInv ==
  /\ ReadersTypeOK /\ CursorsOK /\ WiresOK /\ ChatOK /\ EndsOK
  /\ OneLiveLoop /\ CursorIsShown

StreamInv == BrokerInv /\ ReadersInv
=============================================================================
