------------------------------ MODULE Session -------------------------------
(***************************************************************************)
(* Clients, the HTTP API, the runs behind it and the server process: a     *)
(* chat and other clients (client/internal) look at a run, send commands   *)
(* over HTTP, wait or give up; handlers judge a request, dispatch it and   *)
(* answer; the process may be told to stop at any moment.                  *)
(*                                                                         *)
(* The runner is the one of AtomicRuns, which Runner implements: a command *)
(* that is not a start holds the run's lock from Take on, and what it has  *)
(* made is kept if nobody wrote the run since.  A user keeps the id and    *)
(* the kind a prompt offers.                                               *)
(***************************************************************************)
EXTENDS AtomicRuns, CommandAPI, ServerProcess

CONSTANTS Clients, Chat, \* the clients, one of which is the chat
          Turns,         \* client -> the commands it may send, in order
          Forms,         \* the forms requests come in
          Nobody

ASSUME ClientsAssumption ==
  /\ Chat \in Clients
  /\ Turns \in [Clients -> Seq(Cmds)]
  /\ Forms \subseteq FormType
  /\ Nobody \notin Cmds

VARIABLES call,   \* command -> its request and what became of it
          doing,  \* client -> the command it waits for
          seen,   \* client -> the requirement it was shown last, and when
          chat,   \* "idle", "prompting" for a resolution, or "continuing"
          active  \* the chat has an active run

runs == <<store, writers>>
views == <<seen, chat, active>>
sessionVars == <<runs, process, call, doing, views>>

\* The requirement of a run's version, which a client is shown.
Showing(r, version, q) ==
  IF q = NoRequirement THEN [run |-> "", version |-> 0, requirement |-> NoRequirement]
  ELSE [run |-> r, version |-> version, requirement |-> q]

Unshown == Showing("", 0, NoRequirement)

\* base is the version a command works on; status, version and requirement are the
\* answer's, and lost says that another write came first.
Unsent ==
  [kind |-> "", form |-> <<>>, asks |-> NoResolution, shown |-> Unshown,
   at |-> "unsent", base |-> 0, ended |-> "",
   status |-> 0, lost |-> FALSE, version |-> 0, requirement |-> NoRequirement]

kind(c) == call[c].kind
at(c) == call[c].at
Current(c) == store[run(c)]

-----------------------------------------------------------------------------
(***************************************************************************)
(* Clients send.                                                           *)
(***************************************************************************)

\* c is the next command client w has not sent.
NextTurn(w, c) ==
  \E i \in DOMAIN Turns[w] :
    /\ Turns[w][i] = c /\ at(c) = "unsent"
    /\ \A j \in 1..(i - 1) : at(Turns[w][j]) # "unsent"

\* doRaw: the request of client w's next command is on its way.
Send(w, k, s) ==
  /\ Serving /\ doing[w] = Nobody
  /\ \E c \in Cmds, form \in Forms :
       /\ NextTurn(w, c) /\ k \in KindsOf[c]
       /\ call' = [call EXCEPT ![c] =
                     [Unsent EXCEPT !.kind = k, !.form = form, !.at = "sent", !.asks = s,
                                    !.shown = IF s = NoResolution THEN @ ELSE seen[w]]]
       /\ doing' = [doing EXCEPT ![w] = c]
  /\ UNCHANGED <<runs, process>>

\* What a prompt makes of the requirement it shows.
Replies(q) == {s \in Resolutions : s.req = q.id /\ s.kind = q.kind}

\* A GET of the run by client w.  Bound: nobody looks who has sent all its commands.
Look(w, r) ==
  /\ Serving /\ doing[w] = Nobody /\ writers[r] # <<>>
  /\ \E c \in Cmds : NextTurn(w, c)
  /\ seen' = [seen EXCEPT ![w] = Showing(r, store[r].version, store[r].requirement)]
  /\ UNCHANGED <<runs, process, call, doing, active>>

\* Any other client: the status of a run is shown, a command is typed.
CliLook(w, r) == w # Chat /\ Look(w, r) /\ seen' # seen /\ UNCHANGED chat

CliCommand(w, k) ==
  /\ w # Chat
  /\ \E s \in {NoResolution} \cup (IF k = "continue" THEN Replies(seen[w].requirement) ELSE {}) :
       Send(w, k, s)
  /\ UNCHANGED views

ChatStart ==
  /\ chat = "idle"
  /\ Send(Chat, "start", NoResolution)
  /\ UNCHANGED views

\* continueRun looks at the run first, and has the user asked when it is suspended.
ChatContinue(r) ==
  /\ chat = "idle" /\ active
  /\ Look(Chat, r)
  /\ chat' = IF store[r].status = "suspended" THEN "prompting" ELSE "continuing"

ChatResolve ==
  /\ chat = "prompting"
  /\ \E s \in Replies(seen[Chat].requirement) : Send(Chat, "continue", s)
  /\ chat' = "idle" /\ seen' = [seen EXCEPT ![Chat] = Unshown]
  /\ UNCHANGED active

ChatResume ==
  /\ chat = "continuing"
  /\ Send(Chat, "continue", NoResolution)
  /\ chat' = "idle"
  /\ UNCHANGED <<seen, active>>

\* /steer, /cancel and text, which is a follow-up.
ChatInstruct(k) ==
  /\ chat = "idle" /\ active /\ k \in {"steer", "cancel", "follow_up"}
  /\ Send(Chat, k, NoResolution)
  /\ UNCHANGED views

-----------------------------------------------------------------------------
(***************************************************************************)
(* Handlers.                                                               *)
(***************************************************************************)

Closed == [Unsent EXCEPT !.at = "closed"]

\* Only what the answer says is kept of the request, if somebody still waits for it.
Respond(c, errs, st) ==
  LET status == AnswerStatus(kind(c), errs)
      answer == [Unsent EXCEPT
                   !.kind = kind(c), !.at = "answered", !.status = status,
                   !.lost = "command_conflict" \in errs,
                   !.version = IF status = 200 THEN st.version ELSE 0,
                   !.requirement = IF status = 200 THEN st.requirement ELSE @]
  IN call' = [call EXCEPT ![c] = IF @.ended = "gone" THEN Closed ELSE answer]

Empty(c) == NoRun(run(c))

\* A run's lock is held by a command at work that is not a start.
Locked(r) ==
  \E d \in Cmds : at(d) = "working" /\ kind(d) # "start" /\ run(d) = r

\* What a context that ended reports.
ContextError(c) == IF call[c].ended = "timeout" THEN "deadline_exceeded" ELSE "canceled"

Formed(c) == FormError(kind(c), call[c].form) = ""

\* Why a request is not taken up, "" when it is.
Refusal(c) ==
  LET exists == writers[run(c)] # <<>> IN
  CASE ~Formed(c) -> FormError(kind(c), call[c].form)
    [] Formed(c) /\ kind(c) = "start" -> IF exists THEN "command_conflict" ELSE ""
    [] OTHER -> IF exists THEN GateError(kind(c), Current(c), call[c].asks)
                          ELSE "run_not_found"

\* A request that was judged waits for the lock of its run, whatever its context does.
Queued(c) ==
  /\ at(c) = "sent"
  /\ kind(c) = "start" \/ ~Formed(c) \/ ~Locked(run(c))

\* A context that ends between sideEffectContext and the store stops a command, too.
Reasons(c) ==
  (IF Refusal(c) = "" THEN {} ELSE {Refusal(c)})
  \cup (IF Formed(c) /\ call[c].ended # "" THEN {ContextError(c)} ELSE {})

Refuse(c) ==
  /\ Queued(c)
  /\ \E e \in Reasons(c) : Respond(c, {e}, Empty(c))
  /\ UNCHANGED <<runs, process, doing, views>>

\* A start creates its run, any other command loads the one it names.
Take(c) ==
  /\ Queued(c) /\ Refusal(c) = ""
  /\ IF kind(c) = "start"
     THEN Create(c) /\ writers' = [writers EXCEPT ![run(c)] = Append(@, c)]
     ELSE UNCHANGED runs
  /\ call' = [call EXCEPT ![c].at = "working", ![c].base = store'[run(c)].version,
                         ![c].form = <<>>]
  /\ UNCHANGED <<process, doing, views>>

\* The errors an execution comes back with.  A model's own timeout is a failure that
\* reports a deadline.
RunErrors(c, status) ==
  CASE ~(kind(c) \in Executing) \/ status \in {"completed", "suspended"} -> {{}}
    [] kind(c) \in Executing /\ status = "failed" ->
         {{"failure"}, {"run_state_invalid"}, {"deadline_exceeded"}}
    [] kind(c) \in Executing /\ status = "cancelled" ->
         IF call[c].ended = "" THEN {} ELSE {{ContextError(c)}}
    [] OTHER -> {{"max_steps"}}

\* The sink refuses an event only because the context has ended.
EventErrors(c) ==
  {{}} \cup (IF call[c].ended = "" THEN {} ELSE {{"event_publish", ContextError(c)}})

Effect(c) ==
  LET st == Current(c) IN
  CASE kind(c) = "start"     -> Start(c)
    [] kind(c) = "continue"  -> Executed(c, Resumed(st), call[c].asks, st.requirement)
    [] kind(c) = "follow_up" -> Executed(c, Instructed(c, st), NoResolution, NoRequirement)
    [] kind(c) = "cancel"    -> Writes(c, Cancelled(st))
    [] OTHER                 -> Writes(c, Instructed(c, st))

Fresh(c) == Current(c).version = call[c].base

\* What the command made of the run is kept, and it is answered.
Finish(c) ==
  /\ at(c) = "working" /\ Fresh(c)
  /\ Effect(c)
  /\ writers' = [writers EXCEPT ![run(c)] = Append(@, c)]
  /\ \E errs \in RunErrors(c, store'[run(c)].status), refused \in EventErrors(c) :
       Respond(c, errs \cup refused, store'[run(c)])
  /\ UNCHANGED <<process, doing, views>>

\* It is not: the run was written meanwhile, or the context ended just before the save
\* and the store looks at it again.  The answer's state is the empty one.
Lose(c) ==
  /\ at(c) = "working"
  /\ \E why \in {{"command_conflict", "version_conflict"}, {ContextError(c)}},
       status \in {"completed", "suspended", "failed", "cancelled", "max_steps_exceeded"} :
       /\ IF ContextError(c) \in why THEN call[c].ended # "" ELSE ~Fresh(c)
       /\ \E errs \in RunErrors(c, status), refused \in EventErrors(c) :
            Respond(c, errs \cup refused \cup why, Empty(c))
  /\ UNCHANGED <<runs, process, doing, views>>

\* The policy's RequestTimeout passes.
TimeOut(c) ==
  /\ at(c) \in {"sent", "working"} /\ call[c].ended = ""
  /\ call' = [call EXCEPT ![c].ended = "timeout"]
  /\ UNCHANGED <<runs, process, doing, views>>

-----------------------------------------------------------------------------
(***************************************************************************)
(* Answers, and clients that do not wait for them.                         *)
(***************************************************************************)

\* A state is shown; the chat takes the run of an answered start for its active one, and
\* looks again before it prompts.
Receive(w) ==
  LET c == doing[w] IN
  /\ c # Nobody /\ at(c) = "answered"
  /\ doing' = [doing EXCEPT ![w] = Nobody]
  /\ seen' = IF w # Chat /\ call[c].status = 200
             THEN [seen EXCEPT ![w] = Showing(run(c), call[c].version, call[c].requirement)]
             ELSE seen
  /\ active' = IF w = Chat /\ kind(c) = "start" /\ call[c].status = 200
               THEN call[c].version > 0 ELSE active
  /\ call' = [call EXCEPT ![c] = Closed]
  /\ UNCHANGED <<runs, process, chat>>

\* A handler sees its context end, an answer is lost.
Abandoned(c) ==
  CASE at(c) = "answered" -> Closed
    [] at(c) \in {"sent", "working"} /\ call[c].ended = "" -> [call[c] EXCEPT !.ended = "gone"]
    [] OTHER -> call[c]

\* The client's own timeout passes, or its user leaves: the connection is closed.
GiveUp(w) ==
  /\ doing[w] # Nobody
  /\ call' = [call EXCEPT ![doing[w]] = Abandoned(doing[w])]
  /\ doing' = [doing EXCEPT ![w] = Nobody]
  /\ UNCHANGED <<runs, process, views>>

-----------------------------------------------------------------------------
(***************************************************************************)
(* The process.                                                            *)
(***************************************************************************)

InFlight(c) == at(c) \in {"sent", "working"}

\* A stream that is open keeps the drain from ending; nothing here forces one to end.
DrainedIdle ==
  /\ Drained
  /\ \A c \in Cmds : ~InFlight(c)
  /\ UNCHANGED <<runs, call, doing, views>>

\* server.Close cuts every connection; nobody waits for the handlers.
ForceClose ==
  /\ Deadline
  /\ call' = [c \in Cmds |-> Abandoned(c)]
  /\ doing' = [w \in Clients |-> Nobody]
  /\ UNCHANGED <<runs, views>>

\* Nothing is persisted: the runs go with the process, and so do the requests.
ExitWithAll ==
  /\ Exit \/ ServerExited
  /\ store' = [r \in Runs |-> NoRun(r)] /\ writers' = [r \in Runs |-> <<>>]
  /\ call' = [c \in Cmds |-> Closed]
  /\ doing' = [w \in Clients |-> Nobody]
  /\ seen' = [w \in Clients |-> Unshown]
  /\ chat' = "idle" /\ active' = FALSE

ProcessStep ==
  \/ DrainedIdle \/ ForceClose \/ ExitWithAll
  \/ /\ SetReady \/ Listen \/ ListenFails \/ BeginDrain
     /\ UNCHANGED <<runs, call, doing, views>>

\* A signal comes, or the listener breaks: neither need happen.
Outside == (Signal \/ ServeFails) /\ UNCHANGED <<runs, call, doing, views>>

-----------------------------------------------------------------------------
SessionInit ==
  /\ Init /\ ProcessInit
  /\ call = [c \in Cmds |-> Unsent]
  /\ doing = [w \in Clients |-> Nobody]
  /\ seen = [w \in Clients |-> Unshown]
  /\ chat = "idle" /\ active = FALSE

ClientStep ==
  \/ ChatStart \/ ChatResume \/ ChatResolve
  \/ \E r \in Runs : ChatContinue(r)
  \/ \E k \in CommandKinds : ChatInstruct(k)
  \/ \E w \in Clients : (\E r \in Runs : CliLook(w, r)) \/ Receive(w) \/ GiveUp(w)
  \/ \E w \in Clients, k \in CommandKinds : CliCommand(w, k)

Handle == \E c \in Cmds : Refuse(c) \/ Take(c) \/ Finish(c) \/ Lose(c) \/ TimeOut(c)

SessionNext == ClientStep \/ (main # "exited" /\ Handle) \/ ProcessStep \/ Outside

\* The goroutines of the process run and the shutdown timeout passes; nobody need
\* send, answer or leave.
SessionSpec == SessionInit /\ [][SessionNext]_sessionVars /\ WF_sessionVars(ProcessStep)

-----------------------------------------------------------------------------
(***************************************************************************)
(* Properties.                                                             *)
(***************************************************************************)

\* A client can believe an answer's status (httpapi/response.go:129): 200 means that
\* its command wrote the version it was shown, 401, 403, 404, 413 and 429 that it wrote
\* nothing, and 409 that it wrote nothing or created the run it could not finish.  200
\* with an empty state is what LostRaceIsConflict is about; 400, 408 and 500 say nothing.
AnswersAreTrue ==
  \A c \in Cmds : at(c) = "answered" =>
    LET wrote == {i \in DOMAIN writers[run(c)] : writers[run(c)][i] = c} IN
    /\ call[c].status = 200 => call[c].version \in wrote \cup {0}
    /\ call[c].status \in {401, 403, 404, 413, 429} => wrote = {}
    /\ call[c].status = 409 => wrote \subseteq (IF kind(c) = "start" THEN {1} ELSE {})

\* A command that could not be persisted because another one wrote its run is told
\* that there was a conflict (agent/errors.go:32, httpapi/response.go:143).
LostRaceIsConflict ==
  \A c \in Cmds : at(c) = "answered" /\ call[c].lost => call[c].status = 409

\* What q releases goes by the id and the kind of what was shown, and is that very
\* requirement unless the run was written since, or it was another run's.
IsWhatWasShown(r, q, shown) ==
  /\ q.id = shown.requirement.id /\ q.kind = shown.requirement.kind
  /\ \/ q = shown.requirement
     \/ r = shown.run /\ shown.version < store[r].version
     \/ r # shown.run

\* An approval releases the requirement its sender was shown and no other, whoever
\* resolved and suspended the run meanwhile (client/internal/cmd/cmd_chat.go:101),
\* unless the run was suspended again under the same id and kind: they are all that the
\* runner compares, and the id is made of a call id the model chose (toolset/bash.go:31).
ApprovalIsForWhatWasShown ==
  [][\A c \in Cmds :
       /\ call[c].asks.outcome = "approved"
       /\ writers'[run(c)] = Append(writers[run(c)], c)
       => IsWhatWasShown(run(c), Current(c).requirement, call[c].shown)]_sessionVars

\* A server that was told to stop and did in time has answered every request it took,
\* takes no more, and what it still says of its readiness nobody can ask
\* (internal/app/app.go:76), however late Start comes or the listener breaks.
StopsCleanly ==
  main \in {"waiting", "exited"} =>
    /\ ~cut => \A c \in Cmds : ~InFlight(c)
    /\ ~Serving

\* A server that is told to stop exits, with streams open and commands at work
\* (cmd/server/main.go:45, internal/app/app.go:82).
ServerStops == main = "told" ~> main = "exited"

-----------------------------------------------------------------------------
(***************************************************************************)
(* The inductive invariant behind them.                                    *)
(***************************************************************************)

ShownType == [run : Runs \cup {""}, version : Nat, requirement : RequirementType]

CallType ==
  [kind : CommandKinds \cup {""}, form : Forms \cup {<<>>},
   asks : Resolutions \cup {NoResolution}, shown : ShownType,
   at : {"unsent", "sent", "working", "answered", "closed"}, base : Nat,
   ended : {"", "timeout", "gone"}, status : Nat, lost : BOOLEAN, version : Nat,
   requirement : RequirementType]

SessionTypeOK ==
  /\ store \in [Runs -> StateType]
  /\ writers \in [Runs -> Seq(Cmds)]
  /\ main \in {"running", "told", "draining", "waiting", "exited"}
  /\ starter \in {"spawned", "ready", "serving", "broken", "closed", "failed"}
  /\ ready \in BOOLEAN /\ cut \in BOOLEAN
  /\ call \in [Cmds -> CallType]
  /\ doing \in [Clients -> Cmds \cup {Nobody}]
  /\ seen \in [Clients -> ShownType]
  /\ chat \in {"idle", "prompting", "continuing"} /\ active \in BOOLEAN

\* Each version has its writer.
VersionsOK == \A r \in Runs : Len(writers[r]) = store[r].version

\* Only a continue resolves, and what its sender was shown.
AsksOK ==
  \A c \in Cmds : call[c].asks # NoResolution =>
    /\ kind(c) = "continue"
    /\ call[c].asks.req = call[c].shown.requirement.id
    /\ call[c].asks.kind = call[c].shown.requirement.kind

\* The versions that c wrote.
Wrote(c) == {i \in DOMAIN writers[run(c)] : writers[run(c)][i] = c}

\* Before its answer a command has written nothing, but for the run a start creates;
\* while nobody has written since, the state it works on admits it.
WorkOK ==
  \A c \in Cmds :
    /\ at(c) \in {"unsent", "sent"} => Wrote(c) = {}
    /\ at(c) = "working" =>
         /\ Wrote(c) = IF kind(c) = "start" THEN {1} ELSE {}
         /\ call[c].base <= Current(c).version
         /\ kind(c) # "start" /\ Fresh(c) =>
              GateError(kind(c), Current(c), call[c].asks) = ""

\* Nobody listens once the drain has begun, and nothing is in flight behind it.
ProcessOK ==
  /\ Serving => main \in {"running", "told"}
  /\ main \in {"waiting", "exited"} => cut \/ \A c \in Cmds : ~InFlight(c)

SessionInv ==
  /\ SessionTypeOK /\ VersionsOK /\ AsksOK /\ WorkOK /\ ProcessOK /\ AnswersAreTrue
=============================================================================
