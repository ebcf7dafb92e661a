----------------------------- MODULE AtomicRuns -----------------------------
(***************************************************************************)
(* What agent.Runner promises about the runs it stores: commands take      *)
(* effect one at a time.  A command is admitted by the state it finds,     *)
(* lets the engine work on it or edits it, and stores the result, all in   *)
(* one step, and at most once; a start takes two steps, the first of which *)
(* makes the run visible.  There are no locks, no versions to lose a race  *)
(* for, no contexts and no events.                                         *)
(***************************************************************************)
EXTENDS CommandRules

VARIABLES store,  \* run -> its stored state, of version 0 while there is none
          writers \* run -> the commands that wrote its versions, in order

Writes(c, st) ==
  /\ ValidRunState(st)
  /\ store' = [store EXCEPT ![run(c)] = Stored(st)]

\* The engine works on st and returns a state of the same run that extends it.
Executed(c, st, s, q) ==
  \E done \in BOOLEAN : \E out \in EngineOutcomes(c, st, s, q, done) :
    ValidEngineOutput(st, out.state) /\ Writes(c, out.state)

Create(c) ==
  /\ "start" \in KindsOf[c]
  /\ writers[run(c)] = <<>>
  /\ Writes(c, StartState(c))

\* A start executes the run it created, as long as nobody else has touched it.
Start(c) ==
  /\ "start" \in KindsOf[c]
  /\ writers[run(c)] = <<c>>
  /\ Executed(c, store[run(c)], NoResolution, NoRequirement)

\* c finds a run that admits a command of kind k, and has not written it yet.
Admitted(c, k, s) ==
  /\ k \in KindsOf[c]
  /\ writers[run(c)] # <<>> /\ c \notin ToSet(writers[run(c)])
  /\ GateError(k, store[run(c)], s) = ""

Continue(c) ==
  \E s \in Resolutions :
    LET st == store[run(c)] IN
    /\ Admitted(c, "continue", s)
    /\ Executed(c, Resumed(st), s, st.requirement)

FollowUp(c) ==
  /\ Admitted(c, "follow_up", NoResolution)
  /\ Executed(c, Instructed(c, store[run(c)]), NoResolution, NoRequirement)

Cancel(c) ==
  /\ Admitted(c, "cancel", NoResolution)
  /\ Writes(c, Cancelled(store[run(c)]))

Steer(c) ==
  /\ Admitted(c, "steer", NoResolution)
  /\ Writes(c, Instructed(c, store[run(c)]))

Init ==
  /\ store = [r \in Runs |-> NoRun(r)]
  /\ writers = [r \in Runs |-> <<>>]

\* One command takes effect.
Next ==
  \E c \in Cmds :
    /\ writers' = [writers EXCEPT ![run(c)] = Append(@, c)]
    /\ Create(c) \/ Start(c) \/ Continue(c) \/ FollowUp(c) \/ Cancel(c) \/ Steer(c)

Spec == Init /\ [][Next]_<<store, writers>>
=============================================================================
