----------------------------- MODULE EngineCall -----------------------------
(***************************************************************************)
(* What the runner may rely on when it calls an engine (agent/engine.go    *)
(* and validateEngineOutput in agent/runner.go): a run is handed over,     *)
(* extended but not suspended, and comes back as a state the runner        *)
(* accepts, in a status that ends an execution.                            *)
(***************************************************************************)
EXTENDS EngineContract

VARIABLES state,  \* the run, as it was last handed over or returned
          calling \* Execute is running

callVars == <<state, calling>>

Returned == Terminal \cup {"suspended", "max_steps_exceeded"}

Init ==
  /\ ValidRunState(state)
  /\ state.status = "pending"
  /\ ~calling

\* dispatchStart, dispatchContinue and dispatchFollowUp up to their Execute.
Begin ==
  /\ ~calling
  /\ state.status \notin Terminal
  /\ calling'
  /\ state'.id = state.id
  /\ state'.step = state.step
  /\ IsPrefix(state.messages, state'.messages)
  /\ ValidRunState(state')
  /\ state'.status \notin Terminal \cup {"suspended"}

Return ==
  /\ calling
  /\ ~calling'
  /\ ValidEngineOutput(state, state')
  /\ ValidRunState(state')
  /\ state'.version = state.version
  /\ state'.status \in Returned

Next == Begin \/ Return

Spec == Init /\ [][Next]_callVars
=============================================================================
