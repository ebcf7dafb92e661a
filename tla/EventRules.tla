----------------------------- MODULE EventRules -----------------------------
(***************************************************************************)
(* agent.Event and ValidateEvent (agent/event.go, event_validation.go):    *)
(* what an event of each type carries, checked before it reaches a sink.   *)
(***************************************************************************)
EXTENDS Integers

EventTypes ==
  {"command_applied", "run_started", "assistant_message", "tool_result", "run_completed",
   "run_failed", "run_suspended", "run_cancelled", "run_checkpoint"}

\* The identity of a tool's result; no result is the blank one.
Result(call, name) == [there |-> TRUE, call |-> call, name |-> name]

NoResult == [there |-> FALSE, call |-> "", name |-> ""]

Event(r, step, type) ==
  [run |-> r, step |-> step, type |-> type, command |-> "", message |-> FALSE,
   result |-> NoResult]

\* ValidateEvent
ValidEvent(e) ==
  /\ e.type \in EventTypes
  /\ e.run # "" /\ e.step >= 0
  /\ (e.command # "") <=> (e.type = "command_applied")
  /\ e.message <=> (e.type = "assistant_message")
  /\ e.result.there <=> (e.type = "tool_result")
  /\ e.result.there => e.result.call # "" /\ e.result.name # ""
=============================================================================
