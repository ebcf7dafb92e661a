----------------------------- MODULE RetryLoop ------------------------------
(***************************************************************************)
(* retry.WrapEngine (policy/retry/retry.go) around the React loop: the     *)
(* runner calls the wrapper, which lets the loop work on the same state    *)
(* again when it came back with an error.  What an attempt that failed has *)
(* published and carried out stays.                                        *)
(*                                                                         *)
(* The errors of an execution are those of the loop: every status but      *)
(* completed and suspended comes with one, and so does an event the sink   *)
(* refused.  ShouldRetry is the default, which retries all but the errors  *)
(* of a context, and those are the ones a run is cancelled with.           *)
(*                                                                         *)
(* DeniedCallsAreApproved of ReactLoop must hold here too: an approval is  *)
(* spent by one attempt or, as the wrapper is written, by none.            *)
(***************************************************************************)
EXTENDS ReactLoop

CONSTANT MaxAttempts

ASSUME AttemptsAssumption == MaxAttempts \in Nat

VARIABLE attempt \* the attempt under way or just over, 0 outside the wrapper

retryVars == <<vars, attempt>>

\* Defect: the resolution reaches every attempt.
AttemptInputWhole == input

\* The wrapper hands on the budget and the tools only; the override is in the context.
AttemptInput == [input EXCEPT !.resolution = NoResolution, !.resolved = NoRequirement]

\* normalizedAttempts
Attempts == IF MaxAttempts < 1 THEN 1 ELSE MaxAttempts

\* The wrapper is called, and hands a copy of the run to the loop.
Begin ==
  /\ pc = "entering" /\ attempt = 0 /\ ~ctxDone
  /\ input' = AttemptInput
  /\ attempt' = 1
  /\ UNCHANGED <<run, given, pc, calls, ctxDone, events, refused, Aux>>

\* Its context is done already: the run comes back as it was.
CallTooLate ==
  /\ pc = "entering" /\ attempt = 0 /\ ctxDone
  /\ pc' = "between"
  /\ UNCHANGED <<run, given, input, calls, ctxDone, events, refused, Aux, attempt>>

Failed == run.status \notin {"completed", "suspended"} \/ refused

ShouldRetry == ~ctxDone /\ run.status # "cancelled"

Over == pc = "between" /\ attempt > 0

\* Defect: the attempts are not counted.
AgainUncounted ==
  /\ Over
  /\ Failed /\ attempt < Attempts /\ ShouldRetry
  /\ run' = given
  /\ pc' = "entering"
  /\ events' = <<>> /\ refused' = FALSE
  /\ UNCHANGED <<given, input, calls, ctxDone, Aux, attempt>>

\* The next attempt, from the state the wrapper was given.
Again ==
  /\ Over
  /\ Failed /\ attempt < Attempts /\ ShouldRetry
  /\ attempt' = attempt + 1
  /\ run' = given
  /\ pc' = "entering"
  /\ events' = <<>> /\ refused' = FALSE
  /\ UNCHANGED <<given, input, calls, ctxDone, Aux>>

\* The wrapper returns what the last attempt returned.
Hand ==
  /\ Over
  /\ ~(Failed /\ attempt < Attempts /\ ShouldRetry)
  /\ attempt' = 0
  /\ UNCHANGED vars

\* The context ends before the wrapper looks at it again.
EndContextBetween ==
  /\ Over /\ CtxMayEnd /\ ~ctxDone
  /\ ctxDone' = TRUE
  /\ UNCHANGED <<run, given, input, pc, calls, events, refused, Aux, attempt>>

RetryInit == Init /\ attempt = 0

WrapperStep == Begin \/ CallTooLate \/ Again \/ Hand

RetryNext ==
  \/ attempt = 0 /\ (Carry \/ Resume \/ Quiet) /\ UNCHANGED attempt
  \/ attempt > 0 /\ LoopStep /\ UNCHANGED attempt
  \/ EndContext /\ UNCHANGED attempt
  \/ EndContextBetween
  \/ WrapperStep

RetrySpec == RetryInit /\ [][RetryNext]_retryVars

\* The model, the tools and the loop go on; nobody need call the wrapper again.
FairRetrySpec ==
  RetrySpec /\ WF_retryVars(WrapperStep \/ (attempt > 0 /\ LoopStep /\ UNCHANGED attempt))

-----------------------------------------------------------------------------
\* An Execute call under the wrapper returns: the budget bounds an attempt and
\* MaxAttempts the attempts, whatever fails (policy/retry/retry.go:48).
ExecuteReturns == pc = "entering" ~> pc = "between" /\ attempt = 0
=============================================================================
