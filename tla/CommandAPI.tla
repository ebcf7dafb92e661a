----------------------------- MODULE CommandAPI -----------------------------
(***************************************************************************)
(* What the HTTP layer of the coding-agent server makes of a command       *)
(* request before the runner sees it, and of the runner's errors after     *)
(* (httpapi/handlers_run_command.go, httpapi/response.go, policyauth,      *)
(* policylimit).                                                           *)
(*                                                                         *)
(* A request's form is what the middlewares and the decoding look at: its  *)
(* token, what is wrong with its body ("" for nothing), and its max_steps. *)
(* An error is the set of the sentinels errors.Is finds in it.             *)
(***************************************************************************)
EXTENDS Integers, FiniteSetsExt

CONSTANT CommandStepsLimit \* the policy's MaxCommandSteps, as configured

ASSUME CommandStepsAssumption == CommandStepsLimit \in Int

\* A max_steps that is left out, as the client's flag has it.
NoSteps == -1

DefaultMaxCommandSteps == 8

FormType ==
  [authorized : BOOLEAN,
   body : {"", "request_too_large", "invalid_request"},
   steps : {n \in Int : n >= NoSteps}]

\* The commands that let the engine work.
Executing == {"start", "continue", "follow_up"}

-----------------------------------------------------------------------------
MaxCommandSteps ==
  IF CommandStepsLimit <= 0 THEN DefaultMaxCommandSteps ELSE CommandStepsLimit

\* NormalizeCommandMaxSteps: a budget that is left out counts as the default.
BudgetError(steps) ==
  CASE steps = NoSteps ->
         IF DefaultMaxCommandSteps > MaxCommandSteps THEN "budget_exceeded" ELSE ""
    [] steps # NoSteps /\ steps <= 0 -> "invalid_request"
    [] OTHER -> IF steps > MaxCommandSteps THEN "budget_exceeded" ELSE ""

\* The token is looked at first, then the body, then the budget; a cancel has no body.
FormError(kind, form) ==
  CASE ~form.authorized -> "unauthorized"
    [] form.authorized /\ kind # "cancel" /\ form.body # "" -> form.body
    [] OTHER -> IF form.authorized /\ kind \in Executing THEN BudgetError(form.steps) ELSE ""

-----------------------------------------------------------------------------
Tier(status, errors) == [status |-> status, errors |-> errors]

\* Defect: a state the engine found invalid is taken for a refusal of the command.
TiersForbidInvalid ==
  <<Tier(401, {"unauthorized"}),
    Tier(403, {"not_continuable", "not_cancellable", "resolution_required",
               "run_state_invalid"})>>

\* mapRuntimeError: the first tier with an error of the answer gives its status.
Tiers ==
  <<Tier(401, {"unauthorized"}),
    Tier(413, {"request_too_large"}),
    Tier(408, {"request_timed_out"}),
    Tier(429, {"budget_exceeded"}),
    Tier(400, {"invalid_request"}),
    Tier(404, {"run_not_found"}),
    Tier(409, {"command_conflict", "version_conflict"}),
    Tier(403, {"not_continuable", "not_cancellable", "resolution_required"}),
    Tier(400, {"resolution_invalid", "resolution_unexpected", "run_state_invalid"}),
    Tier(500, {"canceled"}),
    Tier(408, {"deadline_exceeded"})>>

StatusOf(errs) ==
  LET found == {i \in DOMAIN Tiers : Tiers[i].errors \cap errs # {}}
  IN IF found = {} THEN 500 ELSE Tiers[Min(found)].status

\* isAcceptedRunError: a run that used up its budget is a result.
Accepted(errs) == "max_steps" \in errs /\ "event_publish" \notin errs

\* The status a handler answers with.
AnswerStatus(kind, errs) ==
  IF errs = {} \/ (kind \in Executing /\ Accepted(errs)) THEN 200 ELSE StatusOf(errs)
=============================================================================
