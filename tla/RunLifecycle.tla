---------------------------- MODULE RunLifecycle ----------------------------
(***************************************************************************)
(* The data of a run and the rules every persisted run obeys:              *)
(* agent/run.go, agent/lifecycle.go and agent/run_validation.go.           *)
(*                                                                         *)
(* A run state keeps the fields the rules speak about.  A nil requirement  *)
(* and a nil resolution are the records whose id is "", and a run that is  *)
(* not in the store is the record of version 0, so every Go pointer and    *)
(* map lookup becomes a field of one record type.                          *)
(***************************************************************************)
EXTENDS Integers, Sequences

Statuses == {"", "pending", "running", "suspended", "cancelled", "completed",
             "failed", "max_steps_exceeded"}

\* isKnownRunStatus: the empty status is only that of a state under construction.
KnownStatuses == Statuses \ {""}

Terminal == {"completed", "failed", "cancelled"}

RequirementKinds == {"approval", "user_input", "external_execution"}

RequirementOrigins == {"model", "tool"}

ResolutionOutcomes == {"approved", "rejected", "provided", "completed"}

NoRequirement ==
  [id |-> "", kind |-> "", origin |-> "", call |-> "", fingerprint |-> ""]

NoResolution == [req |-> "", kind |-> "", outcome |-> ""]

-----------------------------------------------------------------------------
(***************************************************************************)
(* Requirements and their resolutions.                                     *)
(***************************************************************************)

\* A tool's requirement is bound to the blocked call: it must carry the call's
\* id and fingerprint.
ValidRequirement(q) ==
  /\ q.id # ""
  /\ q.kind \in RequirementKinds
  /\ q.origin \in RequirementOrigins
  /\ q.origin = "tool" => q.call # "" /\ q.fingerprint # ""

OutcomesOf(kind) ==
  CASE kind = "approval"           -> {"approved", "rejected"}
    [] kind = "user_input"         -> {"provided"}
    [] kind = "external_execution" -> {"completed"}
    [] OTHER                       -> {}

ValidResolution(s) ==
  /\ s.req # ""
  /\ s.kind \in RequirementKinds
  /\ s.outcome \in OutcomesOf(s.kind)

\* Defect: any approval will do.
ResolvesKind(s, q) == ValidResolution(s) /\ ValidRequirement(q) /\ s.kind = q.kind

Resolves(s, q) ==
  /\ ValidResolution(s)
  /\ ValidRequirement(q)
  /\ s.req = q.id
  /\ s.kind = q.kind

-----------------------------------------------------------------------------
(***************************************************************************)
(* Run states and their transitions.                                       *)
(***************************************************************************)

\* A run is suspended exactly while a valid requirement is pending.
SuspensionInvariant(st) ==
  IF st.status = "suspended" THEN ValidRequirement(st.requirement)
                             ELSE st.requirement = NoRequirement

\* ValidateRunState; ids are never empty in the model.
ValidRunState(st) ==
  /\ st.step >= 0
  /\ st.version >= 0
  /\ st.status \in KnownStatuses
  /\ SuspensionInvariant(st)

AllowedTransitions ==
  {<<"", "pending">>} \cup
  ({"pending"}   \X {"running", "cancelled"}) \cup
  ({"running"}   \X {"suspended", "cancelled", "completed", "failed",
                     "max_steps_exceeded"}) \cup
  ({"suspended"} \X {"running", "cancelled"}) \cup
  ({"max_steps_exceeded"} \X {"running", "cancelled"})

CanTransition(from, to) == from = to \/ <<from, to>> \in AllowedTransitions

\* TransitionRunStatus succeeds: the pair is allowed and the state it leaves
\* still satisfies the suspension invariant.
TransitionOK(st, to) ==
  /\ CanTransition(st.status, to)
  /\ SuspensionInvariant([st EXCEPT !.status = to])

Transition(st, to) == [st EXCEPT !.status = to]
=============================================================================
