------------------------------ MODULE MCRunner ------------------------------
(***************************************************************************)
(* Values for the constants of Runner: three commands on one run, one      *)
(* requirement a tool raises and one the model raises.                     *)
(***************************************************************************)
EXTENDS Runner

CONSTANTS c1, c2, c3, r1, r2

ToolApproval ==
  [id |-> "q1", kind |-> "approval", origin |-> "tool", call |-> "k1", fingerprint |-> "f1"]
ModelInput ==
  [id |-> "q2", kind |-> "user_input", origin |-> "model", call |-> "", fingerprint |-> ""]

BothRequirements == {ToolApproval, ModelInput}
ToolRequirements == {ToolApproval}
NoRequirements   == {}

Approve == [req |-> "q1", kind |-> "approval", outcome |-> "approved"]

ApproveOrNothing == {NoResolution, Approve}
NoResolutions == {NoResolution}

NoIDs == {""}
OneID == {"", "id1"}

NoIDsOf == [c \in {c1, c2, c3} |-> NoIDs]

\* A second command with an id, and one that repeats the id or has none.
RepeatedID == [c \in {c1, c2, c3} |-> IF c = c2 THEN {"id1"} ELSE OneID]

SameRun == [c \in {c1, c2, c3} |-> r1]

\* A start and any two further commands.
Races ==
  (c1 :> {"start"}) @@ (c2 :> CommandKinds) @@ (c3 :> CommandKinds)

\* A start and two continues, retries of each other or not.
Retries ==
  (c1 :> {"start"}) @@ (c2 :> {"continue"}) @@ (c3 :> {"continue"})

\* A start, a continue and a cancel, which queue for each other.
Queues == (c1 :> {"start"}) @@ (c2 :> {"continue"}) @@ (c3 :> {"cancel"})
=============================================================================
