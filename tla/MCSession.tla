----------------------------- MODULE MCSession ------------------------------
(***************************************************************************)
(* Values for Session: a chat with two commands and another client with    *)
(* one on one run, and three approvals a tool may ask for, two of one id.  *)
(***************************************************************************)
EXTENDS Session

CONSTANTS a1, a2, b1, w1, w2, r1

Kinds ==
  (a1 :> {"start"}) @@ (a2 :> {"continue", "follow_up"})
  @@ (b1 :> {"start", "continue", "cancel"})

OneRun == [c \in {a1, a2, b1} |-> r1]

TwoTurns == (w1 :> <<a1, a2>>) @@ (w2 :> <<b1>>)

Approval(id, fingerprint) ==
  [id |-> id, kind |-> "approval", origin |-> "tool", call |-> "k1",
   fingerprint |-> fingerprint]

SomeApprovals ==
  {Approval("q1", "f1"), Approval("q1", "f2"), Approval("q2", "f1")}

Approves == {NoResolution} \cup
  {[req |-> id, kind |-> "approval", outcome |-> "approved"] : id \in {"q1", "q2"}}

Form(authorized, body, steps) ==
  [authorized |-> authorized, body |-> body, steps |-> steps]

\* A good request, and one that asks for too many steps.
SomeForms == {Form(TRUE, "", NoSteps), Form(TRUE, "", 9)}

\* What it takes to lose a race: a start and somebody else's cancel.
Racing == (a1 :> {"start"}) @@ (b1 :> {"cancel"})
RacingRun == [c \in {a1, b1} |-> r1]
OneTurn == (w1 :> <<a1>>) @@ (w2 :> <<b1>>)
GoodForm == {Form(TRUE, "", NoSteps)}
NoApprovals == {}
NoReplies == {NoResolution}
=============================================================================
