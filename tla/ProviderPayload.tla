--------------------------- MODULE ProviderPayload --------------------------
(***************************************************************************)
(* What the model adapter makes of a transcript before it is sent to the   *)
(* provider (modelprovider/preflight/normalize.go, modelopenai/adapter.go).*)
(* A call that was blocked and then replayed has two observations; the     *)
(* provider accepts one for each call, behind the message that makes it.   *)
(***************************************************************************)
EXTENDS SequencesExt

CONSTANT TrimSpace \* the call id of an observation -> strings.TrimSpace of it

IDs(cs) == {cs[i].id : i \in DOMAIN cs} \ {""}

\* NormalizeMessagesForProvider after the messages so far: what it keeps, the calls it
\* has seen, and the place of each call's observation.
Nothing == [ok |-> TRUE, out |-> <<>>, announced |-> {}, place |-> <<>>]

Kept(acc, m) == [acc EXCEPT !.out = Append(@, m)]

\* Defect: a later observation is one more message.
NormalizeToolTwice(acc, m) ==
  IF TrimSpace[m.call] \in acc.announced THEN Kept(acc, m) ELSE [acc EXCEPT !.ok = FALSE]

\* The places with that of the call k.
Extended(place, k, n) == [x \in DOMAIN place \cup {k} |-> IF x = k THEN n ELSE place[x]]

\* An observation of a call nobody made, or of none, is an error; a later one replaces
\* the first.  Its id is looked up without the blanks around it, while the calls are
\* announced with theirs.
NormalizeTool(acc, m) ==
  LET k == TrimSpace[m.call] IN
  CASE k \notin acc.announced -> [acc EXCEPT !.ok = FALSE]
    [] k \in acc.announced /\ k \in DOMAIN acc.place ->
         [acc EXCEPT !.out[acc.place[k]] = m]
    [] OTHER -> [Kept(acc, m) EXCEPT !.place = Extended(@, k, Len(acc.out) + 1)]

NormalizeNext(acc, m) ==
  CASE m.role = "assistant" -> [Kept(acc, m) EXCEPT !.announced = @ \cup IDs(m.calls)]
    [] m.role = "tool"      -> NormalizeTool(acc, m)
    [] OTHER                -> Kept(acc, m)

Normalized(messages) == FoldLeft(NormalizeNext, Nothing, messages)

ProviderRoles == {"system", "user", "assistant", "tool"}

\* buildRequest succeeds.
Sendable(messages) ==
  LET n == Normalized(messages) IN
  n.ok /\ \A i \in DOMAIN n.out : n.out[i].role \in ProviderRoles
=============================================================================
