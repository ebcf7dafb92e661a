----------------------------- MODULE MCReactLoop ----------------------------
(***************************************************************************)
(* Values for ReactLoop: a denied and an allowed command that share a call *)
(* id, a tool that asks for a count, and the calls the loop refuses itself.*)
(***************************************************************************)
EXTENDS ReactLoop

Call(id, name, args) == [id |-> id, name |-> name, args |-> args]

\* 1 is an integer, 1.0 what a number is after it was decoded, and "-" a blank.
Values == ("rm" :> "string") @@ ("ls" :> "string") @@ ("-" :> "blank")
          @@ ("1" :> "int") @@ ("1.0" :> "float")

AskSchema ==
  Schema(TRUE, {"count"}, TRUE, [f \in {"count"} |-> "integer"], TRUE)

ToolSchemas == ("ask" :> AskSchema) @@ ToolDefinitions

Remove1 == Call("k1", "bash", "command" :> "rm")
List1   == Call("k1", "bash", "command" :> "ls")
Ask2    == Call("k2", "ask", "count" :> "1")
Ghost2  == Call("k2", "ghost", <<>>)
Blank2  == Call("k2", "bash", "command" :> "-")
Float2  == Call("k2", "ask", "count" :> "1.0")
Empty3  == Call("k3", "ask", <<>>)
Other3  == Call("k3", "ask", ("count" :> "1") @@ ("path" :> "ls"))
Padded  == Call(" k1", "read", "path" :> "ls")

TrimmedIDs == [k \in {"", "k1", "k2", "k3"} |-> k] @@ (" k1" :> "k1")

BashFingerprints == (Remove1 :> "f-rm") @@ (List1 :> "f-ls") @@ (Blank2 :> "f-blank")
PolicyIDs == [k \in {"k1", "k2"} |-> "req-" \o k]

\* Single calls, a blocked call before and after another, two calls with one id, and a
\* call whose id has a blank before it.
Lists == {<<Remove1>>, <<List1>>, <<Remove1, Ask2>>, <<Ask2, Remove1>>,
          <<Ghost2, List1>>, <<Float2, Empty3>>, <<Blank2, Other3>>, <<Padded>>,
          <<List1, Remove1>>}

\* What matters once an execution may be repeated.
FewLists == {<<Remove1>>, <<List1>>}

Requirement(id, kind, origin, call, fingerprint) ==
  [id |-> id, kind |-> kind, origin |-> origin, call |-> call, fingerprint |-> fingerprint]

\* A requirement of the model, one without an origin, and one that claims a tool's.
FromModel == {Requirement("q1", "user_input", "model", "", ""),
              Requirement("q1", "approval", "", "", ""),
              Requirement("q1", "approval", "tool", "k1", "f-rm")}

\* Unbound, for another call, without a fingerprint, of the model's origin.
FromAsk == {Requirement("q2", "approval", "tool", "", "f-ask"),
            Requirement("q2", "user_input", "tool", "k2", "f-ask"),
            Requirement("q2", "approval", "tool", "k1", "f-ask"),
            Requirement("q2", "approval", "tool", "k2", ""),
            Requirement("q2", "approval", "model", "k2", "f-ask")}

WithoutOrigin == {Requirement("q1", "approval", "", "", "")}
=============================================================================
