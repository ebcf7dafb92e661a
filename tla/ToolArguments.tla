---------------------------- MODULE ToolArguments ---------------------------
(***************************************************************************)
(* The arguments of tool calls: the schema rules of the React loop         *)
(* (agentreact/tool_validation.go), the tools the coding agent defines and *)
(* what their executor asks of a string (toolset/policy.go).               *)
(*                                                                         *)
(* The arguments of a call are a function from the fields that are there   *)
(* to values, and KindOf says what a value is once its JSON was decoded.   *)
(* A number decodes to a float; only a model that lives in the process can *)
(* hand over an integer.                                                   *)
(***************************************************************************)
EXTENDS TLC

CONSTANT KindOf \* value -> its kind

Kinds == {"string", "blank", "boolean", "int", "float", "object", "array", "null"}

\* matchesToolArgumentType; a type it does not know matches everything.
KindsOfType(type) ==
  CASE type = "string"  -> {"string", "blank"}
    [] type = "boolean" -> {"boolean"}
    [] type = "number"  -> {"int", "float"}
    [] type = "integer" -> {"int"}
    [] type = "object"  -> {"object"}
    [] type = "array"   -> {"array"}
    [] OTHER            -> Kinds

\* A schema: whether required and additionalProperties can be read, the required
\* fields, whether it lists properties, their types ("" for none), whether it allows
\* no others.
Schema(readable, required, described, types, closed) ==
  [readable |-> readable, required |-> required, described |-> described,
   types |-> types, closed |-> closed]

\* A property whose schema is no object, or whose type is no string.
Unreadable == "unreadable"

\* Defect: a missing field is no error.
ArgumentsOKIncomplete(schema, args) ==
  /\ schema.readable
  /\ \A f \in DOMAIN args :
       IF f \in DOMAIN schema.types
       THEN schema.types[f] # Unreadable /\ KindOf[args[f]] \in KindsOfType(schema.types[f])
       ELSE ~(schema.described /\ schema.closed)

\* validateToolArguments
ArgumentsOK(schema, args) ==
  /\ schema.readable
  /\ schema.required \subseteq DOMAIN args
  /\ \A f \in DOMAIN args :
       IF f \in DOMAIN schema.types
       THEN schema.types[f] # Unreadable /\ KindOf[args[f]] \in KindsOfType(schema.types[f])
       ELSE ~(schema.described /\ schema.closed)

\* Every field is a required string; others are let through.
Strings(fields) == Schema(TRUE, fields, TRUE, [f \in fields |-> "string"], FALSE)

\* toolDefinitions
ToolDefinitions ==
  ("read" :> Strings({"path"})) @@ ("write" :> Strings({"path", "content"}))
  @@ ("edit" :> Strings({"path", "old", "new"})) @@ ("bash" :> Strings({"command"}))

\* stringArgument succeeds: a string that is not blank.
HasString(args, field) == field \in DOMAIN args /\ KindOf[args[field]] = "string"
=============================================================================
