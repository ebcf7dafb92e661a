--------------------------- MODULE ServerProcess ----------------------------
(***************************************************************************)
(* The coding-agent server as a process (cmd/server/main.go and            *)
(* internal/app/app.go): one goroutine in Start, the main one waiting for  *)
(* a signal and then in Shutdown.  What net/http does with the listener    *)
(* and the connections is as its documentation has it and as app.go uses   *)
(* it.                                                                     *)
(***************************************************************************)
VARIABLES main,    \* "running", "told" to stop, "draining", "waiting" or "exited"
          starter, \* "spawned", "ready", "serving", "broken", "closed" or "failed"
          ready,   \* what /readyz answers
          cut      \* the connections were closed by force

process == <<main, starter, ready, cut>>

ProcessInit ==
  /\ main = "running" /\ starter = "spawned"
  /\ ready = FALSE /\ cut = FALSE

\* Requests come in, over open connections when the listener is broken.
Serving == starter \in {"serving", "broken"}

\* http.Server.inShutdown
ShuttingDown == main \in {"draining", "waiting", "exited"}

SetReady ==
  /\ starter = "spawned" /\ main # "exited"
  /\ starter' = "ready" /\ ready' = TRUE
  /\ UNCHANGED <<main, cut>>

\* ListenAndServe: on a server that is shut down it returns at once.
Listen ==
  /\ starter = "ready" /\ main # "exited"
  /\ starter' = IF ShuttingDown THEN "closed" ELSE "serving"
  /\ UNCHANGED <<main, ready, cut>>

ListenFails ==
  /\ starter = "ready" /\ ~ShuttingDown
  /\ starter' = "failed" /\ ready' = FALSE
  /\ UNCHANGED <<main, cut>>

\* Serve: a connection cannot be accepted, and Start returns; the open ones stay.
ServeFails ==
  /\ starter = "serving"
  /\ starter' = "broken" /\ ready' = FALSE
  /\ UNCHANGED <<main, cut>>

\* main has its signal and is in App.Shutdown, past the first line.
Signal ==
  /\ main = "running"
  /\ main' = "told" /\ ready' = FALSE
  /\ UNCHANGED <<starter, cut>>

\* main sees what Start returned before any signal, and waits for no request.
ServerExited ==
  /\ main = "running" /\ starter \in {"broken", "failed"}
  /\ main' = "exited" /\ starter' = "failed"
  /\ UNCHANGED <<ready, cut>>

\* Defect: the listener stays open while the connections are waited for.
BeginDrainOpen ==
  /\ main = "told"
  /\ main' = "draining"
  /\ UNCHANGED <<starter, ready, cut>>

\* http.Server.Shutdown closes the listener and idle connections, and Start returns.
BeginDrain ==
  /\ main = "told"
  /\ main' = "draining"
  /\ starter' = IF Serving THEN "closed" ELSE starter
  /\ UNCHANGED <<ready, cut>>

\* Every connection is idle.
Drained ==
  /\ main = "draining"
  /\ main' = "waiting"
  /\ UNCHANGED <<starter, ready, cut>>

\* Defect: the timeout is logged and the wait goes on.
DeadlineLogged == main = "draining" /\ UNCHANGED process

\* The deadline passes: server.Close.
Deadline ==
  /\ main = "draining"
  /\ main' = "waiting" /\ cut' = TRUE
  /\ UNCHANGED <<starter, ready>>

\* main has what Start returned.
Exit ==
  /\ main = "waiting" /\ starter \in {"closed", "failed"}
  /\ main' = "exited"
  /\ UNCHANGED <<starter, ready, cut>>
=============================================================================
