------------------------------ MODULE RunMutex ------------------------------
(***************************************************************************)
(* What lockRunMutation promises (agent/runner.go): one mutex per run,     *)
(* which a caller asks for, waits for, holds and gives back, and which it  *)
(* never asks for again while it waits for or holds one.                   *)
(***************************************************************************)
CONSTANTS Runs,    \* the run ids
          Callers, \* the goroutines that mutate runs
          Nobody   \* the holder of a mutex nobody holds

VARIABLES waiting, \* run -> the callers that wait for its mutex
          holder   \* run -> the caller that holds its mutex

mutexVars == <<waiting, holder>>

Init ==
  /\ waiting = [r \in Runs |-> {}]
  /\ holder = [r \in Runs |-> Nobody]

Request(c, r) ==
  /\ \A q \in Runs : c \notin waiting[q] /\ holder[q] # c
  /\ waiting' = [waiting EXCEPT ![r] = @ \cup {c}]
  /\ UNCHANGED holder

Acquire(c, r) ==
  /\ c \in waiting[r]
  /\ holder[r] = Nobody
  /\ waiting' = [waiting EXCEPT ![r] = @ \ {c}]
  /\ holder' = [holder EXCEPT ![r] = c]

Release(c, r) ==
  /\ holder[r] = c
  /\ holder' = [holder EXCEPT ![r] = Nobody]
  /\ UNCHANGED waiting

Next == \E c \in Callers, r \in Runs : Request(c, r) \/ Acquire(c, r) \/ Release(c, r)

Spec == Init /\ [][Next]_mutexVars
=============================================================================
