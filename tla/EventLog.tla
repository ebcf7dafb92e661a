------------------------------ MODULE EventLog ------------------------------
(***************************************************************************)
(* What a stream of events promises its readers: the events of a run form  *)
(* one growing log, and a reader that begins behind some event is shown    *)
(* the ones that follow it, one after the other, until it stops.           *)
(***************************************************************************)
EXTENDS Naturals, Sequences

CONSTANTS Runs, Readers, Events

VARIABLES log,     \* run -> its events
          reading, \* reader -> whether it has begun and has not stopped
          place,   \* reader -> the run it reads and the event it begins behind
          seen     \* reader -> the events it was shown

logVars == <<log, reading, place, seen>>

Init ==
  /\ log = [r \in Runs |-> <<>>]
  /\ reading = [w \in Readers |-> FALSE]
  /\ place \in [Readers -> [run : Runs, after : Nat]]
  /\ seen = [w \in Readers |-> <<>>]

Add(r, e) ==
  /\ log' = [log EXCEPT ![r] = Append(@, e)]
  /\ UNCHANGED <<reading, place, seen>>

Start(w) ==
  /\ ~reading[w] /\ seen[w] = <<>>
  /\ reading' = [reading EXCEPT ![w] = TRUE]
  /\ place'[w] \in [run : Runs, after : Nat]
  /\ place' = [place EXCEPT ![w] = place'[w]]
  /\ UNCHANGED <<log, seen>>

Show(w) ==
  LET next == place[w].after + Len(seen[w]) + 1
      events == log[place[w].run]
  IN /\ reading[w]
     /\ next \in DOMAIN events
     /\ seen' = [seen EXCEPT ![w] = Append(@, events[next])]
     /\ UNCHANGED <<log, reading, place>>

Stop(w) ==
  /\ reading[w]
  /\ reading' = [reading EXCEPT ![w] = FALSE]
  /\ UNCHANGED <<log, place, seen>>

Next ==
  \/ \E r \in Runs, e \in Events : Add(r, e)
  \/ \E w \in Readers : Start(w) \/ Show(w) \/ Stop(w)

Spec == Init /\ [][Next]_logVars
=============================================================================
