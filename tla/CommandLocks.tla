---------------------------- MODULE CommandLocks ----------------------------
(***************************************************************************)
(* runCommandLocks of agent/runner.go: the mutex of a run is an entry that *)
(* the first caller allocates and the last one deletes, counted by         *)
(* refCount.  What lock does under l.mu is one step: the map and the       *)
(* counters are only touched there, and nothing inside waits.              *)
(*                                                                         *)
(* A caller is a goroutine that mutates one run after another.  An entry   *)
(* is a heap object: it may be allocated anew once neither the map nor a   *)
(* caller refers to it.                                                    *)
(***************************************************************************)
EXTENDS Naturals, FiniteSets

CONSTANTS Runs, Callers, Nobody,
          Entries, \* the runCommandLock objects
          NoEntry  \* a nil entry

ASSUME CallersAssumption == IsFiniteSet(Callers) /\ Nobody \notin Callers

ASSUME EntriesAssumption == NoEntry \notin Entries

VARIABLES
  entries,  \* run -> its entry in the map, NoEntry when it has none
  refCount, \* entry -> its reference count
  owner,    \* entry -> the caller that holds its mutex
  pc,       \* caller -> where it is in lock or in the closure lock returned
  target,   \* caller -> the run whose mutex it asked for
  entry     \* caller -> the entry it refers to

vars == <<entries, refCount, owner, pc, target, entry>>

Init ==
  /\ entries = [r \in Runs |-> NoEntry]
  /\ refCount = [e \in Entries |-> 0]
  /\ owner = [e \in Entries |-> Nobody]
  /\ pc = [c \in Callers |-> "idle"]
  /\ target \in [Callers -> Runs]
  /\ entry = [c \in Callers |-> NoEntry]

-----------------------------------------------------------------------------
Unreferenced(e) ==
  /\ \A r \in Runs : entries[r] # e
  /\ \A c \in Callers : entry[c] # e

\* The entry a caller of run r gets: the map's, or a new one.
EntryFor(r, e) ==
  IF entries[r] # NoEntry THEN e = entries[r] ELSE Unreferenced(e)

\* Defect: only the caller that allocated the entry is counted.
RegisterUncounted(c) ==
  \E r \in Runs, e \in Entries :
    /\ pc[c] = "idle"
    /\ EntryFor(r, e)
    /\ entries' = [entries EXCEPT ![r] = e]
    /\ refCount' = [refCount EXCEPT ![e] = 1]
    /\ owner' = IF entries[r] = e THEN owner ELSE [owner EXCEPT ![e] = Nobody]
    /\ pc' = [pc EXCEPT ![c] = "waiting"]
    /\ target' = [target EXCEPT ![c] = r]
    /\ entry' = [entry EXCEPT ![c] = e]

\* lock: look the entry up or allocate it, and count the reference.
Register(c) ==
  \E r \in Runs, e \in Entries :
    /\ pc[c] = "idle"
    /\ EntryFor(r, e)
    /\ entries' = [entries EXCEPT ![r] = e]
    /\ refCount' = [refCount EXCEPT ![e] = IF entries[r] = e THEN @ + 1 ELSE 1]
    /\ owner' = IF entries[r] = e THEN owner ELSE [owner EXCEPT ![e] = Nobody]
    /\ pc' = [pc EXCEPT ![c] = "waiting"]
    /\ target' = [target EXCEPT ![c] = r]
    /\ entry' = [entry EXCEPT ![c] = e]

\* entry.mu.Lock
Acquire(c) ==
  /\ pc[c] = "waiting"
  /\ owner[entry[c]] = Nobody
  /\ owner' = [owner EXCEPT ![entry[c]] = c]
  /\ pc' = [pc EXCEPT ![c] = "holding"]
  /\ UNCHANGED <<entries, refCount, target, entry>>

\* Defect: the closure returns the reference but not the mutex.
UnlockNothing(c) ==
  /\ pc[c] = "holding"
  /\ pc' = [pc EXCEPT ![c] = "leaving"]
  /\ UNCHANGED <<entries, refCount, owner, target, entry>>

\* entry.mu.Unlock
Unlock(c) ==
  /\ pc[c] = "holding"
  /\ owner' = [owner EXCEPT ![entry[c]] = Nobody]
  /\ pc' = [pc EXCEPT ![c] = "leaving"]
  /\ UNCHANGED <<entries, refCount, target, entry>>

\* Defect: the entry is left in the map.
UnregisterKeeping(c) ==
  /\ pc[c] = "leaving"
  /\ refCount' = [refCount EXCEPT ![entry[c]] = @ - 1]
  /\ pc' = [pc EXCEPT ![c] = "idle"]
  /\ entry' = [entry EXCEPT ![c] = NoEntry]
  /\ UNCHANGED <<entries, owner, target>>

\* Drop the reference; the last caller deletes the entry.
Unregister(c) ==
  /\ pc[c] = "leaving"
  /\ refCount' = [refCount EXCEPT ![entry[c]] = @ - 1]
  /\ entries' = IF refCount[entry[c]] = 1
                THEN [entries EXCEPT ![target[c]] = NoEntry] ELSE entries
  /\ pc' = [pc EXCEPT ![c] = "idle"]
  /\ entry' = [entry EXCEPT ![c] = NoEntry]
  /\ UNCHANGED <<owner, target>>

Next == \E c \in Callers : Register(c) \/ Acquire(c) \/ Unlock(c) \/ Unregister(c)

Spec == Init /\ [][Next]_vars

\* A holder lets go, and sync.Mutex does not starve a waiter: in starvation mode it
\* hands itself to the one that has waited longest.
FairSpec ==
  Spec /\ \A c \in Callers :
            WF_vars(Unlock(c)) /\ WF_vars(Unregister(c)) /\ SF_vars(Acquire(c))

-----------------------------------------------------------------------------
(***************************************************************************)
(* Invariants.                                                             *)
(***************************************************************************)

TypeOK ==
  /\ entries \in [Runs -> Entries \cup {NoEntry}]
  /\ refCount \in [Entries -> Nat]
  /\ owner \in [Entries -> Callers \cup {Nobody}]
  /\ pc \in [Callers -> {"idle", "waiting", "holding", "leaving"}]
  /\ target \in [Callers -> Runs]
  /\ entry \in [Callers -> Entries \cup {NoEntry}]

Users(e) == {c \in Callers : entry[c] = e}

\* A caller at work refers to the entry the map has for its run: no caller keeps a
\* deleted entry while another gets a new one for the same run.
CallersAgree ==
  \A c \in Callers : /\ pc[c] = "idle" <=> entry[c] = NoEntry
                     /\ pc[c] # "idle" => entries[target[c]] = entry[c]

\* An entry serves one run.
EntriesDistinct ==
  \A r, q \in Runs : entries[r] = entries[q] /\ entries[r] # NoEntry => r = q

\* refCount counts the callers that refer to the entry, and only an entry somebody
\* refers to is in the map: none is leaked.
CountsUsers ==
  /\ \A r \in Runs : entries[r] # NoEntry => refCount[entries[r]] # 0
  /\ \A e \in Entries : refCount[e] = Cardinality(Users(e))

OwnersHold ==
  /\ \A e \in Entries : owner[e] # Nobody => pc[owner[e]] = "holding" /\ entry[owner[e]] = e
  /\ \A c \in Callers : pc[c] = "holding" => owner[entry[c]] = c

LocksInv == TypeOK /\ CallersAgree /\ EntriesDistinct /\ CountsUsers /\ OwnersHold

-----------------------------------------------------------------------------
(***************************************************************************)
(* The abstract mutex this implements.                                     *)
(***************************************************************************)
waiting == [r \in Runs |-> {c \in Callers : pc[c] = "waiting" /\ target[c] = r}]

holder == [r \in Runs |-> IF entries[r] = NoEntry THEN Nobody ELSE owner[entries[r]]]

Mutex == INSTANCE RunMutex

\* The counted entries behave as one mutex per run.
IsMutex == Mutex!Spec

\* A caller that asked for a run's mutex gets it, although others keep asking.
WaitersServed == \A c \in Callers : pc[c] = "waiting" ~> pc[c] = "holding"
=============================================================================
