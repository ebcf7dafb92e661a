------------------------- MODULE CommandLocksProofs -------------------------
(***************************************************************************)
(* The counted entries of runCommandLocks are one mutex per run, for every *)
(* number of callers and runs: the invariant LocksInv, and the refinement  *)
(* of RunMutex that it carries.                                            *)
(***************************************************************************)
EXTENDS CommandLocks, FiniteSetTheorems, TLAPS

-----------------------------------------------------------------------------
(***************************************************************************)
(* The users of an entry, before and after a step.                         *)
(***************************************************************************)

\* An entry has finitely many users, and none exactly when their number is 0.
LEMMA UsersFinite ==
  ASSUME NEW e
  PROVE  /\ IsFiniteSet(Users(e))
         /\ Cardinality(Users(e)) \in Nat
         /\ Cardinality(Users(e)) = 0 <=> Users(e) = {}
<1>1. Users(e) \subseteq Callers
  BY DEF Users
<1>2. IsFiniteSet(Users(e))
  BY <1>1, CallersAssumption, FS_Subset
<1>3. QED BY <1>2, FS_CardinalityType, FS_EmptySet

\* A caller that starts to refer to e adds one to its users, and one that stops
\* takes one away; the users of other entries stay.
LEMMA UsersAdded ==
  ASSUME NEW c \in Callers, NEW e, entry \in [Callers -> Entries \cup {NoEntry}],
         entry[c] # e, entry' = [entry EXCEPT ![c] = e]
  PROVE  Cardinality(Users(e)') = Cardinality(Users(e)) + 1
<1>1. Users(e)' = Users(e) \cup {c} /\ c \notin Users(e)
  BY DEF Users
<1>2. IsFiniteSet(Users(e))
  BY UsersFinite
<1>3. QED BY <1>1, <1>2, FS_AddElement

\* A caller that drops its reference to e (the closure lock returns) takes one user
\* away.
LEMMA UsersRemoved ==
  ASSUME NEW c \in Callers, NEW e, NEW f, entry \in [Callers -> Entries \cup {NoEntry}],
         entry[c] = e, f # e, entry' = [entry EXCEPT ![c] = f]
  PROVE  Cardinality(Users(e)') = Cardinality(Users(e)) - 1
<1>1. Users(e)' = Users(e) \ {c} /\ c \in Users(e)
  BY DEF Users
<1>2. IsFiniteSet(Users(e))
  BY UsersFinite
<1>3. QED BY <1>1, <1>2, FS_RemoveElement

\* A caller that neither drops nor takes a reference to e leaves its users alone.
LEMMA UsersKept ==
  ASSUME NEW c \in Callers, NEW e, NEW f, entry \in [Callers -> Entries \cup {NoEntry}],
         entry[c] # e, f # e, entry' = [entry EXCEPT ![c] = f]
  PROVE  Users(e)' = Users(e)
BY DEF Users

-----------------------------------------------------------------------------
(***************************************************************************)
(* The invariant.                                                          *)
(***************************************************************************)

\* The invariant holds of the empty map of newRunCommandLocks.
LEMMA LocksInit == Init => LocksInv
<1> SUFFICES ASSUME Init PROVE LocksInv
  OBVIOUS
<1>1. TypeOK /\ CallersAgree /\ EntriesDistinct
  BY DEF Init, TypeOK, CallersAgree, EntriesDistinct
<1>2. CountsUsers
  <2>1. ASSUME NEW e \in Entries PROVE refCount[e] = Cardinality(Users(e))
    <3>1. Users(e) = {}
      BY EntriesAssumption DEF Init, Users
    <3>2. QED BY <3>1, FS_EmptySet DEF Init
  <2>2. QED BY <2>1 DEF Init, CountsUsers
<1>3. OwnersHold
  BY DEF Init, OwnersHold
<1>4. QED BY <1>1, <1>2, <1>3 DEF LocksInv

\* An entry a caller of run r is given is not a stranger's: it is the map's for r, or
\* nobody refers to it and nobody holds its mutex.
LEMMA EntryForFacts ==
  ASSUME LocksInv, NEW r \in Runs, NEW e \in Entries, EntryFor(r, e)
  PROVE  /\ \A q \in Runs : q # r => entries[q] # e
         /\ entries[r] # e => /\ entries[r] = NoEntry
                              /\ Users(e) = {} /\ Cardinality(Users(e)) = 0
                              /\ owner[e] = Nobody
<1>1. CASE entries[r] # NoEntry
  BY <1>1, EntriesAssumption DEF EntryFor, LocksInv, EntriesDistinct
<1>2. CASE entries[r] = NoEntry
  <2>1. Unreferenced(e)
    BY <1>2 DEF EntryFor
  <2>2. Users(e) = {}
    BY <2>1 DEF Unreferenced, Users
  <2>3. Cardinality(Users(e)) = 0
    BY <2>2, FS_EmptySet
  <2>4. owner[e] = Nobody
    BY <2>1 DEF Unreferenced, LocksInv, OwnersHold, TypeOK
  <2>5. QED BY <1>2, <2>1, <2>2, <2>3, <2>4 DEF Unreferenced
<1>3. QED BY <1>1, <1>2

\* Every step of lock and of the closure it returns keeps the invariant.
LEMMA LocksStep == LocksInv /\ [Next]_vars => LocksInv'
<1> SUFFICES ASSUME LocksInv, [Next]_vars PROVE LocksInv'
  OBVIOUS
<1>0. TypeOK /\ CallersAgree /\ EntriesDistinct /\ CountsUsers /\ OwnersHold
  BY DEF LocksInv
<1>1. ASSUME NEW c \in Callers, Register(c) PROVE LocksInv'
  <2>1. PICK r \in Runs, e \in Entries :
          /\ pc[c] = "idle"
          /\ EntryFor(r, e)
          /\ entries' = [entries EXCEPT ![r] = e]
          /\ refCount' = [refCount EXCEPT ![e] = IF entries[r] = e THEN @ + 1 ELSE 1]
          /\ owner' = IF entries[r] = e THEN owner ELSE [owner EXCEPT ![e] = Nobody]
          /\ pc' = [pc EXCEPT ![c] = "waiting"]
          /\ target' = [target EXCEPT ![c] = r]
          /\ entry' = [entry EXCEPT ![c] = e]
    BY <1>1 DEF Register
  <2>2. /\ \A q \in Runs : q # r => entries[q] # e
        /\ entries[r] # e => /\ entries[r] = NoEntry
                             /\ Users(e) = {} /\ Cardinality(Users(e)) = 0
                             /\ owner[e] = Nobody
    BY <2>1, EntryForFacts
  <2>3. entry[c] = NoEntry /\ e # NoEntry
    BY <1>0, <2>1, EntriesAssumption DEF CallersAgree
  <2>4. owner' = owner
    BY <1>0, <2>1, <2>2 DEF TypeOK
  <2>5. TypeOK'
    BY <1>0, <2>1, <2>4 DEF TypeOK
  <2>6. CallersAgree'
    <3>1. ASSUME NEW d \in Callers
          PROVE  /\ pc'[d] = "idle" <=> entry'[d] = NoEntry
                 /\ pc'[d] # "idle" => entries'[target'[d]] = entry'[d]
      <4>1. CASE d = c
        BY <1>0, <2>1, <2>3, <4>1 DEF TypeOK
      <4>2. CASE d # c
        <5>1. pc'[d] = pc[d] /\ entry'[d] = entry[d] /\ target'[d] = target[d] /\ target[d] \in Runs
          BY <1>0, <2>1, <4>2 DEF TypeOK
        <5>2. entries[target[d]] # NoEntry => entries'[target[d]] = entries[target[d]]
          BY <1>0, <2>1, <2>2, <5>1 DEF TypeOK
        <5>3. QED BY <1>0, <5>1, <5>2 DEF CallersAgree
      <4>3. QED BY <4>1, <4>2
    <3>2. QED BY <3>1 DEF CallersAgree
  <2>7. EntriesDistinct'
    BY <1>0, <2>1, <2>2 DEF EntriesDistinct, TypeOK
  <2>8. CountsUsers'
    <3>1. ASSUME NEW f \in Entries PROVE refCount'[f] = Cardinality(Users(f)')
      <4>1. CASE f = e
        <5>1. Cardinality(Users(e)') = Cardinality(Users(e)) + 1
          BY <1>0, <2>1, <2>3, UsersAdded DEF TypeOK
        <5>2. refCount[e] = Cardinality(Users(e))
          BY <1>0 DEF CountsUsers
        <5>3. refCount'[e] = Cardinality(Users(e)) + 1
          BY <1>0, <2>1, <2>2, <5>2 DEF TypeOK
        <5>4. QED BY <4>1, <5>1, <5>3
      <4>2. CASE f # e
        <5>1. f # NoEntry
          BY EntriesAssumption
        <5>2. Users(f)' = Users(f)
          BY <1>0, <2>1, <2>3, <4>2, <5>1, UsersKept DEF TypeOK
        <5>3. QED BY <1>0, <2>1, <4>2, <5>2 DEF CountsUsers, TypeOK
      <4>3. QED BY <4>1, <4>2
    <3>2. ASSUME NEW q \in Runs, entries'[q] # NoEntry PROVE refCount'[entries'[q]] # 0
      <4>1. CASE q = r
        <5>1. refCount[e] \in Nat /\ refCount[e] + 1 # 0
          BY <1>0 DEF TypeOK
        <5>2. QED BY <1>0, <2>1, <4>1, <5>1 DEF TypeOK
      <4>2. CASE q # r
        BY <1>0, <2>1, <2>2, <3>2, <4>2 DEF CountsUsers, TypeOK
      <4>3. QED BY <4>1, <4>2
    <3>3. QED BY <3>1, <3>2 DEF CountsUsers
  <2>9. OwnersHold'
    <3>1. \A f \in Entries : owner[f] # Nobody => owner[f] # c
      BY <1>0, <2>1 DEF OwnersHold
    <3>2. QED BY <1>0, <2>1, <2>4, <3>1 DEF OwnersHold, TypeOK
  <2>10. QED BY <2>5, <2>6, <2>7, <2>8, <2>9 DEF LocksInv
<1>2. ASSUME NEW c \in Callers, Acquire(c) \/ Unlock(c) PROVE LocksInv'
  <2>1. UNCHANGED <<entries, refCount, target, entry>>
    BY <1>2 DEF Acquire, Unlock
  <2>2. entry[c] \in Entries
    BY <1>0, <1>2 DEF Acquire, Unlock, CallersAgree, TypeOK
  <2>3. TypeOK'
    BY <1>0, <1>2, <2>1, <2>2 DEF Acquire, Unlock, TypeOK
  <2>4. CallersAgree'
    BY <1>0, <1>2, <2>1 DEF Acquire, Unlock, CallersAgree, TypeOK
  <2>5. EntriesDistinct'
    BY <1>0, <2>1 DEF EntriesDistinct
  <2>6. CountsUsers'
    BY <1>0, <2>1 DEF CountsUsers, Users
  <2>7. OwnersHold'
    <3>1. CASE Acquire(c)
      BY <1>0, <2>1, <2>2, <3>1, CallersAssumption DEF Acquire, OwnersHold, TypeOK
    <3>2. CASE Unlock(c)
      BY <1>0, <2>1, <2>2, <3>2 DEF Unlock, OwnersHold, TypeOK
    <3>3. QED BY <1>2, <3>1, <3>2
  <2>8. QED BY <2>3, <2>4, <2>5, <2>6, <2>7 DEF LocksInv
<1>3. ASSUME NEW c \in Callers, Unregister(c) PROVE LocksInv'
  <2>0. PICK e \in Entries : entry[c] = e
    BY <1>0, <1>3, EntriesAssumption DEF Unregister, CallersAgree, TypeOK
  <2>1. /\ pc[c] = "leaving"
        /\ refCount' = [refCount EXCEPT ![e] = @ - 1]
        /\ entries' = IF refCount[e] = 1
                      THEN [entries EXCEPT ![target[c]] = NoEntry] ELSE entries
        /\ pc' = [pc EXCEPT ![c] = "idle"]
        /\ entry' = [entry EXCEPT ![c] = NoEntry]
        /\ UNCHANGED <<owner, target>>
    BY <1>3, <2>0 DEF Unregister
  <2>2. target[c] \in Runs /\ entries[target[c]] = e /\ e # NoEntry
    BY <1>0, <2>0, <2>1 DEF CallersAgree, TypeOK
  <2>3. refCount[e] = Cardinality(Users(e)) /\ refCount[e] # 0 /\ refCount[e] \in Nat
    BY <1>0, <2>2 DEF CountsUsers, TypeOK
  <2>4. ASSUME refCount[e] = 1, NEW d \in Callers, entry[d] = e PROVE d = c
    <3>1. c \in Users(e) /\ d \in Users(e) /\ IsFiniteSet(Users(e))
      BY <2>0, <2>4, UsersFinite DEF Users
    <3>2. IsFiniteSet(Users(e) \ {c}) /\ Cardinality(Users(e) \ {c}) = Cardinality(Users(e)) - 1
      BY <3>1, FS_RemoveElement
    <3>3. Users(e) \ {c} = {}
      BY <2>3, <2>4, <3>2, FS_EmptySet
    <3>4. QED BY <3>1, <3>3
  <2>5. TypeOK'
    <3>1. refCount[e] - 1 \in Nat
      BY <2>3
    <3>2. QED BY <1>0, <2>1, <2>2, <3>1 DEF TypeOK
  <2>6. CallersAgree'
    <3>1. ASSUME NEW d \in Callers
          PROVE  /\ pc'[d] = "idle" <=> entry'[d] = NoEntry
                 /\ pc'[d] # "idle" => entries'[target'[d]] = entry'[d]
      <4>1. CASE d = c
        BY <1>0, <2>1, <4>1 DEF TypeOK
      <4>2. CASE d # c
        <5>1. pc'[d] = pc[d] /\ entry'[d] = entry[d] /\ target'[d] = target[d] /\ target[d] \in Runs
          BY <1>0, <2>1, <4>2 DEF TypeOK
        <5>2. pc[d] # "idle" => entries'[target[d]] = entries[target[d]]
          <6>1. CASE refCount[e] = 1
            <7>1. pc[d] # "idle" => entries[target[d]] # e
              BY <1>0, <2>4, <4>2, <6>1 DEF CallersAgree
            <7>2. QED BY <1>0, <2>1, <2>2, <5>1, <7>1 DEF TypeOK
          <6>2. CASE refCount[e] # 1
            BY <2>1, <6>2
          <6>3. QED BY <6>1, <6>2
        <5>3. QED BY <1>0, <5>1, <5>2 DEF CallersAgree
      <4>3. QED BY <4>1, <4>2
    <3>2. QED BY <3>1 DEF CallersAgree
  <2>7. EntriesDistinct'
    BY <1>0, <2>1, <2>2 DEF EntriesDistinct, TypeOK
  <2>8. CountsUsers'
    <3>1. ASSUME NEW f \in Entries PROVE refCount'[f] = Cardinality(Users(f)')
      <4>1. CASE f = e
        <5>1. Cardinality(Users(e)') = Cardinality(Users(e)) - 1
          BY <1>0, <2>0, <2>1, <2>2, UsersRemoved DEF TypeOK
        <5>2. QED BY <1>0, <2>1, <2>2, <2>3, <4>1, <5>1 DEF TypeOK
      <4>2. CASE f # e
        <5>1. f # NoEntry
          BY EntriesAssumption
        <5>2. Users(f)' = Users(f)
          BY <1>0, <2>0, <2>1, <4>2, <5>1, UsersKept DEF TypeOK
        <5>3. QED BY <1>0, <2>1, <4>2, <5>2 DEF CountsUsers, TypeOK
      <4>3. QED BY <4>1, <4>2
    <3>2. ASSUME NEW q \in Runs, entries'[q] # NoEntry PROVE refCount'[entries'[q]] # 0
      <4>1. entries'[q] = entries[q] /\ entries[q] \in Entries
        BY <1>0, <2>1, <2>2, <3>2 DEF TypeOK
      <4>2. CASE entries[q] = e
        <5>1. refCount[e] # 1
          <6>1. q = target[c]
            BY <1>0, <2>2, <4>2 DEF EntriesDistinct
          <6>2. QED BY <1>0, <2>1, <2>2, <3>2, <6>1 DEF TypeOK
        <5>2. refCount[e] - 1 # 0
          BY <2>3, <5>1
        <5>3. QED BY <1>0, <2>1, <2>2, <4>1, <4>2, <5>2 DEF TypeOK
      <4>3. CASE entries[q] # e
        <5>1. refCount[entries[q]] # 0
          BY <1>0, <4>1, EntriesAssumption DEF CountsUsers
        <5>2. refCount'[entries[q]] = refCount[entries[q]]
          BY <1>0, <2>0, <2>1, <4>1, <4>3 DEF TypeOK
        <5>3. QED BY <4>1, <5>1, <5>2
      <4>4. QED BY <4>2, <4>3
    <3>3. QED BY <3>1, <3>2 DEF CountsUsers
  <2>9. OwnersHold'
    BY <1>0, <2>1 DEF OwnersHold, TypeOK
  <2>10. QED BY <2>5, <2>6, <2>7, <2>8, <2>9 DEF LocksInv
<1>4. CASE UNCHANGED vars
  BY <1>0, <1>4 DEF vars, LocksInv, TypeOK, CallersAgree, EntriesDistinct, CountsUsers,
                              OwnersHold, Users
<1>5. QED BY <1>1, <1>2, <1>3, <1>4 DEF Next

\* Every reachable state satisfies LocksInv: the callers at work on a run share the
\* entry the map has, and an entry is in the map exactly as long as somebody refers to
\* it (lock and its closure, agent/runner.go).
THEOREM LocksInvariant == Spec => []LocksInv
<1>1. QED BY LocksInit, LocksStep, PTL DEF Spec

-----------------------------------------------------------------------------
(***************************************************************************)
(* The refinement.                                                         *)
(***************************************************************************)

\* Nobody waits for and nobody holds a mutex of the empty map.
LEMMA MutexInit == Init => Mutex!Init
BY DEF Init, Mutex!Init, waiting, holder

\* Every step is one of the abstract mutex, or, when a reference is dropped, none.
LEMMA MutexStep == LocksInv /\ LocksInv' /\ [Next]_vars => [Mutex!Next]_(Mutex!mutexVars)
<1> SUFFICES ASSUME LocksInv, LocksInv', [Next]_vars
             PROVE  [Mutex!Next]_(Mutex!mutexVars)
  OBVIOUS
<1>0. /\ TypeOK /\ CallersAgree /\ EntriesDistinct /\ CountsUsers /\ OwnersHold
      /\ TypeOK' /\ CallersAgree' /\ EntriesDistinct' /\ CountsUsers' /\ OwnersHold'
  BY DEF LocksInv
<1>1. ASSUME NEW c \in Callers, Register(c) PROVE Mutex!Next
  <2>1. PICK r \in Runs, e \in Entries :
          /\ pc[c] = "idle"
          /\ EntryFor(r, e)
          /\ entries' = [entries EXCEPT ![r] = e]
          /\ owner' = IF entries[r] = e THEN owner ELSE [owner EXCEPT ![e] = Nobody]
          /\ pc' = [pc EXCEPT ![c] = "waiting"]
          /\ target' = [target EXCEPT ![c] = r]
    BY <1>1 DEF Register
  <2>2. /\ \A q \in Runs : q # r => entries[q] # e
        /\ entries[r] # e => entries[r] = NoEntry /\ owner[e] = Nobody
    BY <2>1, EntryForFacts
  <2>3. owner' = owner /\ e # NoEntry
    BY <1>0, <2>1, <2>2, EntriesAssumption DEF TypeOK
  <2>4. waiting' = [waiting EXCEPT ![r] = @ \cup {c}]
    <3>1. ASSUME NEW q \in Runs
          PROVE  waiting'[q] = IF q = r THEN waiting[q] \cup {c} ELSE waiting[q]
      BY <1>0, <2>1 DEF waiting, TypeOK
    <3>2. QED BY <3>1 DEF waiting
  <2>5. holder' = holder
    <3>1. ASSUME NEW q \in Runs PROVE holder'[q] = holder[q]
      BY <1>0, <2>1, <2>2, <2>3 DEF holder, TypeOK
    <3>2. QED BY <3>1 DEF holder
  <2>6. \A q \in Runs : c \notin waiting[q] /\ holder[q] # c
    BY <1>0, <2>1, CallersAssumption DEF waiting, holder, OwnersHold, TypeOK
  <2>7. QED BY <2>4, <2>5, <2>6 DEF Mutex!Next, Mutex!Request
<1>2. ASSUME NEW c \in Callers, Acquire(c) PROVE Mutex!Next
  <2>0. PICK r \in Runs : target[c] = r
    BY <1>0 DEF TypeOK
  <2>1. r \in Runs /\ entry[c] \in Entries /\ entries[r] = entry[c] /\ entry[c] # NoEntry
    BY <1>0, <1>2, <2>0, EntriesAssumption DEF Acquire, CallersAgree, TypeOK
  <2>2. waiting' = [waiting EXCEPT ![r] = @ \ {c}]
    <3>1. ASSUME NEW q \in Runs
          PROVE  waiting'[q] = IF q = r THEN waiting[q] \ {c} ELSE waiting[q]
      BY <1>0, <1>2, <2>0 DEF waiting, TypeOK, Acquire
    <3>2. QED BY <3>1 DEF waiting
  <2>3. holder' = [holder EXCEPT ![r] = c]
    <3>1. ASSUME NEW q \in Runs
          PROVE  holder'[q] = IF q = r THEN c ELSE holder[q]
      BY <1>0, <1>2, <2>0, <2>1 DEF holder, TypeOK, Acquire, EntriesDistinct
    <3>2. QED BY <3>1 DEF holder
  <2>4. c \in waiting[r] /\ holder[r] = Nobody
    BY <1>2, <2>0, <2>1 DEF waiting, holder, Acquire
  <2>5. QED BY <2>1, <2>2, <2>3, <2>4 DEF Mutex!Next, Mutex!Acquire
<1>3. ASSUME NEW c \in Callers, Unlock(c) PROVE Mutex!Next
  <2>0. PICK r \in Runs : target[c] = r
    BY <1>0 DEF TypeOK
  <2>1. r \in Runs /\ entry[c] \in Entries /\ entries[r] = entry[c] /\ entry[c] # NoEntry
    BY <1>0, <1>3, <2>0, EntriesAssumption DEF Unlock, CallersAgree, TypeOK
  <2>2. waiting' = waiting
    <3>1. ASSUME NEW q \in Runs PROVE waiting'[q] = waiting[q]
      BY <1>0, <1>3 DEF waiting, TypeOK, Unlock
    <3>2. QED BY <3>1 DEF waiting
  <2>3. holder' = [holder EXCEPT ![r] = Nobody]
    <3>1. ASSUME NEW q \in Runs
          PROVE  holder'[q] = IF q = r THEN Nobody ELSE holder[q]
      BY <1>0, <1>3, <2>1 DEF holder, TypeOK, Unlock, EntriesDistinct
    <3>2. QED BY <3>1 DEF holder
  <2>4. holder[r] = c
    BY <1>0, <1>3, <2>1 DEF holder, Unlock, OwnersHold
  <2>5. QED BY <2>1, <2>2, <2>3, <2>4 DEF Mutex!Next, Mutex!Release
<1>4. ASSUME NEW c \in Callers, Unregister(c) PROVE UNCHANGED Mutex!mutexVars
  <2>1. waiting' = waiting
    <3>1. ASSUME NEW q \in Runs PROVE waiting'[q] = waiting[q]
      BY <1>0, <1>4 DEF waiting, TypeOK, Unregister
    <3>2. QED BY <3>1 DEF waiting
  <2>2. holder' = holder
    <3>1. ASSUME NEW q \in Runs PROVE holder'[q] = holder[q]
      <4>1. owner' = owner
        BY <1>4 DEF Unregister
      <4>2. CASE entries'[q] = entries[q]
        BY <4>1, <4>2 DEF holder
      <4>3. CASE entries'[q] # entries[q]
        <5>1. /\ pc[c] = "leaving" /\ q = target[c] /\ entries'[q] = NoEntry
              /\ refCount[entry[c]] = 1 /\ entries[q] = entry[c]
              /\ entry[c] \in Entries /\ entry[c] # NoEntry
          BY <1>0, <1>4, <4>3, EntriesAssumption DEF Unregister, TypeOK, CallersAgree
        <5>2. owner[entry[c]] = Nobody
          <6>1. SUFFICES ASSUME owner[entry[c]] # Nobody PROVE FALSE
            OBVIOUS
          <6> DEFINE d == owner[entry[c]]
          <6>2. d \in Callers /\ pc[d] = "holding" /\ entry[d] = entry[c]
            BY <1>0, <5>1, <6>1 DEF OwnersHold, TypeOK
          <6>3. d # c
            BY <5>1, <6>2
          <6>4. pc'[d] # "idle" /\ entry'[d] = entry[c] /\ target'[d] = target[d] /\ target[d] \in Runs
            BY <1>0, <1>4, <6>2, <6>3 DEF Unregister, TypeOK
          <6>5. entries'[target[d]] = entry[c] /\ entries[target[d]] = entry[c]
            BY <1>0, <6>2, <6>4 DEF CallersAgree
          <6>6. target[d] = q
            BY <1>0, <5>1, <6>4, <6>5 DEF EntriesDistinct
          <6>7. QED BY <5>1, <6>5, <6>6
        <5>3. QED BY <5>1, <5>2 DEF holder
      <4>4. QED BY <4>2, <4>3
    <3>2. QED BY <3>1 DEF holder
  <2>3. QED BY <2>1, <2>2 DEF Mutex!mutexVars
<1>5. CASE UNCHANGED vars
  BY <1>5 DEF vars, waiting, holder, Mutex!mutexVars
<1>6. QED BY <1>1, <1>2, <1>3, <1>4, <1>5 DEF Next

\* The entries that lock counts, shares and deletes behave as one mutex per run, which a
\* waiter gets only when nobody holds it (lockRunMutation, agent/runner.go).
THEOREM LocksImplementMutex == Spec => IsMutex
<1>1. QED BY MutexInit, MutexStep, LocksInvariant, PTL DEF Spec, IsMutex, Mutex!Spec
=============================================================================
