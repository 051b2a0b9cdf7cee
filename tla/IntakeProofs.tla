------------------------------ MODULE IntakeProofs ------------------------------
(***************************************************************************)
(* Theorems about CaptureInbox, for any number of hooks, events, delivery   *)
(* times and any capacity, however often hooks die or lose their lock; about *)
(* CaptureOutbox, for any number of events, processes and claims, and        *)
(* whatever leases run out; about Candidates and CandidateMaintenance, for    *)
(* any number of candidates, sources, anomaly keys and windows; about         *)
(* Capacity, for any memories, plans, limits and revisions; and about what    *)
(* MCIntake puts side by side.                                              *)
(***************************************************************************)
EXTENDS MCIntake, FiniteSetTheorems, TLAPS

HookStates == {"new", "waiting", "stealing", "saved", "failed", "dead"} \cup Holding

HookRows == [pc: HookStates, file: Files, kept: BOOLEAN]

InboxTyped ==
  /\ hook \in [Hooks -> HookRows]
  /\ inboxLock \in [owner: Hooks \cup {NoHook}, old: BOOLEAN]
  /\ robbed \in Nat
  /\ pending \subseteq Files /\ notes \subseteq Events
  /\ IsFiniteSet(pending) /\ IsFiniteSet(notes)

(***************************************************************************)
(* Where an event that was accepted is kept.                                *)
(***************************************************************************)
Stored == {f.event : f \in pending} \cup notes \cup bad \cup outbox \cup observed

(***************************************************************************)
(* A hook reports its event as captured, or is about to, only when the      *)
(* event is stored; a file goes only when its event is in the database.     *)
(***************************************************************************)
Accepted ==
  /\ \A h \in Hooks : hook[h].pc = "saved" \/ (hook[h].pc = "leaving" /\ hook[h].kept)
                        => Event(h) \in Stored
  /\ \A f \in importing : f.event \in outbox \cup observed

(***************************************************************************)
(* Event files and outbox rows are of events that may be stored, and        *)
(* dispositions of the others.                                              *)
(***************************************************************************)
Sorted ==
  /\ \A f \in pending : f.event \notin Sensitive
  /\ outbox \cap Sensitive = {} /\ notes \subseteq Sensitive

(***************************************************************************)
(* The hooks that are inside without the lock, each robbed of it by another *)
(* hook, and those that have found room for a file they have not written.   *)
(***************************************************************************)
Intruders == {h \in Hooks : hook[h].pc \in Holding /\ inboxLock.owner # h}

WritersInside == {h \in Hooks : hook[h].pc = "writing"}

RoomKept ==
  /\ Cardinality(Intruders) <= robbed
  /\ Occupied + Cardinality(WritersInside) <= Capacity + robbed

InboxInv == InboxTyped /\ Accepted /\ Sorted /\ RoomKept

-----------------------------------------------------------------------------
LEMMA InboxConstants ==
  /\ IsFiniteSet(Hooks) /\ Capacity \in Nat /\ NoHook \notin Hooks
  /\ Sensitive \subseteq Events /\ Cardinality({}) = 0
  BY InboxAssumption, FS_EmptySet

(***************************************************************************)
(* Sets of hooks are finite, and so are the files.                          *)
(***************************************************************************)
LEMMA HookSets ==
  ASSUME NEW S \in SUBSET Hooks
  PROVE  /\ IsFiniteSet(S) /\ Cardinality(S) \in Nat
         /\ \A h \in Hooks \ S : Cardinality(S \cup {h}) = Cardinality(S) + 1
         /\ \A h \in S : Cardinality(S \ {h}) = Cardinality(S) - 1
         /\ \A T \in SUBSET S : Cardinality(T) <= Cardinality(S)
<1>1. IsFiniteSet(S) /\ Cardinality(S) \in Nat
  BY InboxConstants, FS_Subset, FS_CardinalityType
<1>2. \A h \in Hooks \ S : Cardinality(S \cup {h}) = Cardinality(S) + 1
  BY <1>1, FS_AddElement
<1>3. \A h \in S : Cardinality(S \ {h}) = Cardinality(S) - 1
  BY <1>1, FS_RemoveElement
<1>4. \A T \in SUBSET S : Cardinality(T) <= Cardinality(S)
  BY <1>1, FS_Subset
<1> QED BY <1>1, <1>2, <1>3, <1>4

LEMMA OneMoreHook ==
  ASSUME NEW S \in SUBSET Hooks, NEW h \in Hooks
  PROVE  /\ Cardinality(S \cup {h}) \in Nat
         /\ Cardinality(S \cup {h}) <= Cardinality(S) + 1
<1>1. CASE h \in S
  <2>1. S \cup {h} = S
    BY <1>1
  <2> QED BY <2>1, HookSets
<1>2. CASE h \notin S
  <2>1. S \cup {h} \in SUBSET Hooks /\ h \in Hooks \ S
    BY <1>2
  <2> QED BY <2>1, HookSets
<1> QED BY <1>1, <1>2

LEMMA OccupiedType ==
  ASSUME InboxTyped
  PROVE  Occupied \in Nat /\ Cardinality(pending) \in Nat /\ Cardinality(notes) \in Nat
  BY FS_CardinalityType DEF InboxTyped, Occupied

(***************************************************************************)
(* Files that go make room.                                                 *)
(***************************************************************************)
LEMMA FewerFiles ==
  ASSUME InboxTyped, pending' \subseteq pending, notes' \subseteq notes
  PROVE  /\ IsFiniteSet(pending') /\ IsFiniteSet(notes')
         /\ Occupied' \in Nat /\ Occupied' <= Occupied
<1>1. /\ IsFiniteSet(pending') /\ Cardinality(pending') <= Cardinality(pending)
      /\ IsFiniteSet(notes') /\ Cardinality(notes') <= Cardinality(notes)
  BY FS_Subset DEF InboxTyped
<1>2. /\ Cardinality(pending') \in Nat /\ Cardinality(notes') \in Nat
      /\ Cardinality(pending) \in Nat /\ Cardinality(notes) \in Nat
  BY <1>1, FS_CardinalityType DEF InboxTyped
<1> QED BY <1>1, <1>2 DEF Occupied

(***************************************************************************)
(* A hook moves on: what becomes of its row.                                *)
(***************************************************************************)
LEMMA HookMoves ==
  ASSUME InboxTyped, NEW h \in Hooks, NEW pc \in HookStates, NEW k \in BOOLEAN,
         hook' = [hook EXCEPT ![h].pc = pc, ![h].kept = k] \/
         (hook' = [hook EXCEPT ![h].pc = pc] /\ k = hook[h].kept)
  PROVE  /\ hook' \in [Hooks -> HookRows] /\ hook'[h].pc = pc /\ hook'[h].kept = k
         /\ hook'[h].file = hook[h].file
         /\ \A g \in Hooks : g # h => hook'[g] = hook[g]
         /\ \A g \in Hooks : Event(g)' = Event(g)
<1>1. hook \in [Hooks -> HookRows] /\ hook[h] \in HookRows
  BY DEF InboxTyped
<1> DEFINE r == [hook[h] EXCEPT !.pc = pc, !.kept = k]
<1>2. r \in HookRows /\ r.pc = pc /\ r.kept = k /\ r.file = hook[h].file
  BY <1>1 DEF HookRows
<1>3. hook' = [hook EXCEPT ![h] = r]
  <2>1. CASE hook' = [hook EXCEPT ![h].pc = pc, ![h].kept = k]
    BY <2>1, <1>1
  <2>2. CASE hook' = [hook EXCEPT ![h].pc = pc] /\ k = hook[h].kept
    <3>1. r = [hook[h] EXCEPT !.pc = pc]
      BY <1>1, <2>2 DEF HookRows
    <3> QED BY <2>2, <3>1
  <2> QED BY <2>1, <2>2
<1> HIDE DEF r
<1>4. /\ hook' \in [Hooks -> HookRows] /\ hook'[h] = r
      /\ \A g \in Hooks : g # h => hook'[g] = hook[g]
  BY <1>1, <1>2, <1>3
<1>5. \A g \in Hooks : hook'[g].file = hook[g].file
  BY <1>2, <1>4
<1> QED BY <1>2, <1>4, <1>5 DEF Event

LEMMA HookGoes ==
  ASSUME InboxTyped, NEW h \in Hooks, NEW pc \in HookStates, Goes(h, pc)
  PROVE  /\ hook' \in [Hooks -> HookRows] /\ hook'[h].pc = pc /\ hook'[h].kept = hook[h].kept
         /\ hook'[h].file = hook[h].file
         /\ \A g \in Hooks : g # h => hook'[g] = hook[g]
         /\ \A g \in Hooks : Event(g)' = Event(g)
<1> DEFINE k == hook[h].kept
<1>1. k \in BOOLEAN
  BY DEF InboxTyped, HookRows
<1>2. hook' = [hook EXCEPT ![h].pc = pc] /\ k = hook[h].kept
  BY DEF Goes
<1> HIDE DEF k
<1> QED BY <1>1, <1>2, HookMoves


(***************************************************************************)
(* The sets RoomKept counts, after a hook has moved on.                     *)
(***************************************************************************)
LEMMA InsideSets ==
  ASSUME InboxTyped
  PROVE  /\ Intruders \in SUBSET Hooks /\ WritersInside \in SUBSET Hooks
         /\ Cardinality(Intruders) \in Nat /\ Cardinality(WritersInside) \in Nat
         /\ \A h \in WritersInside : inboxLock.owner # h => h \in Intruders
<1>1. Intruders \in SUBSET Hooks /\ WritersInside \in SUBSET Hooks
  BY DEF Intruders, WritersInside
<1>2. \A h \in WritersInside : inboxLock.owner # h => h \in Intruders
  BY DEF Intruders, WritersInside, Holding
<1> QED BY <1>1, <1>2, HookSets

(***************************************************************************)
(* Room is kept by a step that adds no file, lets no hook become a writer,  *)
(* and adds to the intruders only the hook it robs.                         *)
(***************************************************************************)
LEMMA RoomStays ==
  ASSUME InboxTyped, InboxTyped', RoomKept, Occupied' <= Occupied,
         WritersInside' \subseteq WritersInside,
         \/ Intruders' \subseteq Intruders /\ robbed' = robbed
         \/ \E g \in Hooks : Intruders' \subseteq Intruders \cup {g} /\ robbed' = robbed + 1
         \/ Intruders' \subseteq Intruders /\ robbed' = robbed + 1
  PROVE  RoomKept'
<1>1. /\ Intruders \in SUBSET Hooks /\ WritersInside \in SUBSET Hooks
      /\ Cardinality(Intruders) \in Nat /\ Cardinality(WritersInside) \in Nat
  BY InsideSets
<1>2. /\ Intruders' \in SUBSET Hooks /\ WritersInside' \in SUBSET Hooks
  BY DEF Intruders, WritersInside
<1>3. Cardinality(Intruders') \in Nat /\ Cardinality(WritersInside') \in Nat
  BY <1>2, HookSets
<1>4. Cardinality(WritersInside') <= Cardinality(WritersInside)
  BY <1>1, HookSets
<1>5. robbed \in Nat /\ Occupied \in Nat /\ Occupied' \in Nat /\ Capacity \in Nat
  <2>1. Occupied \in Nat
    BY OccupiedType
  <2>2. Occupied' \in Nat
    BY FS_CardinalityType DEF InboxTyped, Occupied
  <2> QED BY <2>1, <2>2, InboxConstants DEF InboxTyped
<1>6. Cardinality(Intruders') <= robbed' /\ robbed' >= robbed /\ robbed' \in Nat
  <2>1. CASE Intruders' \subseteq Intruders /\ (robbed' = robbed \/ robbed' = robbed + 1)
    <3>1. Cardinality(Intruders') <= Cardinality(Intruders)
      BY <1>1, <2>1, HookSets
    <3> QED BY <1>1, <1>3, <1>5, <2>1, <3>1 DEF RoomKept
  <2>2. ASSUME NEW g \in Hooks, Intruders' \subseteq Intruders \cup {g}, robbed' = robbed + 1
        PROVE  Cardinality(Intruders') <= robbed' /\ robbed' >= robbed /\ robbed' \in Nat
    <3>1. Intruders \cup {g} \in SUBSET Hooks
      BY <1>1
    <3>2. /\ Cardinality(Intruders \cup {g}) \in Nat
          /\ Cardinality(Intruders \cup {g}) <= Cardinality(Intruders) + 1
      BY <1>1, OneMoreHook
    <3>3. Cardinality(Intruders') <= Cardinality(Intruders \cup {g})
      BY <2>2, <3>1, HookSets
    <3> QED BY <1>1, <1>3, <1>5, <2>2, <3>2, <3>3 DEF RoomKept
  <2> QED BY <2>1, <2>2
<1> QED BY <1>1, <1>3, <1>4, <1>5, <1>6 DEF RoomKept

(***************************************************************************)
(* A step of the Worker or of time leaves the hooks alone.                  *)
(***************************************************************************)
LEMMA HooksStay ==
  ASSUME InboxInv, InboxTyped', UNCHANGED <<hook, robbed>>, inboxLock'.owner = inboxLock.owner,
         Occupied' <= Occupied
  PROVE  RoomKept'
<1>1. Intruders' = Intruders /\ WritersInside' = WritersInside
  BY DEF Intruders, WritersInside
<1> QED BY <1>1, RoomStays DEF InboxInv

LEMMA BeginKeeps ==
  ASSUME InboxInv, NEW h \in Hooks,
         NEW pc \in HookStates, pc \notin Holding \cup {"saved"}, Goes(h, pc),
         UNCHANGED <<inboxLock, robbed, pending, notes, bad, outbox, observed, importing>>
  PROVE  InboxInv'
<1>1. hook' = [hook EXCEPT ![h].pc = pc]
  BY DEF Goes
<1>2. hook[h].kept \in BOOLEAN /\ InboxTyped
  BY DEF InboxInv, InboxTyped, HookRows
<1>3. /\ hook' \in [Hooks -> HookRows] /\ hook'[h].pc = pc
      /\ \A g \in Hooks : g # h => hook'[g] = hook[g]
      /\ \A g \in Hooks : Event(g)' = Event(g)
  BY <1>2, HookGoes
<1>4. InboxTyped'
  BY <1>3 DEF InboxInv, InboxTyped
<1>5. Accepted'
  BY <1>3 DEF InboxInv, Accepted, Stored, Holding
<1>6. Sorted'
  BY DEF InboxInv, Sorted
<1>7. Intruders' \subseteq Intruders /\ WritersInside' \subseteq WritersInside
  BY <1>3 DEF Intruders, WritersInside, Holding
<1>8. RoomKept'
  <2>1. Occupied' = Occupied /\ Occupied \in Nat
    BY OccupiedType DEF Occupied, InboxInv
  <2> QED BY <1>4, <1>7, <2>1, RoomStays DEF InboxInv
<1> QED BY <1>4, <1>5, <1>6, <1>8 DEF InboxInv

LEMMA TakeLockKeeps ==
  ASSUME InboxInv, NEW h \in Hooks, TakeLock(h)
  PROVE  InboxInv'
<1>1. hook[h].kept \in BOOLEAN /\ "counting" \in HookStates
  BY DEF InboxInv, InboxTyped, HookRows, HookStates, Holding
<1>2. /\ hook' \in [Hooks -> HookRows] /\ hook'[h].pc = "counting"
      /\ \A g \in Hooks : g # h => hook'[g] = hook[g]
      /\ \A g \in Hooks : Event(g)' = Event(g)
  BY <1>1, HookGoes DEF TakeLock, InboxInv
<1>3. inboxLock.owner = NoHook /\ inboxLock'.owner = h /\ hook[h].pc = "waiting"
  BY DEF TakeLock, NoLock
<1>4. InboxTyped'
  BY <1>2 DEF InboxInv, InboxTyped, TakeLock
<1>5. Accepted'
  BY <1>2 DEF TakeLock, InboxInv, Accepted, Stored
<1>6. Sorted'
  BY DEF TakeLock, InboxInv, Sorted
<1>7. Intruders' \subseteq Intruders /\ WritersInside' \subseteq WritersInside
  BY <1>2, <1>3, InboxConstants DEF Intruders, WritersInside
<1>8. RoomKept'
  <2>1. Occupied' = Occupied /\ Occupied \in Nat /\ robbed' = robbed
    BY OccupiedType DEF Occupied, InboxInv, TakeLock
  <2> QED BY <1>4, <1>7, <2>1, RoomStays DEF InboxInv
<1> QED BY <1>4, <1>5, <1>6, <1>8 DEF InboxInv


(***************************************************************************)
(* A lock that is removed makes an intruder of the hook it is taken from,   *)
(* and of nobody else.                                                      *)
(***************************************************************************)
LEMMA RemovalRobs ==
  ASSUME InboxInv, NEW h \in Hooks, RemoveLock(h), hook'[h].pc \notin Holding,
         \A g \in Hooks : g # h => hook'[g] = hook[g]
  PROVE  \/ Intruders' \subseteq Intruders /\ robbed' = robbed
         \/ \E g \in Hooks : Intruders' \subseteq Intruders \cup {g} /\ robbed' = robbed + 1
<1> DEFINE o == inboxLock.owner
<1>1. o \in Hooks \cup {NoHook} /\ NoHook \notin Hooks
  BY InboxConstants DEF InboxInv, InboxTyped
<1>2. Intruders' \subseteq {g \in Hooks : hook[g].pc \in Holding /\ g # h}
  BY DEF Intruders
<1>3. CASE Robs(h)
  <2>1. o \in Hooks /\ robbed' = robbed + 1
    BY <1>1, <1>3 DEF Robs, RemoveLock
  <2>2. Intruders' \subseteq Intruders \cup {o}
    BY <1>2 DEF Intruders
  <2> QED BY <2>1, <2>2
<1>4. CASE ~Robs(h)
  <2>1. robbed' = robbed
    BY <1>4 DEF RemoveLock
  <2>2. \A g \in Hooks : hook[g].pc \in Holding /\ g # h => o # g
    BY <1>1, <1>4 DEF Robs
  <2>3. Intruders' \subseteq Intruders
    BY <1>2, <2>2 DEF Intruders
  <2> QED BY <2>1, <2>3
<1> QED BY <1>3, <1>4

LEMMA RemovalTyped ==
  ASSUME InboxInv, NEW h \in Hooks, RemoveLock(h), hook' \in [Hooks -> HookRows],
         UNCHANGED <<pending, notes>>
  PROVE  InboxTyped'
<1>1. inboxLock' \in [owner: Hooks \cup {NoHook}, old: BOOLEAN]
  BY DEF RemoveLock, NoLock
<1>2. robbed' \in Nat
  BY DEF RemoveLock, InboxInv, InboxTyped
<1> QED BY <1>1, <1>2 DEF InboxInv, InboxTyped

LEMMA StealLockKeeps ==
  ASSUME InboxInv, NEW h \in Hooks, StealLock(h)
  PROVE  InboxInv'
<1>1. /\ hook[h].kept \in BOOLEAN /\ "waiting" \in HookStates /\ InboxTyped
      /\ RemoveLock(h) /\ "waiting" \notin Holding
  BY DEF InboxInv, InboxTyped, HookRows, HookStates, Holding, StealLock
<1>2. /\ hook' \in [Hooks -> HookRows] /\ hook'[h].pc = "waiting"
      /\ \A g \in Hooks : g # h => hook'[g] = hook[g]
      /\ \A g \in Hooks : Event(g)' = Event(g)
  BY <1>1, HookGoes DEF StealLock
<1>3. InboxTyped'
  BY <1>1, <1>2, RemovalTyped DEF StealLock
<1>4. Accepted'
  BY <1>2 DEF StealLock, InboxInv, Accepted, Stored
<1>5. Sorted'
  BY DEF StealLock, InboxInv, Sorted
<1>6. RoomKept'
  <2>1. Occupied' = Occupied /\ Occupied \in Nat
    BY OccupiedType DEF Occupied, InboxInv, StealLock
  <2>2. WritersInside' \subseteq WritersInside
    BY <1>2 DEF WritersInside
  <2> QED BY <1>1, <1>2, <1>3, <2>1, <2>2, RemovalRobs, RoomStays DEF InboxInv
<1> QED BY <1>3, <1>4, <1>5, <1>6 DEF InboxInv

LEMMA LeaveLockKeeps ==
  ASSUME InboxInv, NEW h \in Hooks, LeaveLock(h)
  PROVE  InboxInv'
<1> DEFINE to == IF hook[h].kept THEN "saved" ELSE "failed"
<1>1. /\ hook[h].kept \in BOOLEAN /\ to \in HookStates /\ InboxTyped
      /\ RemoveLock(h) /\ to \notin Holding /\ hook[h].pc = "leaving"
  BY DEF InboxInv, InboxTyped, HookRows, HookStates, Holding, LeaveLock
<1>2. hook' = [hook EXCEPT ![h].pc = to]
  BY DEF LeaveLock, Goes
<1> HIDE DEF to
<1>3. /\ hook' \in [Hooks -> HookRows] /\ hook'[h].pc = to /\ hook'[h].kept = hook[h].kept
      /\ \A g \in Hooks : g # h => hook'[g] = hook[g]
      /\ \A g \in Hooks : Event(g)' = Event(g)
  BY <1>1, <1>2, HookMoves
<1>4. InboxTyped'
  BY <1>1, <1>3, RemovalTyped DEF LeaveLock
<1>5. Accepted'
  BY <1>1, <1>3 DEF LeaveLock, InboxInv, Accepted, Stored, to
<1>6. Sorted'
  BY DEF LeaveLock, InboxInv, Sorted
<1>7. RoomKept'
  <2>1. Occupied' = Occupied /\ Occupied \in Nat
    BY OccupiedType DEF Occupied, InboxInv, LeaveLock
  <2>2. WritersInside' \subseteq WritersInside
    BY <1>1, <1>3 DEF WritersInside, Holding
  <2> QED BY <1>1, <1>3, <1>4, <2>1, <2>2, RemovalRobs, RoomStays DEF InboxInv
<1> QED BY <1>4, <1>5, <1>6, <1>7 DEF InboxInv

(***************************************************************************)
(* A hook that finds room: the writers inside are the intruders, at most    *)
(* one hook that has the lock, and no other.                                *)
(***************************************************************************)
LEMMA WritersBounded ==
  ASSUME InboxInv, NEW h \in Hooks, hook[h].pc = "counting"
  PROVE  /\ WritersInside \cup {h} \in SUBSET Hooks
         /\ Cardinality(WritersInside \cup {h}) <= robbed + 1
<1> DEFINE x == IF inboxLock.owner \in Hooks THEN inboxLock.owner ELSE h
<1>1. InboxTyped /\ x \in Hooks /\ Cardinality(Intruders) <= robbed /\ robbed \in Nat
  BY DEF InboxInv, InboxTyped, RoomKept
<1>2. /\ Intruders \in SUBSET Hooks /\ WritersInside \in SUBSET Hooks
      /\ Cardinality(Intruders) \in Nat
      /\ \A g \in WritersInside : inboxLock.owner # g => g \in Intruders
  BY <1>1, InsideSets
<1>3. WritersInside \cup {h} \subseteq Intruders \cup {x}
  <2>1. h \in Intruders \cup {x}
    BY DEF Intruders, Holding
  <2>2. \A g \in WritersInside : g \in Intruders \cup {x}
    BY <1>2
  <2> QED BY <2>1, <2>2
<1>4. Intruders \cup {x} \in SUBSET Hooks
  BY <1>1, <1>2
<1> HIDE DEF x
<1>5. /\ Cardinality(Intruders \cup {x}) <= Cardinality(Intruders) + 1
      /\ Cardinality(Intruders \cup {x}) \in Nat
  BY <1>1, <1>2, OneMoreHook
<1>6. Cardinality(WritersInside \cup {h}) <= Cardinality(Intruders \cup {x})
  BY <1>3, <1>4, HookSets
<1>7. Cardinality(WritersInside \cup {h}) \in Nat
  BY <1>2, HookSets
<1> QED BY <1>1, <1>2, <1>5, <1>6, <1>7

LEMMA CountKeeps ==
  ASSUME InboxInv, NEW h \in Hooks, Count(h)
  PROVE  InboxInv'
<1> DEFINE to == IF Kept(h) \/ Full THEN "leaving" ELSE "writing"
<1>1. /\ to \in HookStates /\ Kept(h) \in BOOLEAN /\ InboxTyped /\ hook[h].pc = "counting"
      /\ to \in {"leaving", "writing"} /\ (to = "writing" => ~Full) /\ hook[h].file \in Files
  BY DEF InboxInv, InboxTyped, HookRows, HookStates, Holding, Count, Kept
<1>2. hook' = [hook EXCEPT ![h].pc = to, ![h].kept = Kept(h)]
  BY DEF Count
<1> HIDE DEF to
<1>3. /\ hook' \in [Hooks -> HookRows] /\ hook'[h].pc = to /\ hook'[h].kept = Kept(h)
      /\ \A g \in Hooks : g # h => hook'[g] = hook[g]
      /\ \A g \in Hooks : Event(g)' = Event(g)
  BY <1>1, <1>2, HookMoves
<1>4. InboxTyped'
  BY <1>3 DEF InboxInv, InboxTyped, Count
<1>5. Accepted'
  <2>1. Kept(h) => Event(h) \in Stored
    BY DEF Kept, Event, Stored
  <2>2. Stored' = Stored /\ importing' = importing /\ outbox' = outbox /\ observed' = observed
    BY DEF Count, Stored
  <2> QED BY <1>1, <1>3, <2>1, <2>2 DEF InboxInv, Accepted
<1>6. Sorted'
  BY DEF Count, InboxInv, Sorted
<1>7. RoomKept'
  <2>1. Occupied' = Occupied /\ Occupied \in Nat /\ robbed' = robbed /\ inboxLock' = inboxLock
    BY OccupiedType DEF Occupied, InboxInv, Count
  <2>2. Intruders' = Intruders
    BY <1>1, <1>3, <2>1 DEF Intruders, Holding
  <2>3. CASE to = "leaving"
    <3>1. WritersInside' \subseteq WritersInside
      BY <1>3, <2>3 DEF WritersInside
    <3> QED BY <1>4, <2>1, <2>2, <3>1, RoomStays DEF InboxInv
  <2>4. CASE to = "writing"
    <3>1. WritersInside' = WritersInside \cup {h}
      BY <1>3, <2>4 DEF WritersInside
    <3>2. Cardinality(WritersInside') <= robbed + 1 /\ Cardinality(WritersInside') \in Nat
      BY <1>1, <3>1, WritersBounded, HookSets
    <3>3. Occupied < Capacity /\ Capacity \in Nat /\ robbed \in Nat
      BY <1>1, <2>1, <2>4, InboxConstants DEF Full, InboxTyped
    <3> QED BY <2>1, <2>2, <3>2, <3>3 DEF InboxInv, RoomKept
  <2> QED BY <1>1, <2>3, <2>4
<1> QED BY <1>4, <1>5, <1>6, <1>7 DEF InboxInv


(***************************************************************************)
(* A file more costs at most one place, and the writer gives one back.      *)
(***************************************************************************)
LEMMA OneMoreFile ==
  ASSUME InboxTyped, NEW f \in Files, NEW e \in Events,
         \/ pending' = pending \cup {f} /\ notes' = notes
         \/ pending' = pending /\ notes' = notes \cup {e}
  PROVE  /\ IsFiniteSet(pending') /\ IsFiniteSet(notes')
         /\ Occupied' \in Nat /\ Occupied' <= Occupied + 1
<1>1. /\ Cardinality(pending) \in Nat /\ Cardinality(notes) \in Nat
      /\ IsFiniteSet(pending) /\ IsFiniteSet(notes)
  BY OccupiedType DEF InboxTyped
<1>2. CASE pending' = pending \cup {f} /\ notes' = notes
  <2>1. /\ IsFiniteSet(pending \cup {f})
        /\ \/ Cardinality(pending \cup {f}) = Cardinality(pending)
           \/ Cardinality(pending \cup {f}) = Cardinality(pending) + 1
    BY <1>1, FS_AddElement
  <2> QED BY <1>1, <1>2, <2>1 DEF Occupied
<1>3. CASE pending' = pending /\ notes' = notes \cup {e}
  <2>1. /\ IsFiniteSet(notes \cup {e})
        /\ \/ Cardinality(notes \cup {e}) = Cardinality(notes)
           \/ Cardinality(notes \cup {e}) = Cardinality(notes) + 1
    BY <1>1, FS_AddElement
  <2> QED BY <1>1, <1>3, <2>1 DEF Occupied
<1> QED BY <1>2, <1>3

LEMMA WriteFileKeeps ==
  ASSUME InboxInv, NEW h \in Hooks, WriteFile(h)
  PROVE  InboxInv'
<1> DEFINE kept == Event(h) \notin Sensitive \/ ~Kept(h)
<1>1. /\ kept \in BOOLEAN /\ InboxTyped /\ hook[h].pc = "writing" /\ "leaving" \in HookStates
      /\ hook[h].file \in Files /\ Event(h) \in Events /\ hook[h].file.event = Event(h)
  BY DEF InboxInv, InboxTyped, HookRows, HookStates, Holding, WriteFile, Event, Files
<1>2. hook' = [hook EXCEPT ![h].pc = "leaving", ![h].kept = kept]
  BY DEF WriteFile
<1> HIDE DEF kept
<1>3. /\ hook' \in [Hooks -> HookRows] /\ hook'[h].pc = "leaving" /\ hook'[h].kept = kept
      /\ \A g \in Hooks : g # h => hook'[g] = hook[g]
      /\ \A g \in Hooks : Event(g)' = Event(g)
  BY <1>1, <1>2, HookMoves
<1>4. \/ /\ pending' = pending \cup {hook[h].file} /\ notes' = notes
         /\ Event(h) \notin Sensitive
      \/ /\ pending' = pending /\ notes' = notes \cup {Event(h)}
         /\ Event(h) \in Sensitive
  BY DEF WriteFile
<1>5. /\ IsFiniteSet(pending') /\ IsFiniteSet(notes')
      /\ Occupied' \in Nat /\ Occupied' <= Occupied + 1
  BY <1>1, <1>4, OneMoreFile
<1>6. InboxTyped'
  <2>1. pending' \subseteq Files /\ notes' \subseteq Events
    BY <1>1, <1>4 DEF InboxTyped
  <2> QED BY <1>1, <1>3, <1>5, <2>1 DEF InboxTyped, WriteFile
<1>7. Accepted'
  <2>1. Stored \subseteq Stored' /\ Event(h) \in Stored'
    BY <1>1, <1>4 DEF Stored, WriteFile
  <2>2. importing' = importing /\ outbox' = outbox /\ observed' = observed
    BY DEF WriteFile
  <2> QED BY <1>3, <2>1, <2>2 DEF InboxInv, Accepted
<1>8. Sorted'
  BY <1>1, <1>4 DEF WriteFile, InboxInv, Sorted
<1>9. RoomKept'
  <2>1. Intruders' = Intruders /\ robbed' = robbed /\ robbed \in Nat
    BY <1>1, <1>3 DEF Intruders, Holding, WriteFile, InboxTyped
  <2>2. h \in WritersInside /\ WritersInside' = WritersInside \ {h}
    BY <1>1, <1>3 DEF WritersInside
  <2>3. /\ WritersInside \in SUBSET Hooks /\ Cardinality(WritersInside) \in Nat
        /\ WritersInside \ {h} \in SUBSET Hooks
    BY <1>1, InsideSets
  <2>4. /\ Cardinality(WritersInside') = Cardinality(WritersInside) - 1
        /\ Cardinality(WritersInside') \in Nat
    BY <2>2, <2>3, HookSets
  <2>5. Occupied \in Nat /\ Capacity \in Nat
    BY <1>1, OccupiedType, InboxConstants
  <2> QED BY <1>5, <2>1, <2>3, <2>4, <2>5 DEF InboxInv, RoomKept
<1> QED BY <1>6, <1>7, <1>8, <1>9 DEF InboxInv

LEMMA HookDiesKeeps ==
  ASSUME InboxInv, NEW h \in Hooks, HookDies(h)
  PROVE  InboxInv'
  BY BeginKeeps DEF HookDies, HookStates, Holding

-----------------------------------------------------------------------------
(* The Worker.                                                              *)

LEMMA LockAgesKeeps ==
  ASSUME InboxInv, LockAges
  PROVE  InboxInv'
<1>1. InboxTyped' /\ inboxLock'.owner = inboxLock.owner
  BY DEF InboxInv, InboxTyped, LockAges
<1>2. Accepted' /\ Sorted'
  BY DEF InboxInv, Accepted, Sorted, Stored, Event, LockAges
<1>3. Occupied' = Occupied /\ Occupied \in Nat /\ UNCHANGED <<hook, robbed>>
  BY OccupiedType DEF InboxInv, Occupied, LockAges
<1>4. RoomKept'
  BY <1>1, <1>3, HooksStay
<1> QED BY <1>1, <1>2, <1>4 DEF InboxInv

LEMMA ImportEventKeeps ==
  ASSUME InboxInv, NEW f \in Files, ImportEvent(f)
  PROVE  InboxInv'
<1>1. InboxTyped'
  BY DEF InboxInv, InboxTyped, ImportEvent
<1>2. Accepted'
  BY DEF InboxInv, Accepted, Stored, Event, ImportEvent
<1>3. Sorted'
  BY DEF InboxInv, Sorted, ImportEvent
<1>4. Occupied' = Occupied /\ Occupied \in Nat /\ UNCHANGED <<hook, robbed, inboxLock>>
  BY OccupiedType DEF InboxInv, Occupied, ImportEvent
<1>5. RoomKept'
  BY <1>1, <1>4, HooksStay
<1> QED BY <1>1, <1>2, <1>3, <1>5 DEF InboxInv

LEMMA ImportNoteKeeps ==
  ASSUME InboxInv, NEW f \in Files, ImportNote(f)
  PROVE  InboxInv'
<1>1. InboxTyped'
  BY DEF InboxInv, InboxTyped, ImportNote
<1>2. Accepted'
  BY DEF InboxInv, Accepted, Stored, Event, ImportNote
<1>3. Sorted'
  BY DEF InboxInv, Sorted, ImportNote
<1>4. Occupied' = Occupied /\ Occupied \in Nat /\ UNCHANGED <<hook, robbed, inboxLock>>
  BY OccupiedType DEF InboxInv, Occupied, ImportNote
<1>5. RoomKept'
  BY <1>1, <1>4, HooksStay
<1> QED BY <1>1, <1>2, <1>3, <1>5 DEF InboxInv

LEMMA ImporterDiesKeeps ==
  ASSUME InboxInv, ImporterDies
  PROVE  InboxInv'
<1>1. InboxTyped'
  BY DEF InboxInv, InboxTyped, ImporterDies
<1>2. Accepted' /\ Sorted'
  BY DEF InboxInv, Accepted, Sorted, Stored, Event, ImporterDies
<1>3. Occupied' = Occupied /\ Occupied \in Nat /\ UNCHANGED <<hook, robbed, inboxLock>>
  BY OccupiedType DEF InboxInv, Occupied, ImporterDies
<1>4. RoomKept'
  BY <1>1, <1>3, HooksStay
<1> QED BY <1>1, <1>2, <1>4 DEF InboxInv

(***************************************************************************)
(* A file whose event is in the database or in the quarantine directory may *)
(* go: the removal also takes the disposition of the same event.            *)
(***************************************************************************)
LEMMA FileGoes ==
  ASSUME InboxInv, NEW f \in Files, RemoveFile(f), f.event \in bad' \cup outbox \cup observed,
         bad \subseteq bad', UNCHANGED <<hook, inboxLock, robbed, outbox, observed>>
  PROVE  InboxInv'
<1>1. /\ pending' \subseteq pending /\ notes' \subseteq notes /\ importing' = {}
      /\ \A e \in notes : e # f.event => e \in notes'
      /\ pending' = pending \ {f}
  BY DEF RemoveFile
<1>2. InboxTyped /\ IsFiniteSet(pending') /\ IsFiniteSet(notes')
      /\ Occupied' \in Nat /\ Occupied' <= Occupied
  BY <1>1, FewerFiles DEF InboxInv
<1>3. InboxTyped'
  BY <1>1, <1>2 DEF InboxTyped
<1>4. Stored \subseteq Stored'
  <2>1. SUFFICES ASSUME NEW e \in Stored, e # f.event PROVE e \in Stored'
    BY DEF Stored
  <2>2. CASE e \in {g.event : g \in pending}
    <3>1. PICK g \in pending : e = g.event
      BY <2>2
    <3>2. g \in pending'
      BY <1>1, <2>1, <3>1
    <3> QED BY <3>1, <3>2 DEF Stored
  <2>3. CASE e \in notes \cup bad \cup outbox \cup observed
    BY <1>1, <2>1, <2>3 DEF Stored
  <2> QED BY <2>2, <2>3 DEF Stored
<1>5. Accepted'
  BY <1>1, <1>4 DEF InboxInv, Accepted, Event
<1>6. Sorted'
  BY <1>1 DEF InboxInv, Sorted
<1>7. RoomKept'
  BY <1>2, <1>3, HooksStay
<1> QED BY <1>3, <1>5, <1>6, <1>7 DEF InboxInv

LEMMA UnlinkKeeps ==
  ASSUME InboxInv, NEW f \in Files, Unlink(f)
  PROVE  InboxInv'
  BY FileGoes DEF Unlink, InboxInv, Accepted

LEMMA QuarantineKeeps ==
  ASSUME InboxInv, NEW f \in Files, QuarantineFile(f)
  PROVE  InboxInv'
  BY FileGoes DEF QuarantineFile

-----------------------------------------------------------------------------
LEMMA InboxStarts ==
  ASSUME InboxInit
  PROVE  InboxInv
<1>1. hook \in [Hooks -> HookRows] /\ \A h \in Hooks : hook[h].pc = "new"
  <2> DEFINE New == {[pc |-> "new", file |-> f, kept |-> FALSE] : f \in Files}
  <2>1. \A r \in New : r \in HookRows /\ r.pc = "new"
    <3> SUFFICES ASSUME NEW f \in Files
                 PROVE  LET r == [pc |-> "new", file |-> f, kept |-> FALSE]
                        IN  r \in HookRows /\ r.pc = "new"
      OBVIOUS
    <3> QED BY DEF HookRows, HookStates
  <2>2. hook \in [Hooks -> New]
    BY DEF InboxInit
  <2> HIDE DEF New
  <2> QED BY <2>1, <2>2
<1>2. InboxTyped
  BY <1>1, FS_EmptySet DEF InboxInit, InboxTyped, NoLock
<1>3. Accepted /\ Sorted
  BY <1>1 DEF InboxInit, Accepted, Sorted
<1>4. Intruders = {} /\ WritersInside = {}
  BY <1>1 DEF Intruders, WritersInside, Holding
<1>5. RoomKept
  BY <1>4, InboxConstants DEF RoomKept, Occupied, InboxInit
<1> QED BY <1>2, <1>3, <1>5 DEF InboxInv

LEMMA InboxStep ==
  ASSUME InboxInv, InboxNext
  PROVE  InboxInv'
<1>1. CASE LockAges
  BY <1>1, LockAgesKeeps
<1>2. CASE ImporterDies
  BY <1>2, ImporterDiesKeeps
<1>3. ASSUME NEW h \in Hooks, BeginCapture(h) PROVE InboxInv'
  BY <1>3, BeginKeeps DEF BeginCapture, HookStates, Holding
<1>4. ASSUME NEW h \in Hooks, TakeLock(h) PROVE InboxInv'
  BY <1>4, TakeLockKeeps
<1>5. ASSUME NEW h \in Hooks, FindStaleLock(h) PROVE InboxInv'
  BY <1>5, BeginKeeps DEF FindStaleLock, HookStates, Holding
<1>6. ASSUME NEW h \in Hooks, StealLock(h) PROVE InboxInv'
  BY <1>6, StealLockKeeps
<1>7. ASSUME NEW h \in Hooks, LockTimeout(h) PROVE InboxInv'
  BY <1>7, BeginKeeps DEF LockTimeout, HookStates, Holding
<1>8. ASSUME NEW h \in Hooks, Count(h) PROVE InboxInv'
  BY <1>8, CountKeeps
<1>9. ASSUME NEW h \in Hooks, WriteFile(h) PROVE InboxInv'
  BY <1>9, WriteFileKeeps
<1>10. ASSUME NEW h \in Hooks, LeaveLock(h) PROVE InboxInv'
  BY <1>10, LeaveLockKeeps
<1>11. ASSUME NEW h \in Hooks, HookDies(h) PROVE InboxInv'
  BY <1>11, HookDiesKeeps
<1>12. ASSUME NEW f \in Files, ImportEvent(f) PROVE InboxInv'
  BY <1>12, ImportEventKeeps
<1>13. ASSUME NEW f \in Files, ImportNote(f) PROVE InboxInv'
  BY <1>13, ImportNoteKeeps
<1>14. ASSUME NEW f \in Files, Unlink(f) PROVE InboxInv'
  BY <1>14, UnlinkKeeps
<1>15. ASSUME NEW f \in Files, QuarantineFile(f) PROVE InboxInv'
  BY <1>15, QuarantineKeeps
<1> QED BY <1>1, <1>2, <1>3, <1>4, <1>5, <1>6, <1>7, <1>8, <1>9, <1>10, <1>11, <1>12,
           <1>13, <1>14, <1>15 DEF InboxNext

LEMMA InboxStutters ==
  ASSUME InboxInv, UNCHANGED inboxVars
  PROVE  InboxInv'
<1>1. InboxTyped' /\ Accepted' /\ Sorted'
  BY DEF InboxInv, inboxVars, InboxTyped, Accepted, Sorted, Stored, Event
<1>2. RoomKept'
  BY DEF InboxInv, inboxVars, RoomKept, Occupied, Intruders, WritersInside
<1> QED BY <1>1, <1>2 DEF InboxInv

(***************************************************************************)
(* The inductive invariant of the Capture Inbox: accepted events are stored,*)
(* each kind of file holds what it may, and the places taken or promised    *)
(* exceed the limit by no more than the locks taken from live hooks.        *)
(***************************************************************************)
THEOREM InboxInvariant == InboxSpec => []InboxInv
<1>1. InboxInit => InboxInv
  BY InboxStarts
<1>2. InboxInv /\ [InboxNext]_inboxVars => InboxInv'
  BY InboxStep, InboxStutters
<1> QED BY <1>1, <1>2, PTL DEF InboxSpec

(***************************************************************************)
(* Whatever hooks and Worker die, whoever is robbed of the lock: an event a *)
(* hook reported as captured is in a file, in the database or in quarantine;*)
(* the inbox is overfull by no more than the robberies; and no body of a    *)
(* sensitive event reaches a file or the outbox.                            *)
(***************************************************************************)
THEOREM InboxSafeAlways == InboxSpec => []InboxSafe
<1>1. InboxInv => InboxSafe
  <2> SUFFICES ASSUME InboxInv PROVE InboxSafe
    OBVIOUS
  <2>1. AcceptedSurvives
    BY DEF InboxInv, Accepted, AcceptedSurvives, Stored
  <2>2. OverfullByRobbery
    <3>1. InboxTyped
      BY DEF InboxInv
    <3>2. /\ Cardinality(WritersInside) \in Nat /\ Occupied \in Nat
          /\ Capacity \in Nat /\ robbed \in Nat
      BY <3>1, InsideSets, OccupiedType, InboxConstants DEF InboxTyped
    <3> QED BY <3>2 DEF InboxInv, RoomKept, OverfullByRobbery
  <2>3. BodyFree
    BY DEF InboxInv, Sorted, BodyFree
  <2> QED BY <2>1, <2>2, <2>3 DEF InboxSafe
<1> QED BY <1>1, InboxInvariant, PTL


-----------------------------------------------------------------------------
(* Candidates, while one evaluation runs at a time: what the code leaves to *)
(* the lock that lets one Worker run.                                       *)

OneEvaluation == Overlap = FALSE

Generations == 0..Cardinality(Sources)

Evaluations ==
  [pc: {"idle", "claimed", "picked", "loaded", "read", "reserved", "written",
        "unassessed", "done"},
   candidate: CandidateIds, operation: Generations,
   answer: Answers \cup {"none"}, generation: Generations]

CandidatesTyped ==
  /\ evidenceRow \in [CandidateIds -> CandidateRows]
  /\ memory \in [CandidateIds -> [from: Generations, revised: BOOLEAN]]
  /\ assessment \in [CandidateIds \X EvidenceGenerations -> Answers \cup {"none"}]
  /\ evaluator \in [Evaluators -> Evaluations]

(***************************************************************************)
(* The gate's demand on evidence generation g of candidate k.               *)
(***************************************************************************)
Demanded(k, g) ==
  ~ evidenceRow[k].plain \/ g > 1 => g \in EvidenceGenerations /\ assessment[<<k, g>>] = "supported"

(***************************************************************************)
(* A reservation is for the evidence there is, and was earned; a canonical  *)
(* memory has a promoted candidate, or one reserved for the same evidence.  *)
(***************************************************************************)
CandidateSound(k) ==
  /\ evidenceRow[k].state \notin {"absent", "purged"} => GenerationOf(k) # 0
  /\ evidenceRow[k].reserved # 0 =>
       /\ evidenceRow[k].state = "waiting" /\ GenerationOf(k) = evidenceRow[k].reserved
       /\ Demanded(k, evidenceRow[k].reserved)
  /\ evidenceRow[k].state = "promoted" => memory[k].from # 0
  /\ memory[k].from # 0 =>
       /\ evidenceRow[k].state = "promoted" \/ evidenceRow[k].reserved = memory[k].from
       /\ Demanded(k, memory[k].from)

(***************************************************************************)
(* What a Worker remembers of its candidate between two transactions is     *)
(* still so.                                                                *)
(***************************************************************************)
Remembers(w) ==
  LET e == evaluator[w]  k == evaluator[w].candidate IN
  /\ e.pc \in {"loaded", "read"} /\ e.answer # "none" =>
       GenerationOf(k) \in EvidenceGenerations /\ assessment[<<k, GenerationOf(k)>>] = e.answer
  /\ e.pc = "read" =>
       evidenceRow[k].state \notin {"promoted", "absent", "purged"} /\ e.generation = GenerationOf(k)
  /\ e.pc \in {"reserved", "written"} =>
       e.generation # 0 /\ evidenceRow[k].reserved = e.generation
  /\ e.pc = "written" => memory[k].from # 0

CandidatesInv ==
  /\ CandidatesTyped
  /\ \A k \in CandidateIds : CandidateSound(k)
  /\ \A w \in Evaluators : Remembers(w)
  /\ \A v, w \in Evaluators : evaluator[v] # NotEvaluating /\ evaluator[w] # NotEvaluating => v = w

(***************************************************************************)
(* Anomalies: what is counted twice or more was anomalous in the window it  *)
(* was last found in and in the one before.                                 *)
(***************************************************************************)
AnomalySound(k) ==
  LET a == anomaly[k] IN
  /\ a.count \in Nat /\ a.last \in Nat
  /\ a.state # "absent" => a.last > 0 /\ a.count > 0 /\ a.last \in anomalous[k]
  /\ a.state # "absent" /\ a.count > 1 => a.last > 1 /\ a.last - 1 \in anomalous[k]
  /\ a.state = "persistent" => a.count > 1

MaintenanceInv ==
  /\ windows \in Nat /\ maintenance.window \in Nat
  /\ maintenance \in [window: Nat, evaluated: BOOLEAN]
  /\ anomaly \in [AnomalyKeys ->
       [state: {"absent", "provisional", "persistent", "resolved"}, last: Nat, count: Nat]]
  /\ anomalous \in [AnomalyKeys -> SUBSET Nat]
  /\ \A k \in AnomalyKeys : AnomalySound(k)


LEMMA EvaluatedSound ==
  ASSUME MaintenanceInv, NEW w \in Nat \ {0}, NEW found \in SUBSET AnomalyKeys,
         anomaly' = [k \in AnomalyKeys |-> Evaluated(anomaly[k], w, k \in found)],
         anomalous' = [k \in AnomalyKeys |->
                         IF k \in found THEN anomalous[k] \cup {w} ELSE anomalous[k]],
         NEW k \in AnomalyKeys
  PROVE  /\ AnomalySound(k)'
         /\ anomaly'[k] \in [state: {"absent", "provisional", "persistent", "resolved"},
                             last: Nat, count: Nat]
<1> DEFINE Rows == [state: {"absent", "provisional", "persistent", "resolved"},
                    last: Nat, count: Nat]
<1>1. anomaly[k] \in Rows /\ AnomalySound(k)
  BY DEF MaintenanceInv
<1>2. CASE k \in found
  <2>1. anomalous'[k] = anomalous[k] \cup {w}
    BY <1>2
  <2> DEFINE n == CountAfter(anomaly[k], w)
  <2>2. n \in Nat \ {0} /\ (n > 1 => w > 1 /\ w - 1 \in anomalous'[k])
    <3> DEFINE a == anomaly[k]
    <3>1. /\ a.last \in Nat /\ a.count \in Nat
          /\ a.state # "absent" => a.last > 0 /\ a.count > 0 /\ a.last \in anomalous[k]
          /\ a.state # "absent" /\ a.count > 1 => a.last > 1 /\ a.last - 1 \in anomalous[k]
      BY <1>1 DEF AnomalySound
    <3>2. n = IF a.state # "absent" /\ a.last = w THEN a.count
              ELSE IF a.state \in {"provisional", "persistent"} /\ a.last = w - 1
                   THEN a.count + 1 ELSE 1
      BY DEF CountAfter
    <3> HIDE DEF n, a
    <3>3. CASE a.state # "absent" /\ a.last = w
      BY <2>1, <3>1, <3>2, <3>3
    <3>4. CASE a.state \in {"provisional", "persistent"} /\ a.last = w - 1
      <4>1. a.state # "absent" /\ a.last # w /\ n = a.count + 1
        BY <3>1, <3>2, <3>4
      <4> QED BY <2>1, <3>1, <3>4, <4>1
    <3>5. CASE ~ (a.state # "absent" /\ a.last = w)
               /\ ~ (a.state \in {"provisional", "persistent"} /\ a.last = w - 1)
      BY <3>2, <3>5
    <3> QED BY <3>3, <3>4, <3>5
  <2>3. anomaly'[k] = [state |-> IF n >= 2 THEN "persistent" ELSE "provisional",
                       last |-> w, count |-> n]
    BY <1>2 DEF Evaluated
  <2> HIDE DEF n
  <2> QED BY <2>1, <2>2, <2>3 DEF AnomalySound
<1>3. CASE k \notin found
  <2>1. anomalous'[k] = anomalous[k]
    BY <1>3
  <2>2. \/ anomaly[k].state = "absent" /\ anomaly'[k] = anomaly[k]
        \/ anomaly[k].state # "absent" /\ anomaly'[k] = [anomaly[k] EXCEPT !.state = "resolved"]
    BY <1>3 DEF Evaluated
  <2> QED BY <1>1, <2>1, <2>2 DEF AnomalySound
<1> QED BY <1>2, <1>3

LEMMA MaintenanceStep ==
  ASSUME MaintenanceInv, [MaintenanceNext]_maintenanceVars
  PROVE  MaintenanceInv'
<1>1. CASE EvaluateAnomalies
  <2>1. maintenance.window \in Nat \ {0} /\ windows' = windows
    BY <1>1 DEF EvaluateAnomalies, MaintenanceInv
  <2>2. PICK found \in SUBSET AnomalyKeys :
          /\ anomaly' = [k \in AnomalyKeys |->
                           Evaluated(anomaly[k], maintenance.window, k \in found)]
          /\ anomalous' = [k \in AnomalyKeys |->
                 IF k \in found THEN anomalous[k] \cup {maintenance.window} ELSE anomalous[k]]
    BY <1>1 DEF EvaluateAnomalies
  <2>3. \A k \in AnomalyKeys :
          /\ AnomalySound(k)'
          /\ anomaly'[k] \in [state: {"absent", "provisional", "persistent", "resolved"},
                              last: Nat, count: Nat]
    BY <2>1, <2>2, EvaluatedSound
  <2>4. /\ anomaly' \in [AnomalyKeys ->
             [state: {"absent", "provisional", "persistent", "resolved"}, last: Nat, count: Nat]]
        /\ anomalous' \in [AnomalyKeys -> SUBSET Nat]
    BY <2>1, <2>2, <2>3 DEF MaintenanceInv
  <2>5. maintenance' \in [window: Nat, evaluated: BOOLEAN] /\ maintenance'.window \in Nat
    BY <1>1 DEF EvaluateAnomalies, MaintenanceInv
  <2> QED BY <2>1, <2>3, <2>4, <2>5 DEF MaintenanceInv
<1>2. CASE /\ UNCHANGED <<anomaly, anomalous>>
           /\ windows' \in Nat /\ maintenance' \in [window: Nat, evaluated: BOOLEAN]
  BY <1>2 DEF MaintenanceInv, AnomalySound
<1>3. CASE CompleteWeekly
  BY <1>2, <1>3 DEF CompleteWeekly, MaintenanceInv
<1>4. CASE BeginMaintenance
  BY <1>2, <1>4 DEF BeginMaintenance, MaintenanceInv
<1>5. CASE RecordMaintenance
  BY <1>2, <1>5 DEF RecordMaintenance, MaintenanceInv
<1>6. CASE MaintenanceDies
  BY <1>2, <1>6 DEF MaintenanceDies, MaintenanceInv
<1>7. CASE UNCHANGED maintenanceVars
  <2>1. UNCHANGED <<windows, maintenance, anomaly, anomalous>>
    BY <1>7 DEF maintenanceVars
  <2> QED BY <1>2, <2>1 DEF MaintenanceInv
<1> QED BY <1>1, <1>3, <1>4, <1>5, <1>6, <1>7 DEF MaintenanceNext

(***************************************************************************)
(* The invariant of the anomalies: what was counted twice was found in two  *)
(* windows that follow each other, although a window is evaluated again     *)
(* after a Worker died and although an anomaly may be resolved between.     *)
(***************************************************************************)
THEOREM MaintenanceInvariant == MaintenanceSpec => []MaintenanceInv
<1>1. MaintenanceInit => MaintenanceInv
  BY DEF MaintenanceInit, MaintenanceInv, NotSeen, AnomalySound
<1>2. MaintenanceInv /\ [MaintenanceNext]_maintenanceVars => MaintenanceInv'
  BY MaintenanceStep
<1> QED BY <1>1, <1>2, PTL DEF MaintenanceSpec


-----------------------------------------------------------------------------
LEMMA SourceCounts ==
  /\ Cardinality(Sources) \in Nat
  /\ \A S \in SUBSET Sources : Cardinality(S) \in Generations /\ (S # {} => Cardinality(S) # 0)
  /\ \A n \in Generations : n # 0 => n \in EvidenceGenerations
  /\ 1 \in CandidateIds
<1>1. IsFiniteSet(Sources) /\ MaxCandidates \in Nat \ {0}
  BY CandidatesAssumption
<1>2. Cardinality(Sources) \in Nat
  BY <1>1, FS_CardinalityType
<1>3. ASSUME NEW S \in SUBSET Sources
      PROVE  Cardinality(S) \in Generations /\ (S # {} => Cardinality(S) # 0)
  <2>1. IsFiniteSet(S) /\ Cardinality(S) <= Cardinality(Sources)
    BY <1>1, FS_Subset
  <2>2. Cardinality(S) \in Nat /\ (Cardinality(S) = 0 <=> S = {})
    BY <2>1, FS_CardinalityType, FS_EmptySet
  <2> QED BY <1>2, <2>1, <2>2 DEF Generations
<1> QED BY <1>1, <1>2, <1>3 DEF Generations, EvidenceGenerations, CandidateIds

LEMMA CandidateTypes ==
  ASSUME CandidatesTyped, NEW k \in CandidateIds
  PROVE  /\ evidenceRow[k] \in CandidateRows /\ GenerationOf(k) \in Generations
         /\ memory[k].from \in Generations
         /\ (evidenceRow[k].sources # {} => GenerationOf(k) # 0)
<1>1. evidenceRow[k] \in CandidateRows /\ memory[k].from \in Generations
  BY DEF CandidatesTyped
<1> QED BY <1>1, SourceCounts DEF CandidateRows, GenerationOf

(***************************************************************************)
(* What CandidateSound looks at, of a candidate that a step leaves alone.   *)
(***************************************************************************)
LEMMA CandidateLeft ==
  ASSUME NEW k \in CandidateIds, CandidateSound(k),
         evidenceRow'[k].state = evidenceRow[k].state,
         evidenceRow'[k].plain = evidenceRow[k].plain,
         evidenceRow'[k].sources = evidenceRow[k].sources,
         evidenceRow'[k].reserved = evidenceRow[k].reserved,
         memory'[k].from = memory[k].from,
         \A g \in EvidenceGenerations : assessment[<<k, g>>] = "supported"
                                          => assessment'[<<k, g>>] = "supported"
  PROVE  CandidateSound(k)'
<1>1. \A g : Demanded(k, g) => Demanded(k, g)'
  BY DEF Demanded
<1>2. GenerationOf(k)' = GenerationOf(k)
  BY DEF GenerationOf
<1> QED BY <1>1, <1>2 DEF CandidateSound

(***************************************************************************)
(* An idle Worker remembers nothing.                                        *)
(***************************************************************************)
LEMMA IdleRemembers ==
  ASSUME NEW w \in Evaluators, evaluator[w] = NotEvaluating
  PROVE  Remembers(w)
  BY DEF Remembers, NotEvaluating

(***************************************************************************)
(* A step that is taken while no Worker evaluates.                          *)
(***************************************************************************)
LEMMA AloneKeeps ==
  ASSUME OneEvaluation, CandidatesInv, Alone, CandidatesTyped', UNCHANGED evaluator,
         \A k \in CandidateIds : CandidateSound(k)'
  PROVE  CandidatesInv'
<1>1. \A w \in Evaluators : evaluator[w] = NotEvaluating
  BY DEF OneEvaluation, Alone
<1>2. \A w \in Evaluators : Remembers(w)'
  BY <1>1 DEF Remembers, NotEvaluating
<1> QED BY <1>1, <1>2 DEF CandidatesInv

(***************************************************************************)
(* A step of the one Worker that evaluates, or of the one that starts to.   *)
(***************************************************************************)
LEMMA EvaluatorKeeps ==
  ASSUME CandidatesInv, NEW w \in Evaluators, NEW e,
         evaluator' = [evaluator EXCEPT ![w] = e],
         \/ evaluator[w] # NotEvaluating
         \/ \A v \in Evaluators : evaluator[v] = NotEvaluating,
         CandidatesTyped', \A k \in CandidateIds : CandidateSound(k)',
         Remembers(w)'
  PROVE  CandidatesInv'
<1>1. \A v \in Evaluators : v # w => evaluator[v] = NotEvaluating /\ evaluator'[v] = evaluator[v]
  BY DEF CandidatesInv, CandidatesTyped
<1>2. \A v \in Evaluators : Remembers(v)'
  <2>1. \A v \in Evaluators : v # w => Remembers(v)'
    BY <1>1 DEF Remembers, NotEvaluating
  <2> QED BY <2>1
<1>3. \A u, v \in Evaluators : evaluator'[u] # NotEvaluating /\ evaluator'[v] # NotEvaluating => u = v
  BY <1>1
<1> QED BY <1>2, <1>3 DEF CandidatesInv

(***************************************************************************)
(* A step that changes neither candidates nor assessments.                  *)
(***************************************************************************)
LEMMA RowsKept ==
  ASSUME CandidatesInv, UNCHANGED <<evidenceRow, memory, assessment>>
  PROVE  /\ \A k \in CandidateIds : CandidateSound(k)'
         /\ evaluator' \in [Evaluators -> Evaluations] => CandidatesTyped'
<1>1. ASSUME NEW k \in CandidateIds PROVE CandidateSound(k)'
  BY CandidateLeft DEF CandidatesInv
<1> QED BY <1>1 DEF CandidatesInv, CandidatesTyped

LEMMA MergeEvidenceKeeps ==
  ASSUME OneEvaluation, CandidatesInv, NEW k \in CandidateIds, NEW e \in Sources,
         MergeEvidence(k, e)
  PROVE  CandidatesInv'
<1>1. evidenceRow[k] \in CandidateRows /\ evidenceRow \in [CandidateIds -> CandidateRows]
  BY DEF CandidatesInv, CandidatesTyped
<1>2. /\ evidenceRow' \in [CandidateIds -> CandidateRows]
      /\ \A j \in CandidateIds \ {k} : evidenceRow'[j] = evidenceRow[j]
      /\ evidenceRow'[k].state = evidenceRow[k].state
      /\ evidenceRow'[k].plain = evidenceRow[k].plain
      /\ evidenceRow'[k].sources = evidenceRow[k].sources \cup {e}
      /\ evidenceRow'[k].reserved = evidenceRow[k].reserved
  <2> DEFINE r == [evidenceRow[k] EXCEPT
                     !.sources = @ \cup {e}, !.evaluated = FALSE, !.aged = FALSE,
                     !.obligation = IF @ = "pending" THEN "cancelled" ELSE @]
  <2>1. /\ r \in CandidateRows /\ r.state = evidenceRow[k].state /\ r.plain = evidenceRow[k].plain
        /\ r.sources = evidenceRow[k].sources \cup {e} /\ r.reserved = evidenceRow[k].reserved
    BY <1>1 DEF CandidateRows
  <2>2. evidenceRow' = [evidenceRow EXCEPT ![k] = r]
    BY <1>1 DEF MergeEvidence
  <2> HIDE DEF r
  <2> QED BY <1>1, <2>1, <2>2
<1>3. CandidatesTyped'
  BY <1>2 DEF CandidatesInv, CandidatesTyped, MergeEvidence
<1>4. evidenceRow[k].reserved = 0 /\ UNCHANGED <<memory, assessment, evaluator>> /\ Alone
  BY DEF MergeEvidence, Mergeable
<1>5. ASSUME NEW j \in CandidateIds PROVE CandidateSound(j)'
  <2>1. CASE j = k
    <3>1. CandidateSound(k)
      BY DEF CandidatesInv
    <3>2. GenerationOf(k)' # 0
      <4>1. evidenceRow'[k].sources \in SUBSET Sources
        BY <1>2 DEF CandidateRows
      <4> QED BY <1>2, <4>1, SourceCounts DEF GenerationOf
    <3>3. \A g : Demanded(k, g) => Demanded(k, g)'
      BY <1>2, <1>4 DEF Demanded
    <3> QED BY <1>2, <1>4, <2>1, <3>1, <3>2, <3>3 DEF CandidateSound
  <2>2. CASE j # k
    BY <1>2, <1>4, <2>2, CandidateLeft DEF CandidatesInv
  <2> QED BY <2>1, <2>2
<1> QED BY <1>3, <1>4, <1>5, AloneKeeps

LEMMA CreateCandidateKeeps ==
  ASSUME OneEvaluation, CandidatesInv, NEW k \in CandidateIds, NEW e \in Sources,
         CreateCandidate(k, e)
  PROVE  CandidatesInv'
<1>1. evidenceRow[k] \in CandidateRows /\ evidenceRow \in [CandidateIds -> CandidateRows]
  BY DEF CandidatesInv, CandidatesTyped
<1>2. PICK plain \in BOOLEAN :
        evidenceRow' = [evidenceRow EXCEPT ![k] = [NoCandidate EXCEPT !.state = "waiting",
                                                     !.plain = plain, !.sources = {e}]]
  BY DEF CreateCandidate
<1>3. /\ evidenceRow' \in [CandidateIds -> CandidateRows]
      /\ \A j \in CandidateIds \ {k} : evidenceRow'[j] = evidenceRow[j]
      /\ evidenceRow'[k].state = "waiting" /\ evidenceRow'[k].sources = {e}
      /\ evidenceRow'[k].reserved = 0
  <2>1. 0 \in 0..Cardinality(Sources)
    BY SourceCounts
  <2> QED BY <1>1, <1>2, <2>1 DEF CandidateRows, NoCandidate
<1>4. CandidatesTyped'
  BY <1>3 DEF CandidatesInv, CandidatesTyped, CreateCandidate
<1>5. evidenceRow[k].state = "absent" /\ UNCHANGED <<memory, assessment, evaluator>> /\ Alone
  BY DEF CreateCandidate
<1>6. ASSUME NEW j \in CandidateIds PROVE CandidateSound(j)'
  <2>1. CASE j = k
    <3>1. memory[k].from = 0
      BY <1>5 DEF CandidatesInv, CandidateSound
    <3>2. GenerationOf(k)' # 0
      BY <1>3, SourceCounts DEF GenerationOf
    <3> QED BY <1>3, <1>5, <2>1, <3>1, <3>2 DEF CandidateSound
  <2>2. CASE j # k
    BY <1>3, <1>5, <2>2, CandidateLeft DEF CandidatesInv
  <2> QED BY <2>1, <2>2
<1> QED BY <1>4, <1>5, <1>6, AloneKeeps


(***************************************************************************)
(* A step that touches only what neither the gate nor a Worker looks at.    *)
(***************************************************************************)
LEMMA QuietKeeps ==
  ASSUME CandidatesInv, UNCHANGED <<assessment, evaluator>>,
         evidenceRow' \in [CandidateIds -> CandidateRows],
         memory' \in [CandidateIds -> [from: Generations, revised: BOOLEAN]],
         \A k \in CandidateIds :
           /\ evidenceRow'[k].state = evidenceRow[k].state
           /\ evidenceRow'[k].plain = evidenceRow[k].plain
           /\ evidenceRow'[k].sources = evidenceRow[k].sources
           /\ evidenceRow'[k].reserved = evidenceRow[k].reserved
           /\ memory'[k].from = memory[k].from
  PROVE  CandidatesInv'
<1>1. \A k \in CandidateIds : CandidateSound(k)'
  BY CandidateLeft DEF CandidatesInv
<1>2. CandidatesTyped'
  BY DEF CandidatesInv, CandidatesTyped
<1>3. \A k \in CandidateIds : GenerationOf(k)' = GenerationOf(k)
  BY DEF GenerationOf
<1>4. ASSUME NEW w \in Evaluators PROVE Remembers(w)'
  <2>1. evaluator[w].candidate \in CandidateIds /\ evaluator' = evaluator /\ assessment' = assessment
    BY DEF CandidatesInv, CandidatesTyped, Evaluations
  <2>2. Remembers(w)
    BY DEF CandidatesInv
  <2> QED BY <1>3, <2>1, <2>2 DEF Remembers
<1> QED BY <1>1, <1>2, <1>4 DEF CandidatesInv

LEMMA QuietRowKeeps ==
  ASSUME CandidatesInv, NEW k \in CandidateIds, UNCHANGED <<memory, assessment, evaluator>>,
         \/ evidenceRow' = [evidenceRow EXCEPT ![k].aged = TRUE]
         \/ evidenceRow' = [evidenceRow EXCEPT ![k].obligation = "pending"]
         \/ evidenceRow' = [evidenceRow EXCEPT ![k].evaluated = FALSE]
  PROVE  CandidatesInv'
<1>1. evidenceRow \in [CandidateIds -> CandidateRows] /\ evidenceRow[k] \in CandidateRows
      /\ memory' \in [CandidateIds -> [from: Generations, revised: BOOLEAN]]
  BY DEF CandidatesInv, CandidatesTyped
<1>2. /\ evidenceRow' \in [CandidateIds -> CandidateRows]
      /\ \A j \in CandidateIds : /\ evidenceRow'[j].state = evidenceRow[j].state
                                 /\ evidenceRow'[j].plain = evidenceRow[j].plain
                                 /\ evidenceRow'[j].sources = evidenceRow[j].sources
                                 /\ evidenceRow'[j].reserved = evidenceRow[j].reserved
  <2>1. CASE evidenceRow' = [evidenceRow EXCEPT ![k].aged = TRUE]
    BY <1>1, <2>1 DEF CandidateRows
  <2>2. CASE evidenceRow' = [evidenceRow EXCEPT ![k].obligation = "pending"]
    BY <1>1, <2>2 DEF CandidateRows
  <2>3. CASE evidenceRow' = [evidenceRow EXCEPT ![k].evaluated = FALSE]
    BY <1>1, <2>3 DEF CandidateRows
  <2> QED BY <2>1, <2>2, <2>3
<1> QED BY <1>1, <1>2, QuietKeeps

LEMMA ReviseMemoryKeeps ==
  ASSUME CandidatesInv, NEW k \in CandidateIds, ReviseMemory(k)
  PROVE  CandidatesInv'
<1>1. /\ memory \in [CandidateIds -> [from: Generations, revised: BOOLEAN]]
      /\ evidenceRow' \in [CandidateIds -> CandidateRows]
      /\ UNCHANGED <<evidenceRow, assessment, evaluator>>
  BY DEF CandidatesInv, CandidatesTyped, ReviseMemory
<1>2. /\ memory' \in [CandidateIds -> [from: Generations, revised: BOOLEAN]]
      /\ \A j \in CandidateIds : memory'[j].from = memory[j].from
  BY <1>1 DEF ReviseMemory
<1> QED BY <1>1, <1>2, QuietKeeps

(***************************************************************************)
(* The row of one candidate changes, its evidence stays: what is to show.   *)
(***************************************************************************)
LEMMA OneRowChanges ==
  ASSUME CandidatesInv, NEW k \in CandidateIds, NEW r \in CandidateRows,
         evidenceRow' = [evidenceRow EXCEPT ![k] = r], UNCHANGED <<memory, assessment>>,
         r.plain = evidenceRow[k].plain, r.sources = evidenceRow[k].sources,
         r.state \notin {"absent", "purged"} => evidenceRow[k].state \notin {"absent", "purged"},
         r.reserved # 0 => r.state = "waiting" /\ GenerationOf(k) = r.reserved
                           /\ Demanded(k, r.reserved),
         r.state = "promoted" => memory[k].from # 0,
         memory[k].from # 0 => r.state = "promoted" \/ r.reserved = memory[k].from
  PROVE  /\ \A j \in CandidateIds : CandidateSound(j)'
         /\ evaluator' \in [Evaluators -> Evaluations] => CandidatesTyped'
<1>1. /\ evidenceRow' \in [CandidateIds -> CandidateRows] /\ evidenceRow'[k] = r
      /\ \A j \in CandidateIds \ {k} : evidenceRow'[j] = evidenceRow[j]
  BY DEF CandidatesInv, CandidatesTyped
<1>2. CandidateSound(k)'
  <2>1. CandidateSound(k)
    BY DEF CandidatesInv
  <2>2. GenerationOf(k)' = GenerationOf(k) /\ \A g : Demanded(k, g) => Demanded(k, g)'
    BY <1>1 DEF GenerationOf, Demanded
  <2> QED BY <1>1, <2>1, <2>2 DEF CandidateSound
<1>3. ASSUME NEW j \in CandidateIds PROVE CandidateSound(j)'
  <2>1. CASE j # k
    BY <1>1, <2>1, CandidateLeft DEF CandidatesInv
  <2> QED BY <1>2, <2>1
<1>4. evaluator' \in [Evaluators -> Evaluations] => CandidatesTyped'
  BY <1>1 DEF CandidatesInv, CandidatesTyped
<1> QED BY <1>3, <1>4

LEMMA ExpireCandidateKeeps ==
  ASSUME OneEvaluation, CandidatesInv, NEW k \in CandidateIds, ExpireCandidate(k)
  PROVE  CandidatesInv'
<1> DEFINE r == [evidenceRow[k] EXCEPT !.state = "expired", !.obligation = "completed"]
<1>1. evidenceRow[k] \in CandidateRows /\ evidenceRow \in [CandidateIds -> CandidateRows]
      /\ evaluator \in [Evaluators -> Evaluations] /\ CandidateSound(k)
  BY DEF CandidatesInv, CandidatesTyped
<1>2. /\ r \in CandidateRows /\ r.state = "expired" /\ r.plain = evidenceRow[k].plain
      /\ r.sources = evidenceRow[k].sources /\ r.reserved = evidenceRow[k].reserved
  BY <1>1 DEF CandidateRows
<1>3. evidenceRow' = [evidenceRow EXCEPT ![k] = r]
  BY <1>1 DEF ExpireCandidate
<1> HIDE DEF r
<1>4. /\ evidenceRow[k].state = "waiting" /\ evidenceRow[k].reserved = 0
      /\ UNCHANGED <<memory, assessment, evaluator>> /\ Alone
  BY DEF ExpireCandidate, Unpromoted
<1>5. memory[k].from = 0
  BY <1>1, <1>4, CandidateTypes DEF CandidateSound
<1>6. (\A j \in CandidateIds : CandidateSound(j)') /\ CandidatesTyped'
  BY <1>1, <1>2, <1>3, <1>4, <1>5, OneRowChanges
<1> QED BY <1>4, <1>6, AloneKeeps

LEMMA PurgeTombstoneKeeps ==
  ASSUME OneEvaluation, CandidatesInv, NEW k \in CandidateIds, PurgeTombstone(k)
  PROVE  CandidatesInv'
<1>1. evidenceRow[k] \in CandidateRows /\ evidenceRow \in [CandidateIds -> CandidateRows]
      /\ assessment \in [CandidateIds \X EvidenceGenerations -> Answers \cup {"none"}]
  BY DEF CandidatesInv, CandidatesTyped
<1>2. /\ evidenceRow' \in [CandidateIds -> CandidateRows]
      /\ \A j \in CandidateIds \ {k} : evidenceRow'[j] = evidenceRow[j]
      /\ evidenceRow'[k].state = "purged" /\ evidenceRow'[k].reserved = 0
  <2>1. 0 \in 0..Cardinality(Sources)
    BY SourceCounts
  <2>2. /\ [NoCandidate EXCEPT !.state = "purged"] \in CandidateRows
        /\ [NoCandidate EXCEPT !.state = "purged"].state = "purged"
        /\ [NoCandidate EXCEPT !.state = "purged"].reserved = 0
    BY <2>1 DEF CandidateRows, NoCandidate
  <2> QED BY <1>1, <2>2 DEF PurgeTombstone
<1>3. /\ assessment' \in [CandidateIds \X EvidenceGenerations -> Answers \cup {"none"}]
      /\ \A j \in CandidateIds \ {k} : \A g \in EvidenceGenerations :
           assessment'[<<j, g>>] = assessment[<<j, g>>]
  <2>1. assessment' = [key \in CandidateIds \X EvidenceGenerations |->
                         IF key[1] = k THEN "none" ELSE assessment[key]]
    BY <1>1 DEF PurgeTombstone
  <2> QED BY <1>1, <2>1
<1>4. evidenceRow[k].state = "expired" /\ UNCHANGED <<memory, evaluator>> /\ Alone
  BY DEF PurgeTombstone
<1>5. CandidatesTyped'
  BY <1>2, <1>3, <1>4 DEF CandidatesInv, CandidatesTyped
<1>6. ASSUME NEW j \in CandidateIds PROVE CandidateSound(j)'
  <2>1. CASE j = k
    <3>1. memory[k].from = 0
      <4>1. CandidateSound(k)
        BY DEF CandidatesInv
      <4> QED BY <1>4, <4>1 DEF CandidateSound
    <3> QED BY <1>2, <1>4, <2>1, <3>1 DEF CandidateSound
  <2>2. CASE j # k
    BY <1>2, <1>3, <1>4, <2>2, CandidateLeft DEF CandidatesInv
  <2> QED BY <2>1, <2>2
<1> QED BY <1>4, <1>5, <1>6, AloneKeeps


(***************************************************************************)
(* The evaluating Worker moves on and nothing else the gate looks at moves. *)
(***************************************************************************)
LEMMA EvaluatorTurns ==
  ASSUME CandidatesInv, NEW w \in Evaluators, NEW e \in Evaluations,
         evaluator' = [evaluator EXCEPT ![w] = e],
         \/ evaluator[w] # NotEvaluating
         \/ \A v \in Evaluators : evaluator[v] = NotEvaluating,
         UNCHANGED <<evidenceRow, memory, assessment>>, Remembers(w)'
  PROVE  CandidatesInv'
<1>1. evaluator' \in [Evaluators -> Evaluations]
  BY DEF CandidatesInv, CandidatesTyped
<1> QED BY <1>1, RowsKept, EvaluatorKeeps

(***************************************************************************)
(* A Worker at any other step than those after a read remembers nothing.    *)
(***************************************************************************)
LEMMA NothingRemembered ==
  ASSUME CandidatesInv, NEW w \in Evaluators, NEW e \in Evaluations,
         evaluator' = [evaluator EXCEPT ![w] = e],
         e.pc \in {"idle", "claimed", "picked", "unassessed", "done"}
  PROVE  Remembers(w)' /\ evaluator' \in [Evaluators -> Evaluations]
<1>1. evaluator'[w] = e /\ evaluator' \in [Evaluators -> Evaluations]
  BY DEF CandidatesInv, CandidatesTyped
<1> QED BY <1>1 DEF Remembers

LEMMA EvaluationTypes ==
  /\ NotEvaluating \in Evaluations /\ NotEvaluating.pc = "idle"
  /\ \A e \in Evaluations : \A pc \in {"claimed", "picked", "done", "unassessed", "written",
                                       "reserved"} :
       /\ [e EXCEPT !.pc = pc] \in Evaluations /\ [e EXCEPT !.pc = pc].pc = pc
       /\ [e EXCEPT !.pc = pc].candidate = e.candidate
       /\ [e EXCEPT !.pc = pc].generation = e.generation
<1>1. 0 \in Generations /\ 1 \in CandidateIds
  BY SourceCounts DEF Generations
<1> QED BY <1>1 DEF NotEvaluating, Evaluations

LEMMA PickCandidateKeeps ==
  ASSUME OneEvaluation, CandidatesInv, NEW w \in Evaluators, NEW k \in CandidateIds,
         PickCandidate(w, k)
  PROVE  CandidatesInv'
<1> DEFINE e == [NotEvaluating EXCEPT !.pc = "picked", !.candidate = k]
<1>1. e \in Evaluations /\ e.pc = "picked"
  <2>1. 0 \in Generations
    BY SourceCounts DEF Generations
  <2> QED BY <2>1 DEF NotEvaluating, Evaluations
<1>2. evaluator' = [evaluator EXCEPT ![w] = e]
  BY DEF PickCandidate
<1> HIDE DEF e
<1>3. /\ UNCHANGED <<evidenceRow, memory, assessment>>
      /\ \A v \in Evaluators : evaluator[v] = NotEvaluating
  BY DEF PickCandidate, Alone, OneEvaluation
<1> QED BY <1>1, <1>2, <1>3, NothingRemembered, EvaluatorTurns

LEMMA ClaimAssessmentKeeps ==
  ASSUME OneEvaluation, CandidatesInv, NEW w \in Evaluators, NEW k \in CandidateIds,
         NEW g \in EvidenceGenerations, ClaimAssessment(w, k, g)
  PROVE  CandidatesInv'
<1> DEFINE e == [NotEvaluating EXCEPT !.pc = "claimed", !.candidate = k, !.operation = g]
<1>1. e \in Evaluations /\ e.pc = "claimed"
  <2>1. 0 \in Generations /\ g \in Generations
    BY SourceCounts DEF Generations, EvidenceGenerations
  <2> QED BY <2>1 DEF NotEvaluating, Evaluations
<1>2. evaluator' = [evaluator EXCEPT ![w] = e]
  BY DEF ClaimAssessment
<1> HIDE DEF e
<1>3. /\ UNCHANGED <<evidenceRow, memory, assessment>>
      /\ \A v \in Evaluators : evaluator[v] = NotEvaluating
  BY DEF ClaimAssessment, Alone, OneEvaluation
<1> QED BY <1>1, <1>2, <1>3, NothingRemembered, EvaluatorTurns

LEMMA RecoverOperationKeeps ==
  ASSUME CandidatesInv, UNCHANGED <<evidenceRow, memory, assessment, evaluator>>
  PROVE  CandidatesInv'
<1>1. /\ evidenceRow' \in [CandidateIds -> CandidateRows]
      /\ memory' \in [CandidateIds -> [from: Generations, revised: BOOLEAN]]
  BY DEF CandidatesInv, CandidatesTyped
<1> QED BY <1>1, QuietKeeps

LEMMA AssessCandidateKeeps ==
  ASSUME CandidatesInv, NEW w \in Evaluators, AssessCandidate(w)
  PROVE  CandidatesInv'
<1> DEFINE k == evaluator[w].candidate
           g == evaluator[w].operation
           e == [evaluator[w] EXCEPT !.pc = "picked"]
<1>1. /\ evaluator[w] \in Evaluations /\ evaluator[w].pc = "claimed"
      /\ assessment \in [CandidateIds \X EvidenceGenerations -> Answers \cup {"none"}]
      /\ evaluator \in [Evaluators -> Evaluations]
  BY DEF CandidatesInv, CandidatesTyped, AssessCandidate
<1>2. e \in Evaluations /\ e.pc = "picked" /\ evaluator' = [evaluator EXCEPT ![w] = e]
  BY <1>1, EvaluationTypes DEF AssessCandidate
<1>3. evaluator[w] # NotEvaluating
  BY <1>1 DEF NotEvaluating
<1> HIDE DEF e
<1>4. /\ assessment' \in [CandidateIds \X EvidenceGenerations -> Answers \cup {"none"}]
      /\ \A key \in CandidateIds \X EvidenceGenerations :
           assessment[key] # "none" => assessment'[key] = assessment[key]
      /\ UNCHANGED <<evidenceRow, memory>>
  BY <1>1 DEF AssessCandidate
<1>5. ASSUME NEW j \in CandidateIds PROVE CandidateSound(j)'
  <2>1. \A h \in EvidenceGenerations : assessment[<<j, h>>] = "supported"
                                         => assessment'[<<j, h>>] = "supported"
    BY <1>4
  <2> QED BY <1>4, <2>1, CandidateLeft DEF CandidatesInv
<1>6. Remembers(w)' /\ evaluator' \in [Evaluators -> Evaluations]
  BY <1>2, NothingRemembered
<1>7. CandidatesTyped'
  BY <1>4, <1>6 DEF CandidatesInv, CandidatesTyped
<1> QED BY <1>2, <1>3, <1>5, <1>6, <1>7, EvaluatorKeeps

(***************************************************************************)
(* The answer a Worker loads is that of the assessment of the evidence      *)
(* there is now, by its own operation or by the one the candidate waited    *)
(* for a slot with; and nobody merges evidence until it is done.            *)
(***************************************************************************)
LEMMA LoadAssessmentKeeps ==
  ASSUME CandidatesInv, NEW w \in Evaluators, LoadAssessment(w)
  PROVE  CandidatesInv'
<1> DEFINE k == evaluator[w].candidate
           g == evaluator[w].operation
           n == evidenceRow[k].waiter
           a == CASE g # 0 -> assessment[<<k, g>>]
                  [] /\ g = 0 /\ n # 0 /\ n = GenerationOf(k)
                     /\ operation[<<k, n>>] = "completed" -> assessment[<<k, n>>]
                  [] OTHER -> "none"
           e == [evaluator[w] EXCEPT !.pc = "loaded", !.answer = a]
<1>1. /\ evaluator[w] \in Evaluations /\ evaluator[w].pc = "picked"
      /\ evaluator \in [Evaluators -> Evaluations] /\ CandidatesTyped
      /\ assessment \in [CandidateIds \X EvidenceGenerations -> Answers \cup {"none"}]
  BY DEF CandidatesInv, CandidatesTyped, LoadAssessment
<1>2. k \in CandidateIds /\ g \in Generations /\ GenerationOf(k) \in Generations
  BY <1>1, CandidateTypes DEF Evaluations
<1>3. /\ a \in Answers \cup {"none"}
      /\ a # "none" => /\ GenerationOf(k) \in EvidenceGenerations
                       /\ assessment[<<k, GenerationOf(k)>>] = a
  <2>1. CASE g # 0
    <3>1. g = GenerationOf(k) /\ a = assessment[<<k, g>>]
      BY <2>1 DEF LoadAssessment, CurrentAssessment
    <3>2. g \in EvidenceGenerations
      BY <1>2, <2>1, SourceCounts
    <3> QED BY <1>1, <1>2, <3>1, <3>2
  <2>2. CASE g = 0 /\ n # 0 /\ n = GenerationOf(k) /\ operation[<<k, n>>] = "completed"
    <3>1. a = assessment[<<k, GenerationOf(k)>>]
      BY <2>2
    <3>2. GenerationOf(k) \in EvidenceGenerations
      BY <1>2, <2>2, SourceCounts
    <3> QED BY <1>1, <1>2, <3>1, <3>2
  <2>3. CASE g = 0 /\ ~ (n # 0 /\ n = GenerationOf(k) /\ operation[<<k, n>>] = "completed")
    BY <2>3
  <2> QED BY <2>1, <2>2, <2>3
<1>4. evaluator' = [evaluator EXCEPT ![w] = e]
  BY <1>1 DEF LoadAssessment
<1> HIDE DEF a
<1>5. /\ e \in Evaluations /\ e.pc = "loaded" /\ e.answer = a /\ e.candidate = k
      /\ evaluator'[w] = e
  BY <1>1, <1>3, <1>4 DEF Evaluations
<1> HIDE DEF e, k, g, n
<1>6. UNCHANGED <<evidenceRow, memory, assessment>> /\ evaluator[w] # NotEvaluating
  BY <1>1 DEF LoadAssessment, NotEvaluating
<1>7. Remembers(w)'
  <2>1. \A j : GenerationOf(j)' = GenerationOf(j)
    BY <1>6 DEF GenerationOf
  <2> QED BY <1>3, <1>5, <1>6, <2>1 DEF Remembers
<1> QED BY <1>4, <1>5, <1>6, <1>7, EvaluatorTurns

LEMMA ReadCandidateKeeps ==
  ASSUME CandidatesInv, NEW w \in Evaluators, ReadCandidate(w)
  PROVE  CandidatesInv'
<1> DEFINE k == evaluator[w].candidate
           pc == IF evidenceRow[k].state = "promoted" THEN "done" ELSE "read"
           e == [evaluator[w] EXCEPT !.pc = pc, !.generation = GenerationOf(k)]
<1>1. /\ evaluator[w] \in Evaluations /\ evaluator[w].pc = "loaded" /\ Remembers(w)
      /\ evaluator \in [Evaluators -> Evaluations] /\ CandidatesTyped
      /\ evidenceRow[k].state \in {"waiting", "promoted", "rejected"}
  BY DEF CandidatesInv, CandidatesTyped, ReadCandidate, LiveCandidate
<1>2. k \in CandidateIds /\ GenerationOf(k) \in Generations
  BY <1>1, CandidateTypes DEF Evaluations
<1>3. /\ evaluator' = [evaluator EXCEPT ![w] = e] /\ pc \in {"done", "read"}
      /\ pc = "read" => evidenceRow[k].state \notin {"promoted", "absent", "purged"}
  BY <1>1 DEF ReadCandidate
<1> HIDE DEF pc
<1>4. /\ e \in Evaluations /\ e.pc = pc /\ e.answer = evaluator[w].answer /\ e.candidate = k
      /\ e.generation = GenerationOf(k) /\ evaluator'[w] = e
  BY <1>1, <1>2, <1>3 DEF Evaluations
<1> HIDE DEF e
<1>5. UNCHANGED <<evidenceRow, memory, assessment>> /\ evaluator[w] # NotEvaluating
  BY <1>1 DEF ReadCandidate, NotEvaluating
<1>6. Remembers(w)'
  <2>1. \A j : GenerationOf(j)' = GenerationOf(j)
    BY <1>5 DEF GenerationOf
  <2> QED BY <1>1, <1>3, <1>4, <1>5, <2>1 DEF Remembers
<1> QED BY <1>3, <1>4, <1>5, <1>6, EvaluatorTurns


(***************************************************************************)
(* commitNonPromotion, whatever it commits.                                 *)
(***************************************************************************)
LEMMA JudgeKeeps ==
  ASSUME CandidatesInv, NEW w \in Evaluators, evaluator[w].pc = "read",
         NEW state \in {"waiting", "rejected"}, NEW evaluated \in BOOLEAN,
         NEW next \in {"done", "unassessed"}, Judge(w, state, evaluated, next)
  PROVE  CandidatesInv'
<1> DEFINE k == evaluator[w].candidate
           r == [evidenceRow[k] EXCEPT !.state = state, !.waiter = 0, !.evaluated = @ \/ evaluated]
           e == [evaluator[w] EXCEPT !.pc = next]
<1>1. /\ evaluator[w] \in Evaluations /\ Remembers(w) /\ CandidatesTyped
      /\ evaluator \in [Evaluators -> Evaluations]
      /\ evidenceRow \in [CandidateIds -> CandidateRows]
  BY DEF CandidatesInv, CandidatesTyped
<1>2. /\ k \in CandidateIds /\ evidenceRow[k] \in CandidateRows /\ CandidateSound(k)
      /\ memory[k].from \in Generations
  BY <1>1, CandidateTypes DEF Evaluations, CandidatesInv
<1>3. /\ r \in CandidateRows /\ r.state = state /\ r.plain = evidenceRow[k].plain
      /\ r.sources = evidenceRow[k].sources /\ r.reserved = evidenceRow[k].reserved
  <2>1. 0 \in 0..Cardinality(Sources) /\ (evidenceRow[k].evaluated \/ evaluated) \in BOOLEAN
    BY SourceCounts
  <2> QED BY <1>2, <2>1 DEF CandidateRows
<1>4. evidenceRow' = [evidenceRow EXCEPT ![k] = r]
  BY <1>1, <1>2 DEF Judge
<1>5. evaluator' = [evaluator EXCEPT ![w] = e] /\ e \in Evaluations /\ e.pc = next
  <2>1. e \in Evaluations /\ e.pc = next
    BY <1>1 DEF Evaluations
  <2>2. evaluator' = [evaluator EXCEPT ![w] = e]
    BY DEF Judge
  <2> QED BY <2>1, <2>2
<1> HIDE DEF r, e
<1>6. /\ evidenceRow[k].reserved = 0 /\ evidenceRow[k].state \notin {"promoted", "absent", "purged"}
      /\ UNCHANGED <<memory, assessment>> /\ evaluator[w] # NotEvaluating
  BY <1>1 DEF Judge, Remembers, NotEvaluating
<1>7. memory[k].from = 0
  BY <1>2, <1>6 DEF CandidateSound
<1>8. Remembers(w)' /\ evaluator' \in [Evaluators -> Evaluations]
  BY <1>5, NothingRemembered
<1> HIDE DEF k
<1>9. (\A j \in CandidateIds : CandidateSound(j)') /\ CandidatesTyped'
  BY <1>2, <1>3, <1>4, <1>6, <1>7, <1>8, OneRowChanges
<1> QED BY <1>5, <1>6, <1>8, <1>9, EvaluatorKeeps

LEMMA NonPromotionKeeps ==
  ASSUME CandidatesInv, NEW w \in Evaluators,
         RejectCandidate(w) \/ RequireAssessment(w) \/ HoldCandidate(w)
  PROVE  CandidatesInv'
<1>1. CASE RejectCandidate(w)
  BY <1>1, JudgeKeeps DEF RejectCandidate
<1>2. CASE HoldCandidate(w)
  BY <1>2, JudgeKeeps DEF HoldCandidate
<1>3. CASE RequireAssessment(w)
  <2> DEFINE next == IF evaluator[w].operation = 0 THEN "unassessed" ELSE "done"
  <2>1. next \in {"done", "unassessed"} /\ (evaluator[w].answer # "none") \in BOOLEAN
        /\ evaluator[w].pc = "read"
        /\ Judge(w, "waiting", evaluator[w].answer # "none", next)
    BY <1>3 DEF RequireAssessment
  <2> HIDE DEF next
  <2> QED BY <2>1, JudgeKeeps
<1> QED BY <1>1, <1>2, <1>3

(***************************************************************************)
(* A passed gate reserves the candidate for the evidence it was judged on.  *)
(***************************************************************************)
LEMMA ReserveCandidateKeeps ==
  ASSUME CandidatesInv, NEW w \in Evaluators, ReserveCandidate(w)
  PROVE  CandidatesInv'
<1> DEFINE k == evaluator[w].candidate
           g == evaluator[w].generation
           r == [evidenceRow[k] EXCEPT !.reserved = g]
           e == [evaluator[w] EXCEPT !.pc = "reserved"]
<1>1. /\ evaluator[w] \in Evaluations /\ Remembers(w) /\ CandidatesTyped
      /\ evaluator \in [Evaluators -> Evaluations] /\ evaluator[w].pc = "read"
      /\ evidenceRow \in [CandidateIds -> CandidateRows]
  BY DEF CandidatesInv, CandidatesTyped, ReserveCandidate
<1>2. /\ k \in CandidateIds /\ evidenceRow[k] \in CandidateRows /\ CandidateSound(k)
      /\ memory[k].from \in Generations /\ GenerationOf(k) \in Generations
  BY <1>1, CandidateTypes DEF Evaluations, CandidatesInv
<1>3. /\ evidenceRow[k].state = "waiting" /\ GenerationOf(k) = g /\ evidenceRow[k].reserved \in {0, g}
      /\ UNCHANGED <<memory, assessment>> /\ evaluator[w] # NotEvaluating
  BY <1>1 DEF ReserveCandidate, NotEvaluating
<1>4. g # 0 /\ g \in EvidenceGenerations
  BY <1>2, <1>3, SourceCounts DEF CandidateSound
<1>5. Demanded(k, g)
  <2>1. SUFFICES ASSUME ~ evidenceRow[k].plain \/ g > 1
                 PROVE  assessment[<<k, g>>] = "supported"
    BY <1>4 DEF Demanded
  <2>2. evaluator[w].answer = "supported"
    BY <2>1 DEF ReserveCandidate, GatePassed, FullValidation
  <2> QED BY <1>1, <1>3, <2>2 DEF Remembers
<1>6. /\ r \in CandidateRows /\ r.state = "waiting" /\ r.plain = evidenceRow[k].plain
      /\ r.sources = evidenceRow[k].sources /\ r.reserved = g
  BY <1>2, <1>3 DEF CandidateRows, Generations
<1>7. evidenceRow' = [evidenceRow EXCEPT ![k] = r]
  BY DEF ReserveCandidate
<1>8. /\ evaluator' = [evaluator EXCEPT ![w] = e] /\ e \in Evaluations /\ e.pc = "reserved"
      /\ e.candidate = k /\ e.generation = g /\ evaluator'[w] = e
  BY <1>1, EvaluationTypes DEF ReserveCandidate
<1> HIDE DEF r, e
<1>9. memory[k].from # 0 => g = memory[k].from
  BY <1>2, <1>3 DEF CandidateSound
<1>10. evaluator' \in [Evaluators -> Evaluations]
  BY <1>1, <1>8
<1>11. Remembers(w)'
  <2>1. evidenceRow'[k].reserved = g
    BY <1>1, <1>2, <1>6, <1>7
  <2> HIDE DEF k, g
  <2> QED BY <1>4, <1>8, <2>1 DEF Remembers
<1> HIDE DEF k, g
<1>12. (\A j \in CandidateIds : CandidateSound(j)') /\ CandidatesTyped'
  BY <1>2, <1>3, <1>5, <1>6, <1>7, <1>9, <1>10, OneRowChanges
<1> QED BY <1>3, <1>8, <1>11, <1>12, EvaluatorKeeps

LEMMA WriteMemoryKeeps ==
  ASSUME CandidatesInv, NEW w \in Evaluators, WriteMemory(w)
  PROVE  CandidatesInv'
<1> DEFINE k == evaluator[w].candidate
           g == evaluator[w].generation
           n == IF memory[k].from = 0 THEN g ELSE memory[k].from
           e == [evaluator[w] EXCEPT !.pc = "written"]
<1>1. /\ evaluator[w] \in Evaluations /\ Remembers(w) /\ CandidatesTyped
      /\ evaluator \in [Evaluators -> Evaluations] /\ evaluator[w].pc = "reserved"
      /\ memory \in [CandidateIds -> [from: Generations, revised: BOOLEAN]]
  BY DEF CandidatesInv, CandidatesTyped, WriteMemory
<1>2. /\ k \in CandidateIds /\ CandidateSound(k) /\ g \in Generations /\ g # 0
      /\ evidenceRow[k].reserved = g
  BY <1>1 DEF Evaluations, CandidatesInv, Remembers
<1>3. n = g /\ evidenceRow[k].state = "waiting" /\ Demanded(k, g)
  BY <1>2 DEF CandidateSound
<1>4. memory' = [memory EXCEPT ![k].from = n] /\ UNCHANGED <<evidenceRow, assessment>>
  BY DEF WriteMemory
<1> HIDE DEF n
<1>5. /\ memory' \in [CandidateIds -> [from: Generations, revised: BOOLEAN]]
      /\ memory'[k].from = g /\ \A j \in CandidateIds \ {k} : memory'[j] = memory[j]
  BY <1>1, <1>2, <1>3, <1>4
<1>6. /\ evaluator' = [evaluator EXCEPT ![w] = e] /\ e \in Evaluations /\ e.pc = "written"
      /\ e.candidate = k /\ e.generation = g /\ evaluator'[w] = e
  BY <1>1, EvaluationTypes DEF WriteMemory
<1> HIDE DEF e
<1>7. CandidatesTyped'
  BY <1>1, <1>4, <1>5, <1>6 DEF CandidatesTyped
<1>8. Remembers(w)' /\ evaluator[w] # NotEvaluating
  <2>1. evaluator[w] # NotEvaluating
    BY <1>1 DEF NotEvaluating
  <2> HIDE DEF k, g
  <2> QED BY <1>2, <1>4, <1>5, <1>6, <2>1 DEF Remembers
<1> HIDE DEF k, g
<1>9. ASSUME NEW j \in CandidateIds PROVE CandidateSound(j)'
  <2>1. CASE j = k
    <3>1. \A h : Demanded(k, h) <=> Demanded(j, h)'
      BY <1>4, <2>1 DEF Demanded
    <3>2. GenerationOf(j)' = GenerationOf(k)
      BY <1>4, <2>1 DEF GenerationOf
    <3> QED BY <1>2, <1>3, <1>4, <1>5, <2>1, <3>1, <3>2 DEF CandidateSound
  <2>2. CASE j # k
    BY <1>4, <1>5, <2>2, CandidateLeft DEF CandidatesInv
  <2> QED BY <2>1, <2>2
<1> QED BY <1>6, <1>7, <1>8, <1>9, EvaluatorKeeps


(***************************************************************************)
(* A full working set gives the reservation back, unless a memory exists.   *)
(***************************************************************************)
LEMMA CapacityRefusesKeeps ==
  ASSUME CandidatesInv, NEW w \in Evaluators, CapacityRefuses(w)
  PROVE  CandidatesInv'
<1> DEFINE k == evaluator[w].candidate
           g == evaluator[w].generation
           r == IF evidenceRow[k].reserved = g /\ GenerationOf(k) = g
                THEN [evidenceRow[k] EXCEPT !.reserved = 0, !.evaluated = TRUE, !.waiter = g]
                ELSE [evidenceRow[k] EXCEPT !.waiter = g]
           e == [evaluator[w] EXCEPT !.pc = "done"]
<1>1. /\ evaluator[w] \in Evaluations /\ CandidatesTyped
      /\ evaluator \in [Evaluators -> Evaluations] /\ evaluator[w].pc = "reserved"
      /\ evidenceRow \in [CandidateIds -> CandidateRows]
  BY DEF CandidatesInv, CandidatesTyped, CapacityRefuses
<1>2. /\ k \in CandidateIds /\ evidenceRow[k] \in CandidateRows /\ CandidateSound(k)
      /\ g \in Generations
  BY <1>1, CandidateTypes DEF Evaluations, CandidatesInv
<1>3. memory[k].from = 0 /\ UNCHANGED <<memory, assessment>> /\ evaluator[w] # NotEvaluating
  BY <1>1 DEF CapacityRefuses, NotCreated, NotEvaluating
<1>4. /\ r \in CandidateRows /\ r.state = evidenceRow[k].state /\ r.plain = evidenceRow[k].plain
      /\ r.sources = evidenceRow[k].sources /\ r.reserved \in {0, evidenceRow[k].reserved}
  <2>1. 0 \in 0..Cardinality(Sources) /\ g \in 0..Cardinality(Sources)
    BY <1>2, SourceCounts DEF Generations
  <2>2. CASE evidenceRow[k].reserved = g /\ GenerationOf(k) = g
    BY <1>2, <2>1, <2>2 DEF CandidateRows
  <2>3. CASE ~ (evidenceRow[k].reserved = g /\ GenerationOf(k) = g)
    BY <1>2, <2>1, <2>3 DEF CandidateRows
  <2> QED BY <2>2, <2>3
<1>5. evidenceRow' = [evidenceRow EXCEPT ![k] = r]
  BY <1>1, <1>2 DEF CapacityRefuses
<1>6. evaluator' = [evaluator EXCEPT ![w] = e] /\ e \in Evaluations /\ e.pc = "done"
  BY <1>1, EvaluationTypes DEF CapacityRefuses
<1> HIDE DEF r, e
<1>7. Remembers(w)' /\ evaluator' \in [Evaluators -> Evaluations]
  BY <1>6, NothingRemembered
<1> HIDE DEF k, g
<1>8. (\A j \in CandidateIds : CandidateSound(j)') /\ CandidatesTyped'
  BY <1>2, <1>3, <1>4, <1>5, <1>7, OneRowChanges DEF CandidateSound
<1> QED BY <1>3, <1>6, <1>7, <1>8, EvaluatorKeeps

LEMMA PromoteCandidateKeeps ==
  ASSUME CandidatesInv, NEW w \in Evaluators, PromoteCandidate(w)
  PROVE  CandidatesInv'
<1> DEFINE k == evaluator[w].candidate
           r == [evidenceRow[k] EXCEPT !.state = "promoted", !.reserved = 0,
                                       !.evaluated = TRUE, !.waiter = 0]
           e == [evaluator[w] EXCEPT !.pc = "done"]
<1>1. /\ evaluator[w] \in Evaluations /\ CandidatesTyped /\ Remembers(w)
      /\ evaluator \in [Evaluators -> Evaluations] /\ evaluator[w].pc = "written"
      /\ evidenceRow \in [CandidateIds -> CandidateRows]
  BY DEF CandidatesInv, CandidatesTyped, PromoteCandidate
<1>2. k \in CandidateIds /\ evidenceRow[k] \in CandidateRows
  BY <1>1, CandidateTypes DEF Evaluations
<1>3. /\ memory[k].from # 0 /\ UNCHANGED <<memory, assessment>> /\ evaluator[w] # NotEvaluating
      /\ evidenceRow[k].state = "waiting"
  BY <1>1 DEF PromoteCandidate, Remembers, NotEvaluating
<1>4. /\ r \in CandidateRows /\ r.state = "promoted" /\ r.plain = evidenceRow[k].plain
      /\ r.sources = evidenceRow[k].sources /\ r.reserved = 0
  <2>1. 0 \in 0..Cardinality(Sources)
    BY SourceCounts
  <2> QED BY <1>2, <2>1 DEF CandidateRows
<1>5. evidenceRow' = [evidenceRow EXCEPT ![k] = r]
  BY <1>1, <1>2 DEF PromoteCandidate
<1>6. evaluator' = [evaluator EXCEPT ![w] = e] /\ e \in Evaluations /\ e.pc = "done"
  BY <1>1, EvaluationTypes DEF PromoteCandidate
<1> HIDE DEF r, e
<1>7. Remembers(w)' /\ evaluator' \in [Evaluators -> Evaluations]
  BY <1>6, NothingRemembered
<1> HIDE DEF k
<1>8. (\A j \in CandidateIds : CandidateSound(j)') /\ CandidatesTyped'
  BY <1>2, <1>3, <1>4, <1>5, <1>7, OneRowChanges
<1> QED BY <1>3, <1>6, <1>7, <1>8, EvaluatorKeeps

LEMMA EvaluationEnds ==
  ASSUME CandidatesInv, NEW w \in Evaluators,
         EnqueueAssessment(w) \/ FinishEvaluation(w) \/ EvaluationFails(w)
  PROVE  CandidatesInv'
<1>1. /\ evaluator' = [evaluator EXCEPT ![w] = NotEvaluating]
      /\ UNCHANGED <<evidenceRow, memory, assessment>>
  BY DEF EnqueueAssessment, FinishEvaluation, EvaluationFails
<1>2. evaluator[w] # NotEvaluating
  BY DEF EnqueueAssessment, FinishEvaluation, EvaluationFails, NotEvaluating
<1>3. Remembers(w)'
  BY <1>1, NothingRemembered, EvaluationTypes
<1> QED BY <1>1, <1>2, <1>3, EvaluationTypes, EvaluatorTurns

LEMMA CandidatesStart ==
  ASSUME CandidatesInit
  PROVE  CandidatesInv
<1>1. 0 \in Generations /\ 0 \in 0..Cardinality(Sources)
  BY SourceCounts DEF Generations
<1>2. NoCandidate \in CandidateRows /\ NoCandidate.state = "absent" /\ NoCandidate.reserved = 0
  BY <1>1 DEF CandidateRows, NoCandidate
<1>3. NotCreated \in [from: Generations, revised: BOOLEAN] /\ NotCreated.from = 0
  BY <1>1 DEF NotCreated
<1>4. CandidatesTyped
  BY <1>2, <1>3, EvaluationTypes DEF CandidatesInit, CandidatesTyped
<1>5. \A k \in CandidateIds : CandidateSound(k)
  BY <1>2, <1>3 DEF CandidatesInit, CandidateSound
<1>6. \A w \in Evaluators : evaluator[w] = NotEvaluating
  BY DEF CandidatesInit
<1> QED BY <1>4, <1>5, <1>6, IdleRemembers DEF CandidatesInv

LEMMA CandidatesStep ==
  ASSUME OneEvaluation, CandidatesInv, CandidatesNext
  PROVE  CandidatesInv'
<1>1. ASSUME NEW k \in CandidateIds, NEW e \in Sources,
             MergeEvidence(k, e) \/ CreateCandidate(k, e)
      PROVE  CandidatesInv'
  BY <1>1, MergeEvidenceKeeps, CreateCandidateKeeps
<1>2. ASSUME NEW k \in CandidateIds,
             CandidateAges(k) \/ ScheduleExpiration(k) \/ Reopen(k) \/ ResumeWaiter(k)
      PROVE  CandidatesInv'
  BY <1>2, QuietRowKeeps DEF CandidateAges, ScheduleExpiration, Reopen, ResumeWaiter
<1>3. ASSUME NEW k \in CandidateIds,
             ExpireCandidate(k) \/ PurgeTombstone(k) \/ ReviseMemory(k)
      PROVE  CandidatesInv'
  BY <1>3, ExpireCandidateKeeps, PurgeTombstoneKeeps, ReviseMemoryKeeps
<1>4. ASSUME NEW k \in CandidateIds, NEW g \in EvidenceGenerations, RecoverOperation(k, g)
      PROVE  CandidatesInv'
  BY <1>4, RecoverOperationKeeps DEF RecoverOperation
<1>5. ASSUME NEW k \in CandidateIds, NEW w \in Evaluators,
             PickCandidate(w, k) \/ \E g \in EvidenceGenerations : ClaimAssessment(w, k, g)
      PROVE  CandidatesInv'
  BY <1>5, PickCandidateKeeps, ClaimAssessmentKeeps
<1>6. ASSUME NEW w \in Evaluators,
             AssessCandidate(w) \/ LoadAssessment(w) \/ ReadCandidate(w)
      PROVE  CandidatesInv'
  BY <1>6, AssessCandidateKeeps, LoadAssessmentKeeps, ReadCandidateKeeps
<1>7. ASSUME NEW w \in Evaluators,
             RejectCandidate(w) \/ RequireAssessment(w) \/ HoldCandidate(w)
      PROVE  CandidatesInv'
  BY <1>7, NonPromotionKeeps
<1>8. ASSUME NEW w \in Evaluators,
             ReserveCandidate(w) \/ WriteMemory(w) \/ CapacityRefuses(w) \/ PromoteCandidate(w)
      PROVE  CandidatesInv'
  BY <1>8, ReserveCandidateKeeps, WriteMemoryKeeps, CapacityRefusesKeeps, PromoteCandidateKeeps
<1>9. ASSUME NEW w \in Evaluators,
             EnqueueAssessment(w) \/ FinishEvaluation(w) \/ EvaluationFails(w)
      PROVE  CandidatesInv'
  BY <1>9, EvaluationEnds
<1> QED BY <1>1, <1>2, <1>3, <1>4, <1>5, <1>6, <1>7, <1>8, <1>9 DEF CandidatesNext

(***************************************************************************)
(* The inductive invariant of the promotions, under the one Worker the      *)
(* code runs: reservations were earned, and what the evaluating Worker      *)
(* remembers between two transactions is still so.                          *)
(***************************************************************************)
THEOREM CandidatesInvariant ==
  ASSUME OneEvaluation
  PROVE  CandidatesSpec => []CandidatesInv
<1>1. CandidatesInit => CandidatesInv
  BY CandidatesStart
<1>2. CandidatesInv /\ [CandidatesNext]_candidateVars => CandidatesInv'
  <2>1. CandidatesInv /\ CandidatesNext => CandidatesInv'
    BY CandidatesStep
  <2>2. CandidatesInv /\ UNCHANGED candidateVars => CandidatesInv'
    BY RecoverOperationKeeps DEF candidateVars
  <2> QED BY <2>1, <2>2
<1> QED BY <1>1, <1>2, PTL DEF CandidatesSpec

(***************************************************************************)
(* A canonical memory stands beside a candidate that was promoted, or that  *)
(* is reserved for it, with the evidence it was written for and the support *)
(* the gate demands, wherever a Worker fails between two transactions; and  *)
(* an anomaly is persistent only after two anomalous windows in a row.      *)
(***************************************************************************)
THEOREM CandidatesSoundAlways ==
  ASSUME OneEvaluation
  PROVE  CandidatesSpec /\ MaintenanceSpec => []CandidatesSound
<1>1. CandidatesInv => PromotionSound
  <2> SUFFICES ASSUME CandidatesInv, NEW k \in CandidateIds
               PROVE  /\ evidenceRow[k].state = "promoted" => memory[k].from # 0
                      /\ memory[k].from # 0 =>
                           /\ \/ evidenceRow[k].state = "promoted"
                              \/ /\ evidenceRow[k].state = "waiting"
                                 /\ evidenceRow[k].reserved = memory[k].from
                                 /\ GenerationOf(k) = memory[k].from
                           /\ ~ evidenceRow[k].plain \/ memory[k].from > 1
                                => assessment[<<k, memory[k].from>>] = "supported"
    BY DEF PromotionSound
  <2>1. CandidateSound(k)
    BY DEF CandidatesInv
  <2> QED BY <2>1 DEF CandidateSound, Demanded
<1>2. MaintenanceInv => PersistentIsTwoWindows
  BY DEF MaintenanceInv, AnomalySound, PersistentIsTwoWindows
<1>3. CandidatesSpec => []CandidatesInv
  BY CandidatesInvariant
<1>4. CandidatesInv /\ MaintenanceInv => CandidatesSound
  BY <1>1, <1>2 DEF CandidatesSound
<1> QED BY <1>3, <1>4, MaintenanceInvariant, PTL

-----------------------------------------------------------------------------
(***************************************************************************)
(* What a plan archived it had named, at a revision that is past since; also *)
(* what the owner restored.                                                 *)
(***************************************************************************)
PastPlan ==
    \A m \in Corpus, p \in 1..MaxPlans :
      corpus[m].by = p \/ <<p, m>> \in restored =>
        /\ m \in plans[p].items
        /\ corpus[m].revision > plans[p].revision[m]

\* The items of a tick are those of its plan.
PlanInHand ==
    /\ archiver.pc \in {"previewed", "apply", "write", "settle"} => archiver.plan \in 1..MaxPlans
    /\ archiver.pc \in {"previewed", "apply", "write"} =>
         archiver.left \subseteq plans[archiver.plan].items
    /\ archiver.pc = "write" => archiver.item \subseteq archiver.left

\* What is about to be archived may be, unless others come between.
CheckedStill ==
    archiver.pc = "write" /\ OwnerBetween = FALSE =>
      (\A m \in archiver.item : ~corpus[m].protected) /\ Total > CorpusTarget

CorpusInv == CorpusTypeOK /\ PastPlan /\ PlanInHand /\ CheckedStill

CorpusRows == [active: BOOLEAN, revision: Revisions, protected: BOOLEAN, by: 0..MaxPlans]
PlanRows == [items: SUBSET Corpus, revision: [Corpus -> Revisions], under: BOOLEAN,
             recorded: BOOLEAN, completed: BOOLEAN]
Ticks == [pc: {"idle", "claimed", "previewed", "apply", "write", "settle"}, plan: 0..MaxPlans,
          left: SUBSET Corpus, item: SUBSET Corpus]

CorpusColumns ==
    /\ corpus \in [Corpus -> CorpusRows] /\ pressure \in BOOLEAN
    /\ schedule \in [leased: BOOLEAN, pending: 0..MaxPlans]
    /\ plans \in [1..MaxPlans -> PlanRows] /\ archiver \in Ticks
    /\ restored \subseteq (1..MaxPlans) \X Corpus

LEMMA CorpusTypes == CorpusTypeOK <=> CorpusColumns
BY DEF CorpusTypeOK, CorpusColumns, CorpusRows, PlanRows, Ticks

LEMMA CorpusConstants ==
  /\ CorpusLimit \in Nat /\ CorpusTarget \in Nat /\ MaxCorpusRevision \in Nat /\ MaxPlans \in Nat
  /\ IsFiniteSet(Corpus) /\ OwnerBetween \in BOOLEAN
  /\ 0 \in Revisions /\ Revisions \subseteq Nat /\ NoPlan = 0 /\ 0 \in 0..MaxPlans
  /\ NoItems \in PlanRows /\ NoItems.items = {} /\ ArchiverIdle \in Ticks
  /\ ArchiverIdle.pc = "idle"
<1>1. /\ CorpusLimit \in Nat /\ CorpusTarget \in Nat /\ MaxCorpusRevision \in Nat
      /\ MaxPlans \in Nat /\ IsFiniteSet(Corpus) /\ OwnerBetween \in BOOLEAN
  BY CorpusAssumption
<1>2. 0 \in Revisions /\ Revisions \subseteq Nat /\ NoPlan = 0 /\ 0 \in 0..MaxPlans
  BY <1>1 DEF Revisions, NoPlan
<1>3. [m \in Corpus |-> 0] \in [Corpus -> Revisions]
  BY <1>2
<1> QED BY <1>1, <1>2, <1>3 DEF NoItems, PlanRows, ArchiverIdle, Ticks

LEMMA CorpusStarts == CorpusInit => CorpusInv
<1> SUFFICES ASSUME CorpusInit PROVE CorpusInv
  OBVIOUS
<1>1. CorpusTypeOK
  <2>1. PICK active \in SUBSET Corpus :
          corpus = [m \in Corpus |-> [active |-> m \in active, revision |-> 0,
                                      protected |-> FALSE, by |-> NoPlan]]
    BY DEF CorpusInit
  <2>2. corpus \in [Corpus -> CorpusRows]
    BY <2>1, CorpusConstants DEF CorpusRows
  <2>3. schedule \in [leased: BOOLEAN, pending: 0..MaxPlans]
    BY CorpusConstants DEF CorpusInit
  <2> QED BY <2>2, <2>3, CorpusConstants, CorpusTypes DEF CorpusInit, CorpusColumns
<1>2. \A m \in Corpus : corpus[m].by = 0
  BY CorpusConstants DEF CorpusInit
<1> QED BY <1>1, <1>2, CorpusConstants
        DEF CorpusInit, CorpusInv, PastPlan, PlanInHand, CheckedStill

(***************************************************************************)
(* A Memory changes, and no tick: revisions grow, and the plan that archived *)
(* it stays the same or is forgotten.                                       *)
(***************************************************************************)
LEMMA CorpusChanges ==
  ASSUME CorpusInv, NEW m \in Corpus, NEW c \in CorpusRows, corpus' = [corpus EXCEPT ![m] = c],
         UNCHANGED <<plans, archiver>>, schedule' = schedule, pressure' = pressure,
         c.revision >= corpus[m].revision, c.by \in {corpus[m].by, 0},
         restored' \subseteq restored \cup {<<corpus[m].by, m>>},
         restored' \subseteq (1..MaxPlans) \X Corpus,
         CheckedStill'
  PROVE  CorpusInv'
<1>0. CorpusColumns /\ corpus[m] \in CorpusRows
  BY CorpusTypes DEF CorpusInv, CorpusColumns
<1>1. corpus' \in [Corpus -> CorpusRows] /\ corpus'[m] = c
      /\ \A n \in Corpus \ {m} : corpus'[n] = corpus[n]
  BY <1>0 DEF CorpusColumns
<1>2. CorpusTypeOK'
  BY <1>0, <1>1 DEF CorpusTypeOK, CorpusColumns, CorpusRows, PlanRows, Ticks
<1>3. PastPlan'
  <2> SUFFICES ASSUME NEW n \in Corpus, NEW p \in 1..MaxPlans,
                      corpus'[n].by = p \/ <<p, n>> \in restored'
               PROVE  n \in plans[p].items /\ corpus'[n].revision > plans[p].revision[n]
    BY DEF PastPlan
  <2>1. corpus[n].by = p \/ <<p, n>> \in restored
    BY <1>1, CorpusConstants
  <2>2. n \in plans[p].items /\ corpus[n].revision > plans[p].revision[n]
    BY <2>1 DEF CorpusInv, PastPlan
  <2>3. corpus[n].revision \in Nat /\ corpus'[n].revision \in Nat /\ plans[p].revision[n] \in Nat
    <3>1. corpus[n] \in CorpusRows /\ corpus'[n] \in CorpusRows /\ plans[p] \in PlanRows
      BY <1>0, <1>1 DEF CorpusColumns
    <3>2. corpus[n].revision \in Revisions /\ corpus'[n].revision \in Revisions
          /\ plans[p].revision[n] \in Revisions
      BY <3>1 DEF CorpusRows, PlanRows
    <3> QED BY <3>2, CorpusConstants
  <2>4. corpus'[n].revision >= corpus[n].revision
    BY <1>1, <2>3
  <2> QED BY <2>2, <2>3, <2>4
<1>4. PlanInHand'
  BY DEF CorpusInv, PlanInHand
<1> QED BY <1>2, <1>3, <1>4 DEF CorpusInv

\* More active memories make no smaller total.
LEMMA TotalGrows ==
  ASSUME ActiveCorpus \subseteq ActiveCorpus'
  PROVE  Total <= Total' /\ Total \in Nat /\ Total' \in Nat
<1>1. ActiveCorpus \in SUBSET Corpus /\ ActiveCorpus' \in SUBSET Corpus
  BY DEF ActiveCorpus
<1>2. IsFiniteSet(ActiveCorpus) /\ IsFiniteSet(ActiveCorpus')
  BY <1>1, CorpusConstants, FS_Subset
<1> QED BY <1>1, <1>2, FS_Subset, FS_CardinalityType DEF Total

LEMMA OthersChange ==
  ASSUME CorpusInv, NEW m \in Corpus,
         ReviseCorpus(m) \/ ProtectCorpus(m) \/ ArchiveByOwner(m) \/ RestoreByOwner(m)
  PROVE  CorpusInv'
<1>0. CorpusColumns /\ corpus[m] \in CorpusRows /\ corpus[m].revision \in Nat
      /\ corpus[m].by \in 0..MaxPlans
  BY CorpusTypes, CorpusConstants DEF CorpusInv, CorpusColumns, CorpusRows
<1>a. corpus[m].revision < MaxCorpusRevision => corpus[m].revision + 1 \in Revisions
  BY <1>0, CorpusConstants DEF Revisions
<1>1. CASE ReviseCorpus(m)
  <2> DEFINE c == [corpus[m] EXCEPT !.revision = @ + 1]
  <2>1. c \in CorpusRows /\ c.revision >= corpus[m].revision /\ c.by = corpus[m].by
        /\ c.protected = corpus[m].protected /\ c.active = corpus[m].active
    <3>1. corpus[m].revision + 1 \in Revisions
      BY <1>a, <1>1 DEF ReviseCorpus
    <3> QED BY <1>0, <3>1 DEF CorpusRows
  <2>2. corpus' = [corpus EXCEPT ![m] = c]
        /\ UNCHANGED <<pressure, schedule, plans, archiver, restored>>
    BY <1>0, <1>1 DEF ReviseCorpus, CorpusColumns
  <2> HIDE DEF c
  <2>3. \A n \in Corpus : corpus'[n].active = corpus[n].active
                          /\ corpus'[n].protected = corpus[n].protected
    BY <1>0, <2>1, <2>2 DEF CorpusColumns
  <2>4. ActiveCorpus' = ActiveCorpus
    BY <2>3 DEF ActiveCorpus
  <2>5. CheckedStill'
    BY <1>0, <2>2, <2>3, <2>4 DEF CorpusInv, CheckedStill, Total, CorpusColumns, Ticks
  <2> QED BY <1>0, <2>1, <2>2, <2>5, CorpusChanges DEF CorpusColumns
<1>2. CASE ProtectCorpus(m)
  <2> DEFINE c == [corpus[m] EXCEPT !.protected = ~@]
  <2>1. c \in CorpusRows /\ c.revision >= corpus[m].revision /\ c.by = corpus[m].by
    <3>1. c \in CorpusRows /\ c.revision = corpus[m].revision /\ c.by = corpus[m].by
      BY <1>0 DEF CorpusRows
    <3> HIDE DEF c
    <3> QED BY <1>0, <3>1
  <2>2. corpus' = [corpus EXCEPT ![m] = c]
        /\ UNCHANGED <<pressure, schedule, plans, archiver, restored>>
    BY <1>0, <1>2 DEF ProtectCorpus, CorpusColumns
  <2> HIDE DEF c
  <2>3. CheckedStill'
    BY <1>2, <2>2 DEF CheckedStill, ProtectCorpus, Free
  <2> QED BY <1>0, <2>1, <2>2, <2>3, CorpusChanges DEF CorpusColumns
<1>3. CASE ArchiveByOwner(m)
  <2> DEFINE c == [corpus[m] EXCEPT !.active = FALSE, !.revision = @ + 1, !.by = NoPlan]
  <2>1. c \in CorpusRows /\ c.revision >= corpus[m].revision /\ c.by = 0
    <3>1. corpus[m].revision + 1 \in Revisions
      BY <1>a, <1>3 DEF ArchiveByOwner
    <3>2. c \in CorpusRows /\ c.revision = corpus[m].revision + 1 /\ c.by = 0
          /\ c.active \in BOOLEAN /\ c.protected = corpus[m].protected
      BY <1>0, <3>1, CorpusConstants DEF CorpusRows, NoPlan
    <3> HIDE DEF c
    <3> QED BY <1>0, <3>2
  <2>2. corpus' = [corpus EXCEPT ![m] = c]
        /\ UNCHANGED <<pressure, schedule, plans, archiver, restored>>
    BY <1>0, <1>3 DEF ArchiveByOwner, CorpusColumns
  <2> HIDE DEF c
  <2>3. CheckedStill'
    BY <1>3, <2>2 DEF CheckedStill, ArchiveByOwner, Free
  <2> QED BY <1>0, <2>1, <2>2, <2>3, CorpusChanges DEF CorpusColumns
<1>4. CASE RestoreByOwner(m)
  <2> DEFINE c == [corpus[m] EXCEPT !.active = TRUE, !.revision = @ + 1, !.by = NoPlan]
  <2>1. c \in CorpusRows /\ c.revision >= corpus[m].revision /\ c.by = 0 /\ c.active
        /\ c.protected = corpus[m].protected
    <3>1. corpus[m].revision + 1 \in Revisions
      BY <1>a, <1>4 DEF RestoreByOwner
    <3>2. c \in CorpusRows /\ c.revision = corpus[m].revision + 1 /\ c.by = 0
          /\ c.active \in BOOLEAN /\ c.protected = corpus[m].protected
      BY <1>0, <3>1, CorpusConstants DEF CorpusRows, NoPlan
    <3>3. c.active
      BY <1>0 DEF CorpusRows
    <3> HIDE DEF c
    <3> QED BY <1>0, <3>2, <3>3
  <2>2. corpus' = [corpus EXCEPT ![m] = c] /\ UNCHANGED <<pressure, schedule, plans, archiver>>
    BY <1>0, <1>4 DEF RestoreByOwner, CorpusColumns
  <2>3. /\ restored' \subseteq restored \cup {<<corpus[m].by, m>>}
        /\ restored' \subseteq (1..MaxPlans) \X Corpus
    <3>1. CASE corpus[m].by = NoPlan
      BY <1>0, <1>4, <3>1 DEF RestoreByOwner, CorpusColumns
    <3>2. CASE corpus[m].by # NoPlan
      <4>1. corpus[m].by \in 1..MaxPlans
        BY <1>0, <3>2, CorpusConstants
      <4> QED BY <1>0, <1>4, <3>2, <4>1 DEF RestoreByOwner, CorpusColumns
    <3> QED BY <3>1, <3>2
  <2> HIDE DEF c
  <2>4. \A n \in Corpus : /\ corpus[n].active => corpus'[n].active
                          /\ corpus'[n].protected = corpus[n].protected
    BY <1>0, <2>1, <2>2 DEF CorpusColumns
  <2>5. Total <= Total' /\ Total \in Nat /\ Total' \in Nat
    BY <2>4, TotalGrows DEF ActiveCorpus
  <2>6. CheckedStill'
    BY <1>0, <2>2, <2>4, <2>5, CorpusConstants
       DEF CorpusInv, CheckedStill, CorpusColumns, Ticks
  <2> QED BY <1>0, <2>1, <2>2, <2>3, <2>6, CorpusChanges
<1> QED BY <1>1, <1>2, <1>3, <1>4


(***************************************************************************)
(* A tick that leaves memories alone.                                       *)
(***************************************************************************)
LEMMA TickMoves ==
  ASSUME CorpusInv, UNCHANGED <<corpus, restored>>, CorpusColumns', PlanInHand',
         \A p \in 1..MaxPlans : plans[p] = NoItems \/ /\ plans'[p].items = plans[p].items
                                                      /\ plans'[p].revision = plans[p].revision,
         archiver'.pc # "write"
  PROVE  CorpusInv'
<1>1. PastPlan'
  BY CorpusConstants DEF CorpusInv, PastPlan
<1>2. CorpusTypeOK'
  BY DEF CorpusTypeOK, CorpusColumns, CorpusRows, PlanRows, Ticks
<1> QED BY <1>1, <1>2 DEF CorpusInv, CheckedStill

LEMMA TickSteps ==
  ASSUME CorpusInv,
         \/ ClaimSchedule \/ LeaseRunsOut \/ YieldPlan \/ SettleSchedule \/ DeferSchedule
         \/ ArchiverDies \/ ResumePlan \/ CompletePlan \/ RecordPlan
         \/ \E m \in Corpus : PassItem(m)
  PROVE  CorpusInv'
<1>0. CorpusColumns /\ archiver \in Ticks /\ schedule \in [leased: BOOLEAN, pending: 0..MaxPlans]
  BY CorpusTypes DEF CorpusInv, CorpusColumns
<1>1. CASE ClaimSchedule \/ LeaseRunsOut \/ YieldPlan \/ SettleSchedule \/ DeferSchedule \/ ArchiverDies
  <2>1. UNCHANGED <<corpus, restored, plans, pressure>>
    BY <1>1 DEF ClaimSchedule, LeaseRunsOut, YieldPlan, SettleSchedule, DeferSchedule, ArchiverDies
  <2>2. schedule' \in [leased: BOOLEAN, pending: 0..MaxPlans]
    <3>1. schedule' \in {[schedule EXCEPT !.leased = TRUE], [schedule EXCEPT !.leased = FALSE],
                         schedule, [leased |-> FALSE, pending |-> NoPlan]}
      BY <1>1 DEF ClaimSchedule, LeaseRunsOut, YieldPlan, SettleSchedule, DeferSchedule,
                  ArchiverDies
    <3>2. NoPlan \in 0..MaxPlans
      BY CorpusConstants
    <3>3. /\ [schedule EXCEPT !.leased = TRUE] \in [leased: BOOLEAN, pending: 0..MaxPlans]
          /\ [schedule EXCEPT !.leased = FALSE] \in [leased: BOOLEAN, pending: 0..MaxPlans]
      BY <1>0
    <3>4. [leased |-> FALSE, pending |-> NoPlan] \in [leased: BOOLEAN, pending: 0..MaxPlans]
      BY <3>2
    <3> QED BY <1>0, <3>1, <3>3, <3>4
  <2>3. archiver' \in Ticks /\ archiver'.pc \in {"idle", "claimed"}
    BY <1>0, <1>1, CorpusConstants
       DEF ClaimSchedule, LeaseRunsOut, YieldPlan, SettleSchedule, DeferSchedule, ArchiverDies, Ticks
  <2>4. CorpusColumns' /\ PlanInHand'
    BY <1>0, <2>1, <2>2, <2>3 DEF CorpusColumns, PlanInHand
  <2> QED BY <2>1, <2>3, <2>4, TickMoves
<1>2. CASE ResumePlan
  <2>1. schedule.pending \in 1..MaxPlans
    BY <1>0, <1>2, CorpusConstants DEF ResumePlan
  <2>2. plans[schedule.pending] \in PlanRows
    BY <1>0, <2>1 DEF CorpusColumns
  <2>3. /\ archiver' = [pc |-> "apply", plan |-> schedule.pending,
                        left |-> plans[schedule.pending].items, item |-> {}]
        /\ pressure' \in BOOLEAN /\ UNCHANGED <<corpus, schedule, plans, restored>>
    BY <1>2, <2>2 DEF ResumePlan, PlanRows
  <2>4. archiver' \in Ticks
    BY <2>1, <2>2, <2>3, CorpusConstants DEF Ticks, PlanRows
  <2>5. CorpusColumns' /\ PlanInHand'
    BY <1>0, <2>1, <2>3, <2>4 DEF CorpusColumns, PlanInHand
  <2> QED BY <2>3, <2>5, TickMoves
<1>3. CASE CompletePlan \/ RecordPlan
  <2>0. archiver.plan \in 1..MaxPlans
    BY <1>3 DEF CompletePlan, RecordPlan, CorpusInv, PlanInHand
  <2>1. PICK done \in BOOLEAN, recorded \in BOOLEAN :
          plans' = [plans EXCEPT ![archiver.plan].completed = done,
                                 ![archiver.plan].recorded = recorded]
    <3>1. plans \in [1..MaxPlans -> PlanRows] /\ plans[archiver.plan] \in PlanRows
      BY <1>0, <2>0 DEF CorpusColumns
    <3>2. CASE CompletePlan
      <4>1. plans' = [plans EXCEPT ![archiver.plan].completed = TRUE,
                                   ![archiver.plan].recorded = plans[archiver.plan].recorded]
        BY <3>1, <3>2 DEF CompletePlan, PlanRows
      <4> QED BY <3>1, <4>1 DEF PlanRows
    <3>3. CASE RecordPlan
      <4>1. plans' = [plans EXCEPT ![archiver.plan].completed = plans[archiver.plan].completed,
                                   ![archiver.plan].recorded = TRUE]
        BY <3>1, <3>3 DEF RecordPlan, PlanRows
      <4> QED BY <3>1, <4>1 DEF PlanRows
    <3> QED BY <1>3, <3>2, <3>3
  <2>2. plans' \in [1..MaxPlans -> PlanRows]
        /\ \A p \in 1..MaxPlans : plans'[p].items = plans[p].items
                                  /\ plans'[p].revision = plans[p].revision
    <3>1. plans \in [1..MaxPlans -> PlanRows] /\ plans[archiver.plan] \in PlanRows
      BY <1>0, <2>0 DEF CorpusColumns
    <3> DEFINE d == [plans[archiver.plan] EXCEPT !.completed = done, !.recorded = recorded]
    <3>2. d \in PlanRows /\ d.items = plans[archiver.plan].items
          /\ d.revision = plans[archiver.plan].revision
      BY <3>1 DEF PlanRows
    <3>3. plans' = [plans EXCEPT ![archiver.plan] = d]
      BY <2>1, <3>1 DEF PlanRows
    <3> HIDE DEF d
    <3> QED BY <2>0, <3>1, <3>2, <3>3
  <2>3. archiver' \in Ticks /\ archiver'.pc \in {"apply", "settle"} /\ archiver'.plan = archiver.plan
        /\ archiver'.left = archiver.left /\ archiver.pc \in {"apply", "previewed"}
    BY <1>0, <1>3 DEF CompletePlan, RecordPlan, Ticks
  <2>4. UNCHANGED <<corpus, pressure, schedule, restored>>
    BY <1>3 DEF CompletePlan, RecordPlan
  <2>5. PlanInHand'
    BY <2>0, <2>2, <2>3 DEF CorpusInv, PlanInHand
  <2>6. CorpusColumns'
    BY <1>0, <2>2, <2>3, <2>4 DEF CorpusColumns
  <2> QED BY <2>2, <2>3, <2>4, <2>5, <2>6, TickMoves
<1>4. ASSUME NEW m \in Corpus, PassItem(m) PROVE CorpusInv'
  <2>1. /\ archiver' = [archiver EXCEPT !.left = @ \ {m}] /\ archiver.pc = "apply"
        /\ UNCHANGED <<corpus, pressure, schedule, plans, restored>>
    BY <1>4 DEF PassItem
  <2>2. archiver' \in Ticks /\ archiver'.pc = "apply" /\ archiver'.plan = archiver.plan
        /\ archiver'.left \subseteq archiver.left
    BY <1>0, <2>1 DEF Ticks
  <2>3. PlanInHand'
    BY <2>1, <2>2 DEF CorpusInv, PlanInHand
  <2>4. CorpusColumns'
    BY <1>0, <2>1, <2>2 DEF CorpusColumns
  <2> QED BY <2>1, <2>2, <2>3, <2>4, TickMoves
<1> QED BY <1>1, <1>2, <1>3, <1>4

\* A preview fills the first plan that is empty, so no Memory was archived by it yet.
LEMMA PlanPreviewed ==
  ASSUME CorpusInv, PreviewPlan
  PROVE  CorpusInv'
<1>0. CorpusColumns
  BY CorpusTypes DEF CorpusInv
<1>1. PICK p \in 1..MaxPlans, chosen \in SUBSET {m \in ActiveCorpus : ~corpus[m].protected} :
        /\ plans[p] = NoItems
        /\ plans' = [plans EXCEPT ![p] =
               [items |-> chosen,
                revision |-> [m \in Corpus |-> IF m \in chosen THEN corpus[m].revision ELSE 0],
                under |-> UnderPressure, recorded |-> FALSE, completed |-> FALSE]]
        /\ archiver' = [pc |-> "previewed", plan |-> p, left |-> chosen, item |-> {}]
        /\ schedule' = [schedule EXCEPT !.pending = p]
  BY DEF PreviewPlan
<1>2. chosen \subseteq Corpus /\ UnderPressure \in BOOLEAN /\ p \in 0..MaxPlans
  BY CorpusConstants DEF ActiveCorpus, UnderPressure
<1> DEFINE revision == [m \in Corpus |-> IF m \in chosen THEN corpus[m].revision ELSE 0]
<1>3. revision \in [Corpus -> Revisions]
  BY <1>0, CorpusConstants DEF CorpusColumns, CorpusRows
<1> HIDE DEF revision
<1> DEFINE d == [items |-> chosen, revision |-> revision, under |-> UnderPressure,
                 recorded |-> FALSE, completed |-> FALSE]
<1>4. d \in PlanRows /\ d.items = chosen
  BY <1>2, <1>3 DEF PlanRows
<1>5. plans' = [plans EXCEPT ![p] = d]
  BY <1>1 DEF revision
<1> HIDE DEF d
<1>6. plans' \in [1..MaxPlans -> PlanRows] /\ plans'[p] = d
      /\ \A q \in 1..MaxPlans : q # p => plans'[q] = plans[q]
  BY <1>0, <1>4, <1>5 DEF CorpusColumns
<1>7. archiver' \in Ticks
  BY <1>1, <1>2 DEF Ticks
<1>8. schedule' \in [leased: BOOLEAN, pending: 0..MaxPlans]
  BY <1>0, <1>1, <1>2 DEF CorpusColumns
<1>9. pressure' \in BOOLEAN /\ UNCHANGED <<corpus, restored>>
  BY <1>2 DEF PreviewPlan
<1>10. CorpusColumns' /\ PlanInHand'
  BY <1>0, <1>1, <1>4, <1>6, <1>7, <1>8, <1>9 DEF CorpusColumns, PlanInHand
<1> QED BY <1>1, <1>6, <1>9, <1>10, TickMoves


LEMMA ItemChecked ==
  ASSUME CorpusInv, NEW m \in Corpus, CheckItem(m)
  PROVE  CorpusInv'
<1>0. CorpusColumns /\ archiver \in Ticks
  BY CorpusTypes DEF CorpusInv, CorpusColumns
<1>1. archiver' = [archiver EXCEPT !.pc = "write", !.item = {m}]
      /\ UNCHANGED <<corpus, pressure, schedule, plans, restored>>
      /\ archiver.pc = "apply" /\ m \in archiver.left /\ ~corpus[m].protected
      /\ Total > CorpusTarget
  BY DEF CheckItem, EligibleStill, StillNeeded
<1>2. archiver' \in Ticks /\ archiver'.pc = "write" /\ archiver'.item = {m}
      /\ archiver'.left = archiver.left /\ archiver'.plan = archiver.plan
  BY <1>0, <1>1 DEF Ticks
<1>3. PlanInHand' /\ PastPlan'
  BY <1>1, <1>2 DEF CorpusInv, PlanInHand, PastPlan
<1>4. CorpusColumns'
  BY <1>0, <1>1, <1>2 DEF CorpusColumns
<1>5. CorpusTypeOK'
  BY <1>4 DEF CorpusTypeOK, CorpusColumns, CorpusRows, PlanRows, Ticks
<1>6. CheckedStill'
  BY <1>1, <1>2 DEF CheckedStill, Total, ActiveCorpus
<1> QED BY <1>3, <1>5, <1>6 DEF CorpusInv

\* The item is at the revision its plan names, which is past once it is archived: the plan
\* has not archived it yet.
LEMMA ItemArchived ==
  ASSUME CorpusInv, NEW m \in Corpus, ArchiveItem(m)
  PROVE  /\ CorpusInv'
         /\ <<archiver.plan, m>> \notin restored /\ archiver.plan \in 1..MaxPlans
         /\ corpus' = [corpus EXCEPT ![m].active = FALSE, ![m].revision = @ + 1,
                                     ![m].by = archiver.plan]
<1>0. CorpusColumns /\ archiver \in Ticks /\ corpus[m] \in CorpusRows
  BY CorpusTypes DEF CorpusInv, CorpusColumns
<1> DEFINE p == archiver.plan
<1>1. /\ archiver.pc = "write" /\ p \in 1..MaxPlans /\ m \in plans[p].items
      /\ corpus[m].revision = plans[p].revision[m] /\ corpus[m].revision < MaxCorpusRevision
      /\ UNCHANGED <<pressure, schedule, plans, restored>>
      /\ archiver' = [archiver EXCEPT !.pc = "apply", !.left = @ \ {m}, !.item = {}]
  BY DEF ArchiveItem, CorpusInv, PlanInHand
<1>2. plans[p] \in PlanRows
  BY <1>0, <1>1 DEF CorpusColumns
<1>3. corpus[m].revision \in Revisions /\ corpus[m].revision \in Nat
      /\ corpus[m].revision + 1 \in Revisions /\ p \in 0..MaxPlans
  BY <1>0, <1>1, CorpusConstants DEF CorpusRows, Revisions
<1>4. <<p, m>> \notin restored
  BY <1>1, <1>3 DEF CorpusInv, PastPlan
<1> DEFINE c == [corpus[m] EXCEPT !.active = FALSE, !.revision = @ + 1, !.by = p]
<1>5. c \in CorpusRows /\ c.revision = corpus[m].revision + 1 /\ c.by = p
  BY <1>0, <1>3 DEF CorpusRows
<1>6. corpus' = [corpus EXCEPT ![m] = c]
  BY <1>0 DEF ArchiveItem, CorpusColumns
<1> HIDE DEF c
<1>7. corpus' \in [Corpus -> CorpusRows] /\ corpus'[m] = c
      /\ \A n \in Corpus \ {m} : corpus'[n] = corpus[n]
  BY <1>0, <1>5, <1>6 DEF CorpusColumns
<1>8. archiver' \in Ticks /\ archiver'.pc = "apply" /\ archiver'.plan = p
      /\ archiver'.left \subseteq archiver.left
  BY <1>0, <1>1 DEF Ticks
<1>9. PlanInHand' /\ CheckedStill'
  BY <1>1, <1>8 DEF CorpusInv, PlanInHand, CheckedStill
<1>10. CorpusColumns'
  BY <1>0, <1>1, <1>7, <1>8 DEF CorpusColumns
<1>11. CorpusTypeOK'
  BY <1>10 DEF CorpusTypeOK, CorpusColumns, CorpusRows, PlanRows, Ticks
<1>12. PastPlan'
  <2> SUFFICES ASSUME NEW n \in Corpus, NEW q \in 1..MaxPlans,
                      corpus'[n].by = q \/ <<q, n>> \in restored
               PROVE  n \in plans[q].items /\ corpus'[n].revision > plans[q].revision[n]
    BY <1>1 DEF PastPlan
  <2>1. CASE n # m
    BY <1>7, <2>1 DEF CorpusInv, PastPlan
  <2>2. CASE n = m /\ q = p
    BY <1>1, <1>3, <1>5, <1>7, <2>2
  <2>3. CASE n = m /\ q # p
    <3>1. <<q, m>> \in restored
      BY <1>5, <1>7, <2>3
    <3>2. m \in plans[q].items /\ corpus[m].revision > plans[q].revision[m]
      BY <3>1 DEF CorpusInv, PastPlan
    <3>3. plans[q].revision[m] \in Nat
      <4>1. plans[q] \in PlanRows
        BY <1>0 DEF CorpusColumns
      <4>2. plans[q].revision[m] \in Revisions
        BY <4>1 DEF PlanRows
      <4> QED BY <4>2, CorpusConstants
    <3> QED BY <1>3, <1>5, <1>7, <2>3, <3>2, <3>3
  <2> QED BY <2>1, <2>2, <2>3
<1> QED BY <1>1, <1>4, <1>9, <1>11, <1>12 DEF CorpusInv, ArchiveItem

\* Every step keeps the invariant, and only a tick archives for a plan.
LEMMA CorpusStep ==
  ASSUME CorpusInv, [CorpusNext]_corpusVars
  PROVE  CorpusInv'
<1>1. CASE UNCHANGED corpusVars
  <2>1. UNCHANGED <<corpus, pressure, schedule, plans, archiver, restored>>
    BY <1>1 DEF corpusVars
  <2>2. CorpusColumns'
    BY <2>1, CorpusTypes DEF CorpusInv, CorpusColumns
  <2>3. CorpusTypeOK'
    BY <2>2 DEF CorpusTypeOK, CorpusColumns, CorpusRows, PlanRows, Ticks
  <2> QED BY <2>1, <2>3
          DEF CorpusInv, PastPlan, PlanInHand, CheckedStill, Total, ActiveCorpus
<1> QED BY <1>1, OthersChange, TickSteps, PlanPreviewed, ItemChecked, ItemArchived DEF CorpusNext

\* Who may archive a Memory for a plan: the step that writes it.
LEMMA ArchivedByItem ==
  ASSUME CorpusInv, [CorpusNext]_corpusVars, NEW m \in Corpus,
         corpus[m].active, ~corpus'[m].active, corpus'[m].by # NoPlan
  PROVE  ArchiveItem(m)
<1>0. corpus \in [Corpus -> CorpusRows]
  BY CorpusTypes DEF CorpusInv, CorpusColumns
<1>1. corpus' # corpus
  OBVIOUS
<1>2. PICK n \in Corpus :
        ReviseCorpus(n) \/ ProtectCorpus(n) \/ ArchiveByOwner(n) \/ RestoreByOwner(n) \/ ArchiveItem(n)
  BY <1>1 DEF CorpusNext, corpusVars, PassItem, CheckItem, ClaimSchedule, LeaseRunsOut, ResumePlan,
              PreviewPlan, RecordPlan, CompletePlan, YieldPlan, SettleSchedule, DeferSchedule,
              ArchiverDies
<1>3. corpus[n] \in CorpusRows /\ n = m
  BY <1>0, <1>2 DEF ReviseCorpus, ProtectCorpus, ArchiveByOwner, RestoreByOwner, ArchiveItem
<1>4. ~ ReviseCorpus(m) /\ ~ ProtectCorpus(m)
  BY <1>0, <1>3 DEF ReviseCorpus, ProtectCorpus, CorpusRows
<1>5. ~ ArchiveByOwner(m) /\ ~ RestoreByOwner(m)
  BY <1>0, <1>3 DEF ArchiveByOwner, RestoreByOwner, CorpusRows
<1> QED BY <1>2, <1>3, <1>4, <1>5

\* Competitive archival (src/src/capacity/corpus-retention.ts): a plan archived only what
\* it had named, at the revision it had named, however often it was taken up again, and
\* whatever others do between the check of an item and its write.
THEOREM CorpusInvariant == CorpusSpec => []CorpusInv
<1>1. CorpusInv /\ [CorpusNext]_corpusVars => CorpusInv'
  BY CorpusStep
<1> QED BY <1>1, CorpusStarts, PTL DEF CorpusSpec

\* A plan archives only unprotected memories above the target, and none that the owner has
\* restored since it archived it, if nobody protects or archives between the check of an
\* item and its write (applyCorpusRetention).
THEOREM ArchivesOnlyExcessAlways ==
  ASSUME OwnerBetween = FALSE
  PROVE  CorpusSpec => ArchivesOnlyExcess
<1>1. CorpusInv /\ [CorpusNext]_corpusVars =>
        [\A m \in Corpus :
           corpus[m].active /\ ~corpus'[m].active /\ corpus'[m].by # NoPlan
             => /\ ~corpus[m].protected
                /\ Total > CorpusTarget
                /\ <<corpus'[m].by, m>> \notin restored]_corpusVars
  <2> SUFFICES ASSUME CorpusInv, [CorpusNext]_corpusVars, NEW m \in Corpus,
                      corpus[m].active, ~corpus'[m].active, corpus'[m].by # NoPlan
               PROVE  /\ ~corpus[m].protected /\ Total > CorpusTarget
                      /\ <<corpus'[m].by, m>> \notin restored
    OBVIOUS
  <2>1. ArchiveItem(m)
    BY ArchivedByItem
  <2>2. /\ <<archiver.plan, m>> \notin restored
        /\ corpus' = [corpus EXCEPT ![m].active = FALSE, ![m].revision = @ + 1,
                                    ![m].by = archiver.plan]
    BY <2>1, ItemArchived
  <2>3. corpus \in [Corpus -> CorpusRows]
    BY CorpusTypes DEF CorpusInv, CorpusColumns
  <2>4. corpus'[m].by = archiver.plan
    BY <2>2, <2>3 DEF CorpusRows
  <2>5. ~corpus[m].protected /\ Total > CorpusTarget
    BY <2>1 DEF ArchiveItem, CorpusInv, CheckedStill
  <2> QED BY <2>2, <2>4, <2>5
<1> QED BY <1>1, CorpusInvariant, PTL DEF CorpusSpec, ArchivesOnlyExcess

-----------------------------------------------------------------------------
\* What is left out at its current revision is neither protected nor fixed; an older
\* revision that was left out counts for nothing.
LeftOut ==
    \A m \in Members :
      /\ excluded[m] <= member[m].revision
      /\ member[m].active => member[m].revision # 0
      /\ Effective(m) => ~member[m].protected /\ ~member[m].fixed

\* What a pass has read is of this revision or an earlier one.
ReadBehind ==
    rebalancer.pc = "loaded" =>
      \A m \in Members :
        LET was == rebalancer.inputs[m]
        IN /\ was.revision <= member[m].revision
           /\ was.active => was.revision # 0
           /\ was.revision = member[m].revision => was.fixed = member[m].fixed

WorkingSetInv == WorkingSetTypeOK /\ LeftOut /\ ReadBehind

Passes == [pc: {"idle", "observed", "reconciled", "loaded", "rebalanced"},
           pressured: BOOLEAN, closing: BOOLEAN, inputs: [Members -> MemberRecord]]
Obligations == [state: {"none", "pending", "satisfied"}, unreachable: BOOLEAN, failed: BOOLEAN]

LEMMA SpaceConstants ==
  /\ SpaceTarget \in Nat /\ SpaceLowWater \in Nat /\ SpaceLowWater <= SpaceTarget
  /\ MaxMemberRevision \in Nat /\ IsFiniteSet(Members)
  /\ 0 \in 0..MaxMemberRevision /\ 0..MaxMemberRevision \subseteq Nat
  /\ NoInputs \in [Members -> MemberRecord]
<1>1. /\ SpaceTarget \in Nat /\ SpaceLowWater \in Nat /\ SpaceLowWater <= SpaceTarget
      /\ MaxMemberRevision \in Nat /\ IsFiniteSet(Members)
  BY WorkingSetAssumption
<1>2. 0 \in 0..MaxMemberRevision /\ 0..MaxMemberRevision \subseteq Nat
  BY <1>1
<1> QED BY <1>1, <1>2 DEF NoInputs, MemberRecord

LEMMA WorkingSetStarts == WorkingSetInit => WorkingSetInv
<1> SUFFICES ASSUME WorkingSetInit PROVE WorkingSetInv
  OBVIOUS
<1>1. WorkingSetTypeOK
  BY SpaceConstants DEF WorkingSetInit, WorkingSetTypeOK
<1>2. \A m \in Members : member[m].active = FALSE /\ member[m].revision = 0 /\ excluded[m] = 0
  BY DEF WorkingSetInit, NoInputs
<1>3. LeftOut
  BY <1>2 DEF LeftOut, Effective
<1>4. rebalancer.pc = "idle"
  BY DEF WorkingSetInit
<1> QED BY <1>1, <1>3, <1>4 DEF WorkingSetInv, ReadBehind

(***************************************************************************)
(* A Memory changes: its revision does not fall, and with the same revision  *)
(* goes the same file.                                                      *)
(***************************************************************************)
LEMMA MemberChanges ==
  ASSUME WorkingSetInv, NEW m \in Members, NEW r \in MemberRecord,
         member' = [member EXCEPT ![m] = r],
         NEW e \in {0, excluded[m]}, excluded' = [excluded EXCEPT ![m] = e],
         UNCHANGED <<obligation, rebalancer>>,
         r.revision >= member[m].revision, r.active => r.revision # 0,
         r.revision = member[m].revision => r.fixed = member[m].fixed,
         r.active /\ r.revision = member[m].revision => member[m].active,
         r.active /\ r.revision = member[m].revision /\ r.protected => member[m].protected \/ e = 0
  PROVE  WorkingSetInv'
<1>0. /\ member \in [Members -> MemberRecord] /\ excluded \in [Members -> 0..MaxMemberRevision]
      /\ rebalancer.inputs \in [Members -> MemberRecord]
      /\ \A n \in Members : /\ member[n] \in MemberRecord /\ member[n].revision \in Nat
                            /\ excluded[n] \in Nat /\ rebalancer.inputs[n].revision \in Nat
      /\ r.revision \in Nat /\ 0 \in 0..MaxMemberRevision
  BY SpaceConstants DEF WorkingSetInv, WorkingSetTypeOK, MemberRecord
<1>1. /\ member' \in [Members -> MemberRecord] /\ member'[m] = r
      /\ excluded' \in [Members -> 0..MaxMemberRevision] /\ excluded'[m] = e
      /\ \A n \in Members \ {m} : member'[n] = member[n] /\ excluded'[n] = excluded[n]
  BY <1>0
<1>2. WorkingSetTypeOK'
  BY <1>1 DEF WorkingSetInv, WorkingSetTypeOK
<1>3. LeftOut'
  <2> SUFFICES ASSUME NEW n \in Members
               PROVE  /\ excluded'[n] <= member'[n].revision
                      /\ member'[n].active => member'[n].revision # 0
                      /\ Effective(n)' => ~member'[n].protected /\ ~member'[n].fixed
    BY DEF LeftOut
  <2>1. CASE n # m
    BY <1>1, <2>1 DEF WorkingSetInv, LeftOut, Effective
  <2>2. CASE n = m
    <3>1. /\ excluded[m] <= member[m].revision
          /\ Effective(m) => ~member[m].protected /\ ~member[m].fixed
      BY DEF WorkingSetInv, LeftOut
    <3>2. e <= r.revision
      BY <1>0, <3>1
    <3>3. ASSUME r.active, e = r.revision PROVE ~r.protected /\ ~r.fixed
      <4>1. r.revision # 0 /\ e = excluded[m]
        BY <1>0, <3>3
      <4>2. r.revision = member[m].revision
        <5> DEFINE before == member[m].revision  after == r.revision
        <5>1. before \in Nat /\ after \in Nat /\ after <= before /\ before <= after
          BY <1>0, <3>1, <3>3, <4>1
        <5> HIDE DEF before, after
        <5>2. after = before
          BY <5>1
        <5> QED BY <5>2 DEF before, after
      <4>3. Effective(m)
        BY <3>3, <4>1, <4>2 DEF Effective
      <4> QED BY <3>1, <3>3, <4>1, <4>2, <4>3
    <3> QED BY <1>1, <2>2, <3>2, <3>3 DEF Effective
  <2> QED BY <2>1, <2>2
<1>4. ReadBehind'
  <2> SUFFICES ASSUME rebalancer.pc = "loaded", NEW n \in Members
               PROVE  LET was == rebalancer.inputs[n]
                      IN /\ was.revision <= member'[n].revision
                         /\ was.active => was.revision # 0
                         /\ was.revision = member'[n].revision => was.fixed = member'[n].fixed
    BY DEF ReadBehind
  <2>1. LET was == rebalancer.inputs[n]
        IN /\ was.revision <= member[n].revision
           /\ was.active => was.revision # 0
           /\ was.revision = member[n].revision => was.fixed = member[n].fixed
    BY DEF WorkingSetInv, ReadBehind
  <2>2. CASE n # m
    BY <1>1, <2>1, <2>2
  <2>3. CASE n = m
    BY <1>0, <1>1, <2>1, <2>3
  <2> QED BY <2>2, <2>3
<1> QED BY <1>2, <1>3, <1>4 DEF WorkingSetInv

LEMMA MembersChange ==
  ASSUME WorkingSetInv, NEW m \in Members,
         \/ WriteMember(m) \/ ArchiveMember(m) \/ ProtectMember(m) \/ UnprotectMember(m)
         \/ ExplicitRead(m) \/ ForegroundSelect(m) \/ Cool(m)
  PROVE  WorkingSetInv'
<1>0. /\ member \in [Members -> MemberRecord] /\ excluded \in [Members -> 0..MaxMemberRevision]
      /\ member[m] \in MemberRecord /\ member[m].revision \in Nat
      /\ member[m].revision \in 0..MaxMemberRevision
      /\ member[m].active => member[m].revision # 0
  BY SpaceConstants DEF WorkingSetInv, WorkingSetTypeOK, MemberRecord, LeftOut
<1>1. excluded = [excluded EXCEPT ![m] = excluded[m]]
  BY <1>0
<1>2. CASE WriteMember(m)
  <2>1. PICK fixed \in BOOLEAN :
          member' = [member EXCEPT ![m].active = TRUE, ![m].revision = @ + 1,
                                   ![m].fixed = fixed, ![m].recent = TRUE]
    BY <1>2 DEF WriteMember
  <2> DEFINE r == [member[m] EXCEPT !.active = TRUE, !.revision = @ + 1, !.fixed = fixed,
                                    !.recent = TRUE]
  <2>2. member[m].revision + 1 \in 0..MaxMemberRevision
    <3> DEFINE before == member[m].revision
    <3>1. before \in Nat /\ MaxMemberRevision \in Nat /\ before < MaxMemberRevision
      BY <1>0, <1>2, SpaceConstants DEF WriteMember
    <3> HIDE DEF before
    <3>2. before + 1 \in 0..MaxMemberRevision
      BY <3>1
    <3> QED BY <3>2 DEF before
  <2>3. r \in MemberRecord /\ r.revision = member[m].revision + 1
    BY <1>0, <2>2 DEF MemberRecord
  <2>4. member' = [member EXCEPT ![m] = r]
    BY <1>0, <2>1
  <2> HIDE DEF r
  <2>5. r.revision >= member[m].revision /\ r.revision # member[m].revision /\ r.revision # 0
    BY <1>0, <2>3
  <2> QED BY <1>1, <1>2, <2>3, <2>4, <2>5, MemberChanges DEF WriteMember
<1>3. CASE ArchiveMember(m)
  <2> DEFINE r == [member[m] EXCEPT !.active = FALSE]
  <2>1. r \in MemberRecord /\ r.revision = member[m].revision /\ r.fixed = member[m].fixed /\ ~r.active
    BY <1>0 DEF MemberRecord
  <2>2. member' = [member EXCEPT ![m] = r]
    BY <1>0, <1>3 DEF ArchiveMember
  <2> HIDE DEF r
  <2>3. r.revision >= member[m].revision
    BY <1>0, <2>1
  <2> QED BY <1>1, <1>3, <2>1, <2>2, <2>3, MemberChanges DEF ArchiveMember
<1>4. CASE ProtectMember(m)
  <2> DEFINE r == [member[m] EXCEPT !.protected = TRUE]
  <2>1. r \in MemberRecord /\ r.revision = member[m].revision /\ r.fixed = member[m].fixed
        /\ r.active = member[m].active
    BY <1>0 DEF MemberRecord
  <2>2. member' = [member EXCEPT ![m] = r]
    BY <1>0, <1>4 DEF ProtectMember
  <2> HIDE DEF r
  <2>3. r.revision >= member[m].revision /\ excluded' = [excluded EXCEPT ![m] = 0]
        /\ (r.active => r.revision # 0)
    BY <1>0, <1>4, <2>1 DEF ProtectMember
  <2> QED BY <1>4, <2>1, <2>2, <2>3, MemberChanges DEF ProtectMember
<1>5. CASE UnprotectMember(m)
  <2> DEFINE r == [member[m] EXCEPT !.protected = FALSE]
  <2>1. r \in MemberRecord /\ r.revision = member[m].revision /\ r.fixed = member[m].fixed
        /\ r.active = member[m].active /\ ~r.protected
    BY <1>0 DEF MemberRecord
  <2>2. member' = [member EXCEPT ![m] = r]
    BY <1>0, <1>5 DEF UnprotectMember
  <2> HIDE DEF r
  <2>3. r.revision >= member[m].revision /\ (r.active => r.revision # 0)
    BY <1>0, <2>1
  <2> QED BY <1>1, <1>5, <2>1, <2>2, <2>3, MemberChanges DEF UnprotectMember
<1>6. CASE ExplicitRead(m) \/ ForegroundSelect(m) \/ Cool(m)
  <2>1. PICK recent \in BOOLEAN : member' = [member EXCEPT ![m].recent = recent]
    BY <1>6 DEF ExplicitRead, ForegroundSelect, Cool
  <2>2. PICK e \in {0, excluded[m]} : excluded' = [excluded EXCEPT ![m] = e]
    BY <1>1, <1>6 DEF ExplicitRead, ForegroundSelect, Cool
  <2> DEFINE r == [member[m] EXCEPT !.recent = recent]
  <2>3. r \in MemberRecord /\ r.revision = member[m].revision /\ r.fixed = member[m].fixed
        /\ r.active = member[m].active /\ r.protected = member[m].protected
    BY <1>0 DEF MemberRecord
  <2>4. member' = [member EXCEPT ![m] = r]
    BY <1>0, <2>1
  <2> HIDE DEF r
  <2>5. r.revision >= member[m].revision /\ (r.active => r.revision # 0)
    BY <1>0, <2>3
  <2> QED BY <1>6, <2>2, <2>3, <2>4, <2>5, MemberChanges DEF ExplicitRead, ForegroundSelect, Cool
<1> QED BY <1>2, <1>3, <1>4, <1>5, <1>6


LEMMA PassMoves ==
  ASSUME WorkingSetInv, UNCHANGED <<member, excluded>>, obligation' \in Obligations,
         rebalancer' \in Passes, rebalancer'.pc # "loaded"
  PROVE  WorkingSetInv'
<1>1. WorkingSetTypeOK'
  BY DEF WorkingSetInv, WorkingSetTypeOK, Obligations, Passes
<1>2. LeftOut'
  BY DEF WorkingSetInv, LeftOut, Effective
<1> QED BY <1>1, <1>2 DEF WorkingSetInv, ReadBehind


LEMMA PassSteps ==
  ASSUME WorkingSetInv,
         Observe \/ Reconcile \/ SkipSpace \/ RebalanceFails \/ RebalancerDies \/ LoadInputs
  PROVE  WorkingSetInv'
<1>0. /\ rebalancer \in Passes /\ obligation \in Obligations
      /\ member \in [Members -> MemberRecord] /\ excluded \in [Members -> 0..MaxMemberRevision]
  BY DEF WorkingSetInv, WorkingSetTypeOK, Passes, Obligations
<1>1. CASE Observe \/ Reconcile \/ SkipSpace \/ RebalanceFails \/ RebalancerDies
  <2>1. UNCHANGED <<member, excluded>>
    BY <1>1 DEF Observe, Reconcile, SkipSpace, RebalanceFails, RebalancerDies
  <2>2. obligation' \in Obligations
    <3>1. /\ [obligation EXCEPT !.state = "pending"] \in Obligations
          /\ [obligation EXCEPT !.state = "satisfied"] \in Obligations
          /\ [obligation EXCEPT !.state = "pending", !.failed = TRUE] \in Obligations
      BY <1>0 DEF Obligations
    <3> QED BY <1>0, <1>1, <3>1
            DEF Observe, Reconcile, SkipSpace, RebalanceFails, RebalancerDies
  <2>3. rebalancer' \in Passes /\ rebalancer'.pc # "loaded"
    <3>1. Pressured \in BOOLEAN /\ (rebalancer.pc = "rebalanced") \in BOOLEAN
      BY DEF Pressured
    <3>2. CASE Observe
      BY <1>0, <3>1, <3>2 DEF Observe, Passes
    <3>3. CASE Reconcile
      BY <1>0, <3>3 DEF Reconcile, Moved, Passes
    <3>4. CASE SkipSpace
      BY <1>0, <3>4 DEF SkipSpace, Moved, Passes
    <3>5. CASE RebalanceFails
      BY <1>0, <3>5, SpaceConstants DEF RebalanceFails, Passes
    <3>6. CASE RebalancerDies
      BY <1>0, <3>6, SpaceConstants DEF RebalancerDies, Passes
    <3> QED BY <1>1, <3>2, <3>3, <3>4, <3>5, <3>6
  <2> QED BY <2>1, <2>2, <2>3, PassMoves
<1>2. CASE LoadInputs
  <2>1. rebalancer' \in Passes /\ rebalancer'.inputs = member
        /\ UNCHANGED <<member, excluded, obligation>>
    BY <1>0, <1>2 DEF LoadInputs, Passes
  <2>2. WorkingSetTypeOK'
    BY <2>1 DEF WorkingSetInv, WorkingSetTypeOK, Passes
  <2>3. LeftOut'
    BY <2>1 DEF WorkingSetInv, LeftOut, Effective
  <2>4. \A m \in Members : member[m].revision \in Nat
    BY <1>0, SpaceConstants DEF MemberRecord
  <2>5. ReadBehind'
    BY <2>1, <2>4 DEF WorkingSetInv, LeftOut, ReadBehind
  <2> QED BY <2>2, <2>3, <2>5 DEF WorkingSetInv
<1> QED BY <1>1, <1>2

\* The cold memories that may be left out are of the ones read, and none is mandatory.
LEMMA LeftAreCold ==
  ASSUME NEW rows \in [Members -> MemberRecord], NEW left \in Excludable(rows)
  PROVE  left \subseteq ActiveOf(rows) \ Mandatory(rows)
BY DEF Excludable

\* A pass that commits finds every Memory as it read it.
LEMMA RebalanceCommitted ==
  ASSUME WorkingSetInv, CommitRebalance
  PROVE  WorkingSetInv'
<1>0. /\ rebalancer \in Passes /\ obligation \in Obligations
      /\ member \in [Members -> MemberRecord] /\ excluded \in [Members -> 0..MaxMemberRevision]
      /\ rebalancer.inputs \in [Members -> MemberRecord]
  BY DEF WorkingSetInv, WorkingSetTypeOK, Passes, Obligations
<1>1. PICK left \in Excludable(rebalancer.inputs) :
        excluded' = [m \in Members |-> IF m \in left THEN rebalancer.inputs[m].revision ELSE 0]
  BY DEF CommitRebalance
<1>2. left \subseteq ActiveOf(rebalancer.inputs) \ Mandatory(rebalancer.inputs)
  BY <1>0, LeftAreCold
<1>3. excluded' \in [Members -> 0..MaxMemberRevision]
  <2>1. \A m \in Members : rebalancer.inputs[m].revision \in 0..MaxMemberRevision
    BY <1>0 DEF MemberRecord
  <2> QED BY <1>1, <2>1, SpaceConstants
<1>4. rebalancer' \in Passes /\ rebalancer'.pc = "rebalanced"
  BY <1>0, SpaceConstants DEF CommitRebalance, Passes
<1>5. obligation' \in Obligations /\ UNCHANGED member
  <2> DEFINE above == Cardinality(ActiveOf(rebalancer.inputs)) > SpaceTarget
             unreachable == above /\ Cardinality(Mandatory(rebalancer.inputs)) > SpaceLowWater
  <2>1. obligation' = [state |-> IF unreachable THEN "pending" ELSE "satisfied",
                       unreachable |-> unreachable, failed |-> FALSE] /\ UNCHANGED member
    BY DEF CommitRebalance
  <2>2. unreachable \in BOOLEAN
    OBVIOUS
  <2> HIDE DEF unreachable
  <2> QED BY <2>1, <2>2 DEF Obligations
<1>6. WorkingSetTypeOK'
  BY <1>0, <1>3, <1>4, <1>5 DEF WorkingSetTypeOK, Passes, Obligations
<1>7. LeftOut'
  <2> SUFFICES ASSUME NEW m \in Members
               PROVE  /\ excluded'[m] <= member[m].revision
                      /\ member[m].active => member[m].revision # 0
                      /\ member[m].active /\ excluded'[m] = member[m].revision =>
                           ~member[m].protected /\ ~member[m].fixed
    BY <1>5 DEF LeftOut, Effective
  <2>1. member[m].revision \in Nat /\ (member[m].active => member[m].revision # 0)
    BY <1>0, SpaceConstants DEF MemberRecord, WorkingSetInv, LeftOut
  <2>2. CASE m \notin left
    BY <1>1, <2>1, <2>2
  <2>3. CASE m \in left
    <3>1. /\ member[m].revision = rebalancer.inputs[m].revision
          /\ member[m].protected = rebalancer.inputs[m].protected
          /\ member[m].fixed = rebalancer.inputs[m].fixed
      BY DEF CommitRebalance, InputsUnchanged, WorkingSetInv, ReadBehind
    <3>2. ~rebalancer.inputs[m].protected /\ ~rebalancer.inputs[m].fixed
      BY <1>2, <2>3 DEF Mandatory
    <3> QED BY <1>1, <2>1, <2>3, <3>1, <3>2
  <2> QED BY <2>2, <2>3
<1> QED BY <1>4, <1>6, <1>7 DEF WorkingSetInv, ReadBehind

LEMMA WorkingSetStep ==
  ASSUME WorkingSetInv, [WorkingSetNext]_workingSetVars
  PROVE  WorkingSetInv'
<1>1. CASE UNCHANGED workingSetVars
  BY <1>1 DEF workingSetVars, WorkingSetInv, WorkingSetTypeOK, LeftOut, Effective, ReadBehind
<1> QED BY <1>1, MembersChange, PassSteps, RebalanceCommitted DEF WorkingSetNext

\* What is left fills up to low water, if anything is left out at all.
LEMMA FilledUp ==
  ASSUME NEW rows \in [Members -> MemberRecord], NEW left \in Excludable(rows), left # {}
  PROVE  /\ Cardinality(ActiveOf(rows) \ left) \in Nat
         /\ Cardinality(ActiveOf(rows) \ left) >= SpaceLowWater
<1> DEFINE fixed == Mandatory(rows)
           cold == ActiveOf(rows) \ fixed
           room == SpaceLowWater - Cardinality(fixed)
<1>1. PICK kept \in SUBSET cold :
        /\ left = cold \ kept
        /\ Cardinality(kept) = IF room <= 0 THEN 0
                               ELSE IF room < Cardinality(cold) THEN room ELSE Cardinality(cold)
  BY DEF Excludable
<1>2. fixed \subseteq ActiveOf(rows) /\ fixed \subseteq Members /\ cold \subseteq Members
      /\ ActiveOf(rows) \subseteq Members
  BY DEF Mandatory, ActiveOf
<1> HIDE DEF fixed
<1>3. IsFiniteSet(fixed) /\ IsFiniteSet(cold) /\ IsFiniteSet(kept) /\ IsFiniteSet(ActiveOf(rows) \ left)
  <2>1. fixed \in SUBSET Members /\ cold \in SUBSET Members /\ kept \in SUBSET Members
        /\ ActiveOf(rows) \ left \in SUBSET Members
    BY <1>1, <1>2
  <2> QED BY <2>1, SpaceConstants, FS_Subset
<1>4. Cardinality(fixed) \in Nat /\ Cardinality(cold) \in Nat /\ Cardinality(kept) \in Nat
      /\ Cardinality(ActiveOf(rows) \ left) \in Nat
  BY <1>3, FS_CardinalityType
<1>5. ActiveOf(rows) \ left = fixed \cup kept /\ fixed \cap kept = {}
  BY <1>1, <1>2
<1>6. Cardinality(fixed \cup kept) = Cardinality(fixed) + Cardinality(kept)
  <2>1. Cardinality(fixed \cup kept) =
          Cardinality(fixed) + Cardinality(kept) - Cardinality(fixed \cap kept)
    BY <1>3, FS_Union
  <2>2. Cardinality(fixed \cap kept) = 0
    BY <1>5, FS_EmptySet
  <2> QED BY <1>4, <2>1, <2>2
<1>7. Cardinality(kept) # Cardinality(cold)
  <2>1. kept = cold => left = {}
    BY <1>1
  <2>2. Cardinality(cold) = Cardinality(kept) => cold = kept
    BY <1>3, FS_Subset
  <2> QED BY <2>1, <2>2
<1>8. room <= 0 \/ Cardinality(kept) = room
  BY <1>1, <1>7
<1>9. Cardinality(fixed) + Cardinality(kept) >= SpaceLowWater
  BY <1>4, <1>8, SpaceConstants
<1> QED BY <1>4, <1>5, <1>6, <1>9

\* The working set (src/src/capacity/index.ts): what a pass read is never ahead of the rows,
\* and what is left out at its revision is neither protected nor fixed.
THEOREM WorkingSetInvariant == WorkingSetSpec => []WorkingSetInv
<1>1. WorkingSetInv /\ [WorkingSetNext]_workingSetVars => WorkingSetInv'
  BY WorkingSetStep
<1> QED BY <1>1, WorkingSetStarts, PTL DEF WorkingSetSpec

\* What is left out of the ranking is never protected, whatever was protected, revised,
\* restored or read while the Worker computed what to leave out (rebalanceMemoryWorkingSet).
THEOREM ProtectedIsRankedAlways == WorkingSetSpec => []ProtectedIsRanked
<1>1. WorkingSetInv => ProtectedIsRanked
  BY DEF WorkingSetInv, LeftOut, ProtectedIsRanked
<1> QED BY <1>1, WorkingSetInvariant, PTL

\* A rebalance that leaves anything out leaves the ranking at low water or above
\* (selectMemoryWorkingSet and rebalanceMemoryWorkingSet).
THEOREM LowWaterHeldAlways == WorkingSetSpec => LowWaterHeld
<1>1. WorkingSetInv /\ [WorkingSetNext]_workingSetVars =>
        [rebalancer.pc = "loaded" /\ rebalancer'.pc = "rebalanced" /\ excluded' # excluded =>
           \/ Cardinality({m \in ActiveOf(member) : excluded'[m] # member[m].revision})
                >= SpaceLowWater
           \/ \A m \in Members : excluded'[m] = 0]_workingSetVars
  <2> SUFFICES ASSUME WorkingSetInv, [WorkingSetNext]_workingSetVars, rebalancer.pc = "loaded",
                      rebalancer'.pc = "rebalanced", excluded' # excluded,
                      ~ \A m \in Members : excluded'[m] = 0
               PROVE  Cardinality({m \in ActiveOf(member) : excluded'[m] # member[m].revision})
                        >= SpaceLowWater
    OBVIOUS
  <2>1. rebalancer' # rebalancer
    OBVIOUS
  <2>2. CommitRebalance
    BY <2>1 DEF WorkingSetNext, workingSetVars, WriteMember, ArchiveMember, ProtectMember,
                UnprotectMember, ExplicitRead, ForegroundSelect, Cool, Observe, Reconcile,
                LoadInputs, SkipSpace, RebalanceFails, RebalancerDies
  <2>3. PICK left \in Excludable(rebalancer.inputs) :
          excluded' = [m \in Members |-> IF m \in left THEN rebalancer.inputs[m].revision ELSE 0]
    BY <2>2 DEF CommitRebalance
  <2>4. left # {} /\ rebalancer.inputs \in [Members -> MemberRecord]
    BY <2>3 DEF WorkingSetInv, WorkingSetTypeOK
  <2>5. ActiveOf(rebalancer.inputs) = ActiveOf(member)
    BY <2>2 DEF CommitRebalance, InputsUnchanged, ActiveOf
  <2>6. \A m \in ActiveOf(member) : excluded'[m] # member[m].revision <=> m \notin left
    BY <2>2, <2>3 DEF CommitRebalance, InputsUnchanged, ActiveOf, WorkingSetInv, LeftOut
  <2>7. {m \in ActiveOf(member) : excluded'[m] # member[m].revision} =
          ActiveOf(rebalancer.inputs) \ left
    BY <2>5, <2>6
  <2> QED BY <2>4, <2>7, FilledUp
<1> QED BY <1>1, WorkingSetInvariant, PTL DEF WorkingSetSpec, LowWaterHeld

-----------------------------------------------------------------------------

\* Retention archives unprotected excess and nothing that was restored, the ranking keeps
\* what is protected, and a rebalance does not sink it below low water, if nobody protects
\* or archives a Memory between the check of an item and its write.
THEOREM CapacityKeptAlways ==
  ASSUME OwnerBetween = FALSE
  PROVE  CorpusSpec /\ WorkingSetSpec => CapacityKept
BY ArchivesOnlyExcessAlways, LowWaterHeldAlways, ProtectedIsRankedAlways, PTL DEF CapacityKept

-----------------------------------------------------------------------------
(***************************************************************************)
(* The outbox of captured events.                                           *)
(***************************************************************************)
States == {"absent", "pending", "processing", "retrying", "completed", "dead_letter"}

EventRow == [state: States, by: Claimers \cup {NoClaimer}, attempt: 0..MaxClaims,
             expired: BOOLEAN, due: BOOLEAN, aged: BOOLEAN, body: BOOLEAN]

Claims == [event: Captured, attempt: 0..MaxClaims]

(***************************************************************************)
(* A row names a process exactly while it is leased.                       *)
(***************************************************************************)
LeaseNamed == \A e \in Captured : event[e].by # NoClaimer <=> event[e].state = "processing"

(***************************************************************************)
(* No process has a token that the row has not handed out, and the one with *)
(* the current token is the one the row names.                             *)
(***************************************************************************)
TokensHandedOut ==
  /\ \A p \in Claimers : claim[p].attempt <= event[claim[p].event].attempt
  /\ \A p \in Claimers, e \in Captured : Holds(p, e) => event[e].by = p

OutboxInv == OutboxTypeOK /\ LeaseNamed /\ TokensHandedOut /\ BodyWhileLive

-----------------------------------------------------------------------------
(***************************************************************************)
(* The type invariant, with its records named.                             *)
(***************************************************************************)
LEMMA OutboxTypes == OutboxTypeOK <=> /\ event \in [Captured -> EventRow]
                                /\ claim \in [Claimers -> Claims]
                                /\ processingOpen \in BOOLEAN
  BY DEF OutboxTypeOK, EventRow, States, Claims

LEMMA AbsentType == Absent \in EventRow
  BY OutboxAssumption DEF Absent, EventRow, States

(***************************************************************************)
(* One row changes and none of the processes learns anything, or one drops  *)
(* its token.                                                              *)
(***************************************************************************)
OnlyRow(e, r) == event' = [event EXCEPT ![e] = r]

Dropped(p) == claim' = [claim EXCEPT ![p].attempt = 0]

LEMMA DropKeeps ==
  ASSUME claim \in [Claimers -> Claims], NEW p \in Claimers, Dropped(p)
  PROVE  /\ claim' \in [Claimers -> Claims]
         /\ claim'[p].attempt = 0 /\ claim'[p].event = claim[p].event
         /\ \A q \in Claimers \ {p} : claim'[q] = claim[q]
<1>1. claim[p] \in Claims
  OBVIOUS
<1>2. 0 \in 0..MaxClaims
  BY OutboxAssumption
<1>3. [claim[p] EXCEPT !.attempt = 0] \in Claims
  BY <1>1, <1>2 DEF Claims
<1>4. claim'[p] = [claim[p] EXCEPT !.attempt = 0]
  BY DEF Dropped
<1>5. claim' = [claim EXCEPT ![p] = [claim[p] EXCEPT !.attempt = 0]]
  BY DEF Dropped
<1> QED BY <1>1, <1>3, <1>4, <1>5 DEF Claims

(***************************************************************************)
(* The rows whose lease, token and payload stay, or that nobody works on.   *)
(***************************************************************************)
RowKept(e) ==
  /\ event'[e].attempt = event[e].attempt
  /\ \/ /\ event'[e].state = event[e].state /\ event'[e].by = event[e].by
        /\ event'[e].body = event[e].body \/ event[e].state \in {"absent", "completed", "dead_letter"}
     \/ /\ event'[e].state \in {"pending", "retrying"} /\ event'[e].by = NoClaimer
        /\ event'[e].body
     \/ event'[e].state \in {"completed", "dead_letter"} /\ event'[e].by = NoClaimer

ClaimKept(p) == \/ claim'[p] = claim[p]
                \/ claim'[p].attempt = 0 /\ claim'[p].event = claim[p].event

LEMMA OutboxKeeps ==
  ASSUME OutboxInv, OutboxTypeOK', \A e \in Captured : RowKept(e), \A p \in Claimers : ClaimKept(p)
  PROVE  OutboxInv'
<1> USE DEF OutboxInv
<1>1. LeaseNamed'
  BY DEF LeaseNamed, RowKept
<1>2. BodyWhileLive'
  BY DEF BodyWhileLive, RowKept
<1>3. \A p \in Claimers : claim'[p].attempt <= event'[claim'[p].event].attempt
  <2> TAKE p \in Claimers
  <2>1. claim[p].event \in Captured /\ claim'[p].event = claim[p].event
    BY OutboxTypes DEF ClaimKept, Claims
  <2>2. event'[claim[p].event].attempt = event[claim[p].event].attempt
    BY <2>1 DEF RowKept
  <2>3. event[claim[p].event].attempt \in Nat
    BY <2>1, OutboxTypes DEF EventRow
  <2> QED BY <2>1, <2>2, <2>3 DEF ClaimKept, TokensHandedOut
<1>4. ASSUME NEW p \in Claimers, NEW e \in Captured, Holds(p, e)' PROVE event'[e].by = p
  <2>1. claim'[p] = claim[p] /\ event'[e].state = "processing"
    BY <1>4 DEF Holds, ClaimKept
  <2>2. event[e].state = "processing" /\ event'[e].by = event[e].by
    BY <2>1 DEF RowKept
  <2>3. Holds(p, e)
    BY <1>4, <2>1, <2>2 DEF Holds, RowKept
  <2> QED BY <2>2, <2>3 DEF TokensHandedOut
<1> QED BY <1>1, <1>2, <1>3, <1>4 DEF TokensHandedOut

-----------------------------------------------------------------------------
(* What each operation does to the rows.                                    *)

LEMMA OutboxRecordStep ==
  ASSUME OutboxInv, NEW e \in Captured, Record(e)
  PROVE  /\ OutboxTypeOK'
         /\ \A f \in Captured : RowKept(f)
         /\ \/ event' = event
            \/ /\ event[e].state = "absent" /\ event'[e].state = "pending"
               /\ event'[e].by = NoClaimer
               /\ \A f \in Captured \ {e} : event'[f] = event[f]
<1> USE DEF OutboxInv
<1>0. processingOpen' \in BOOLEAN /\ claim' = claim
  BY DEF Record, OutboxTypeOK
<1>1. CASE event' = event
  BY <1>0, <1>1, OutboxTypes DEF OutboxTypeOK, RowKept
<1>2. CASE event' # event
  <2>1. event[e].state = "absent" /\ event[e] \in EventRow /\ event[e].by = NoClaimer
    BY <1>2, OutboxTypes DEF Record, LeaseNamed
  <2>2. event' = [event EXCEPT ![e] = [event[e] EXCEPT !.state = "pending", !.body = TRUE]]
    BY <1>2 DEF Record
  <2>3. [event[e] EXCEPT !.state = "pending", !.body = TRUE] \in EventRow
    BY <2>1 DEF EventRow, States
  <2>4. event' \in [Captured -> EventRow] /\ OutboxTypeOK'
    BY <1>0, <2>2, <2>3, OutboxTypes DEF OutboxTypeOK, EventRow, States, Claims
  <2>5. /\ event'[e].state = "pending" /\ event'[e].by = NoClaimer /\ event'[e].body
        /\ event'[e].attempt = event[e].attempt
    BY <2>1, <2>2, OutboxTypes DEF EventRow
  <2>6. \A f \in Captured \ {e} : event'[f] = event[f]
    BY <2>2, OutboxTypes
  <2> QED BY <2>1, <2>4, <2>5, <2>6 DEF RowKept
<1> QED BY <1>1, <1>2

LEMMA ClaimStep ==
  ASSUME OutboxInv, NEW p \in Claimers, NEW e \in Captured, ClaimEvent(p, e)
  PROVE  /\ OutboxInv'
         /\ event'[e].state = "processing" /\ event'[e].by = p
         /\ \A f \in Captured \ {e} : event'[f] = event[f]
<1> USE DEF OutboxInv
<1> DEFINE a == event[e].attempt + 1
<1>1. event[e] \in EventRow /\ event[e].body /\ event[e].attempt < MaxClaims
  BY OutboxTypes DEF ClaimEvent, Claimable, BodyWhileLive
<1>2. a \in 0..MaxClaims /\ a > event[e].attempt
  BY <1>1, OutboxAssumption DEF EventRow
<1>3. event' = [event EXCEPT ![e] = [event[e] EXCEPT !.state = "processing", !.by = p,
                                       !.expired = FALSE, !.attempt = a]]
  BY DEF ClaimEvent
<1>4. claim' = [claim EXCEPT ![p] = [event |-> e, attempt |-> a]] /\ processingOpen' = processingOpen
  BY DEF ClaimEvent
<1> HIDE DEF a
<1>5. [event[e] EXCEPT !.state = "processing", !.by = p, !.expired = FALSE, !.attempt = a]
        \in EventRow
  BY <1>1, <1>2 DEF EventRow, States
<1>6. event' \in [Captured -> EventRow] /\ claim' \in [Claimers -> Claims]
  BY <1>2, <1>3, <1>4, <1>5, OutboxTypes DEF Claims
<1>7. OutboxTypeOK'
  BY <1>4, <1>6, OutboxTypes DEF OutboxTypeOK, EventRow, States, Claims
<1>8. /\ event'[e].state = "processing" /\ event'[e].by = p
      /\ event'[e].attempt = a /\ event'[e].body
  BY <1>1, <1>3, OutboxTypes DEF EventRow
<1>9. \A f \in Captured \ {e} : event'[f] = event[f]
  BY <1>3, OutboxTypes
<1>10. claim'[p].event = e /\ claim'[p].attempt = a /\ \A q \in Claimers \ {p} : claim'[q] = claim[q]
  BY <1>4, OutboxTypes
<1>11. LeaseNamed' /\ BodyWhileLive'
  BY <1>8, <1>9, OutboxAssumption DEF LeaseNamed, BodyWhileLive
<1>12. \A q \in Claimers : claim[q] \in Claims
  BY OutboxTypes
<1>13. \A q \in Claimers : claim'[q].attempt <= event'[claim'[q].event].attempt
  <2> TAKE q \in Claimers
  <2>1. claim[q].event \in Captured /\ claim[q].attempt \in Nat
        /\ claim[q].attempt <= event[claim[q].event].attempt
    BY <1>12 DEF Claims, TokensHandedOut
  <2>2. event[e].attempt \in Nat /\ a \in Nat
    BY <1>1, <1>2 DEF EventRow
  <2> QED BY <1>2, <1>8, <1>9, <1>10, <2>1, <2>2
<1>14. ASSUME NEW q \in Claimers, NEW f \in Captured, Holds(q, f)' PROVE event'[f].by = q
  <2>1. CASE q = p
    BY <1>8, <1>10, <1>14, <2>1 DEF Holds
  <2>2. CASE q # p /\ f = e
    <3>1. claim[q].event = e /\ claim[q].attempt = a
      BY <1>8, <1>10, <1>14, <2>2 DEF Holds
    <3>2. a <= event[e].attempt /\ a \in Nat /\ event[e].attempt \in Nat
      BY <1>1, <1>2, <3>1 DEF TokensHandedOut, EventRow
    <3> QED BY <1>2, <3>2
  <2>3. CASE q # p /\ f # e
    BY <1>9, <1>10, <1>14, <2>3 DEF Holds, TokensHandedOut
  <2> QED BY <2>1, <2>2, <2>3
<1> QED BY <1>7, <1>8, <1>9, <1>11, <1>13, <1>14 DEF TokensHandedOut

(***************************************************************************)
(* A report ends the lease of its own process and no other.                *)
(***************************************************************************)
LEMMA ReportStep ==
  ASSUME OutboxInv, NEW p \in Claimers, NEW e \in Captured, CompleteEvent(p, e) \/ FailEvent(p, e)
  PROVE  /\ OutboxTypeOK'
         /\ \A f \in Captured : RowKept(f)
         /\ \A q \in Claimers : ClaimKept(q)
         /\ event[e].state = "processing" /\ event[e].by = p
         /\ event'[e].state \in {"completed", "retrying", "dead_letter"}
         /\ event'[e].by = NoClaimer
         /\ \A f \in Captured \ {e} : event'[f] = event[f]
         /\ claim[p] = [event |-> e, attempt |-> event[e].attempt]
         /\ claim'[p].attempt = 0
<1> USE DEF OutboxInv
<1>1. /\ Holds(p, e) /\ event[e] \in EventRow /\ claim[p] \in Claims /\ Dropped(p)
      /\ processingOpen' \in BOOLEAN
  BY OutboxTypes DEF CompleteEvent, FailEvent, Dropped
<1>2. PICK s \in {"completed", "retrying", "dead_letter"}, due \in BOOLEAN :
        event' = [event EXCEPT ![e] = [event[e] EXCEPT !.state = s, !.by = NoClaimer,
                                                       !.expired = FALSE, !.due = due]]
  <2>1. CASE CompleteEvent(p, e)
    <3>1. event' = [event EXCEPT ![e] = [event[e] EXCEPT !.state = "completed",
                                           !.by = NoClaimer, !.expired = FALSE]]
      BY <2>1 DEF CompleteEvent
    <3>2. [event[e] EXCEPT !.state = "completed", !.by = NoClaimer, !.expired = FALSE]
            = [event[e] EXCEPT !.state = "completed", !.by = NoClaimer, !.expired = FALSE,
                               !.due = event[e].due]
      BY <1>1 DEF EventRow
    <3>3. event[e].due \in BOOLEAN
      BY <1>1 DEF EventRow
    <3> QED BY <3>1, <3>2, <3>3
  <2>2. CASE FailEvent(p, e)
    BY <2>2 DEF FailEvent
  <2> QED BY <1>1, <2>1, <2>2
<1>3. [event[e] EXCEPT !.state = s, !.by = NoClaimer, !.expired = FALSE, !.due = due]
        \in EventRow
  BY <1>1 DEF EventRow, States
<1>4. event' \in [Captured -> EventRow]
  BY <1>2, <1>3, OutboxTypes
<1>5. OutboxTypeOK'
  BY <1>1, <1>4, DropKeeps, OutboxTypes DEF OutboxTypeOK, EventRow, States, Claims
<1>6. /\ event'[e].state = s /\ event'[e].by = NoClaimer
      /\ event'[e].attempt = event[e].attempt /\ event'[e].body = event[e].body
  BY <1>1, <1>2, OutboxTypes DEF EventRow
<1>7. \A f \in Captured \ {e} : event'[f] = event[f]
  BY <1>2, OutboxTypes
<1>8. event[e].body /\ event[e].state = "processing"
  BY <1>1 DEF Holds, BodyWhileLive
<1>9. \A f \in Captured : RowKept(f)
  BY <1>6, <1>7, <1>8 DEF RowKept
<1>10. claim'[p].attempt = 0 /\ \A q \in Claimers : ClaimKept(q)
  BY <1>1, DropKeeps, OutboxTypes DEF ClaimKept
<1>11. claim[p] = [event |-> e, attempt |-> event[e].attempt]
  BY <1>1 DEF Holds, Claims
<1> QED BY <1>1, <1>5, <1>6, <1>7, <1>8, <1>9, <1>10, <1>11 DEF TokensHandedOut

(***************************************************************************)
(* Time, retention and a dropped token change no state, no lease and no    *)
(* payload that is still needed.                                           *)
(***************************************************************************)
Passive == RemovePayloads \/ (\E e \in Captured : Ages(e)) \/ \E p \in Claimers : DropClaim(p)

QuietOutbox ==
  /\ OutboxTypeOK'
  /\ \A e \in Captured : RowKept(e)
  /\ \A p \in Claimers : ClaimKept(p)
  /\ \A e \in Captured : event'[e].state = event[e].state /\ event'[e].by = event[e].by

LEMMA PassiveStep ==
  ASSUME OutboxInv, Passive
  PROVE  QuietOutbox
<1> USE DEF OutboxInv
<1>1. CASE RemovePayloads
  <2>1. PICK S \in SUBSET {e \in Captured : Removable(e)} :
          event' = [e \in Captured |-> IF e \in S THEN [event[e] EXCEPT !.body = FALSE]
                                       ELSE event[e]]
    BY <1>1 DEF RemovePayloads
  <2>2. \A e \in Captured : event[e] \in EventRow
    BY OutboxTypes
  <2>3. \A e \in Captured : [event[e] EXCEPT !.body = FALSE] \in EventRow
    BY <2>2 DEF EventRow
  <2>4. event' \in [Captured -> EventRow]
    BY <2>1, <2>2, <2>3
  <2>5. \A e \in Captured : /\ event'[e].state = event[e].state /\ event'[e].by = event[e].by
                            /\ event'[e].attempt = event[e].attempt
                            /\ \/ event'[e].body = event[e].body
                               \/ event[e].state \in {"completed", "dead_letter"}
    BY <2>1, <2>2 DEF EventRow, Removable
  <2>6. UNCHANGED <<claim, processingOpen>>
    BY <1>1 DEF RemovePayloads
  <2> QED BY <2>4, <2>5, <2>6, OutboxTypes DEF QuietOutbox, RowKept, ClaimKept, OutboxTypeOK, EventRow, States, Claims
<1>2. ASSUME NEW e \in Captured, Ages(e)
      PROVE  QuietOutbox
  <2>1. PICK r \in {[event[e] EXCEPT !.expired = TRUE], [event[e] EXCEPT !.due = TRUE],
                    [event[e] EXCEPT !.aged = TRUE]} : OnlyRow(e, r)
    BY <1>2 DEF Ages, OnlyRow
  <2>2. event[e] \in EventRow
    BY OutboxTypes
  <2>3. /\ r \in EventRow /\ r.state = event[e].state /\ r.by = event[e].by
        /\ r.attempt = event[e].attempt /\ r.body = event[e].body
    <3>1. CASE r = [event[e] EXCEPT !.expired = TRUE]
      BY <2>2, <3>1 DEF EventRow
    <3>2. CASE r = [event[e] EXCEPT !.due = TRUE]
      BY <2>2, <3>2 DEF EventRow
    <3>3. CASE r = [event[e] EXCEPT !.aged = TRUE]
      BY <2>2, <3>3 DEF EventRow
    <3> QED BY <2>1, <3>1, <3>2, <3>3
  <2>4. event' \in [Captured -> EventRow] /\ event'[e] = r
        /\ \A f \in Captured \ {e} : event'[f] = event[f]
    BY <2>1, <2>3, OutboxTypes DEF OnlyRow
  <2>5. UNCHANGED <<claim, processingOpen>>
    BY <1>2 DEF Ages
  <2> QED BY <2>3, <2>4, <2>5, OutboxTypes DEF QuietOutbox, RowKept, ClaimKept, OutboxTypeOK, EventRow, States, Claims
<1>3. ASSUME NEW p \in Claimers, DropClaim(p)
      PROVE  QuietOutbox
  <2>1. Dropped(p) /\ UNCHANGED <<event, processingOpen>>
    BY <1>3 DEF DropClaim, Dropped
  <2>2. claim' \in [Claimers -> Claims] /\ \A q \in Claimers : ClaimKept(q)
    BY <2>1, DropKeeps, OutboxTypes DEF ClaimKept
  <2>3. OutboxTypeOK'
    BY <2>1, <2>2, OutboxTypes DEF OutboxTypeOK, EventRow, States, Claims
  <2> QED BY <2>1, <2>2, <2>3 DEF QuietOutbox, RowKept
<1> QED BY <1>1, <1>2, <1>3 DEF Passive

(***************************************************************************)
(* Events that are handed over were pending and leased to nobody.          *)
(***************************************************************************)
LEMMA HandOffStep ==
  ASSUME OutboxInv, HandOff
  PROVE  /\ OutboxTypeOK'
         /\ \A e \in Captured : RowKept(e)
         /\ \A p \in Claimers : ClaimKept(p)
         /\ \E S \in SUBSET Captured :
              /\ \A e \in S : event[e].state = "pending"
              /\ \A e \in Captured :
                   /\ event'[e].state = IF e \in S THEN "completed" ELSE event[e].state
                   /\ event'[e].by = event[e].by
<1> USE DEF OutboxInv
<1>1. PICK S \in SUBSET {e \in Captured : event[e].state = "pending"} :
        event' = [e \in Captured |-> IF e \in S THEN [event[e] EXCEPT !.state = "completed"]
                                     ELSE event[e]]
  BY DEF HandOff
<1>2. UNCHANGED <<claim, processingOpen>>
  BY DEF HandOff
<1>3. \A e \in Captured : event[e] \in EventRow
  BY OutboxTypes
<1>4. \A e \in Captured : [event[e] EXCEPT !.state = "completed"] \in EventRow
  BY <1>3 DEF EventRow, States
<1>5. event' \in [Captured -> EventRow]
  BY <1>1, <1>3, <1>4
<1>6. \A e \in Captured : /\ event'[e].state = IF e \in S THEN "completed" ELSE event[e].state
                          /\ event'[e].by = event[e].by /\ event'[e].body = event[e].body
                          /\ event'[e].attempt = event[e].attempt
  BY <1>1, <1>3 DEF EventRow
<1>7. \A e \in S : e \in Captured /\ event[e].state = "pending" /\ event[e].by = NoClaimer
  BY DEF LeaseNamed
<1>8. OutboxTypeOK'
  <2>1. claim' \in [Claimers -> Claims] /\ processingOpen' \in BOOLEAN
    BY <1>2, OutboxTypes
  <2> QED BY <1>5, <2>1 DEF OutboxTypeOK, EventRow, States, Claims
<1>9. ASSUME NEW e \in Captured PROVE RowKept(e)
  <2>1. CASE e \in S
    BY <1>6, <1>7, <2>1 DEF RowKept
  <2>2. CASE e \notin S
    BY <1>6, <2>2 DEF RowKept
  <2> QED BY <2>1, <2>2
<1>10. \A p \in Claimers : ClaimKept(p)
  BY <1>2 DEF ClaimKept
<1>11. S \in SUBSET Captured
  OBVIOUS
<1> QED BY <1>6, <1>7, <1>8, <1>9, <1>10, <1>11

-----------------------------------------------------------------------------
LEMMA OutboxStarts == OutboxInit => OutboxInv
<1> SUFFICES ASSUME OutboxInit PROVE OutboxInv
  OBVIOUS
<1>1. \A e \in Captured : event[e] = Absent
  BY DEF OutboxInit
<1>2. \A p \in Claimers : claim[p] \in Claims /\ claim[p].attempt = 0
  BY OutboxAssumption DEF OutboxInit, Claims
<1>3. OutboxTypeOK
  BY <1>2, AbsentType, OutboxTypes DEF OutboxInit
<1>4. LeaseNamed /\ BodyWhileLive
  BY <1>1 DEF LeaseNamed, BodyWhileLive, Absent
<1>5. TokensHandedOut
  BY <1>1, <1>2 DEF TokensHandedOut, Holds, Absent, Claims
<1> QED BY <1>3, <1>4, <1>5 DEF OutboxInv

LEMMA OutboxStep == OutboxInv /\ [OutboxNext]_outboxVars => OutboxInv'
<1> SUFFICES ASSUME OutboxInv, [OutboxNext]_outboxVars PROVE OutboxInv'
  OBVIOUS
<1>1. ASSUME NEW e \in Captured, Record(e) PROVE OutboxInv'
  <2>1. \A p \in Claimers : ClaimKept(p)
    BY <1>1 DEF Record, ClaimKept
  <2> QED BY <1>1, <2>1, OutboxRecordStep, OutboxKeeps
<1>2. ASSUME NEW p \in Claimers, NEW e \in Captured, ClaimEvent(p, e) PROVE OutboxInv'
  BY <1>2, ClaimStep
<1>3. ASSUME NEW p \in Claimers, NEW e \in Captured, CompleteEvent(p, e) \/ FailEvent(p, e)
      PROVE  OutboxInv'
  BY <1>3, ReportStep, OutboxKeeps
<1>4. CASE Passive
  BY <1>4, PassiveStep, OutboxKeeps DEF QuietOutbox
<1>5. CASE HandOff
  BY <1>5, HandOffStep, OutboxKeeps
<1>6. CASE UNCHANGED outboxVars
  BY <1>6 DEF outboxVars, OutboxInv, OutboxTypeOK, LeaseNamed, TokensHandedOut, BodyWhileLive, Holds
<1> QED BY <1>1, <1>2, <1>3, <1>4, <1>5, <1>6 DEF OutboxNext, Passive

(***************************************************************************)
(* The rows of capture_events and the tokens that processes hold keep       *)
(* their types, and the invariant its other parts.                         *)
(***************************************************************************)
THEOREM OutboxInvariant == OutboxSpec => []OutboxInv
  BY OutboxStarts, OutboxStep, PTL DEF OutboxSpec

-----------------------------------------------------------------------------
(* The refinement.                                                          *)

LEMMA Changes ==
  ASSUME NEW e \in Captured, NEW s, NEW by, event'[e].state = s, event'[e].by = by,
         \A f \in Captured \ {e} : event'[f] = event[f]
  PROVE  /\ [f \in Captured |-> event'[f].state]
              = [[f \in Captured |-> event[f].state] EXCEPT ![e] = s]
         /\ [f \in Captured |-> event'[f].by]
              = [[f \in Captured |-> event[f].by] EXCEPT ![e] = by]
  OBVIOUS

(***************************************************************************)
(* Every step of the outbox is a step of the leased queue or a stutter, and *)
(* a lease ends only by the report of the process that has its token.      *)
(***************************************************************************)
LeasesReported ==
  \A e \in Captured :
    event[e].state = "processing" /\ event'[e].state # "processing" =>
      \E p \in Claimers : /\ claim[p] = [event |-> e, attempt |-> event[e].attempt]
                          /\ claim'[p].attempt = 0

LEMMA OutboxRefines ==
  ASSUME OutboxInv, [OutboxNext]_outboxVars
  PROVE  [OutboxLeases!LQNext]_(OutboxLeases!lqVars) /\ LeasesReported
<1> USE DEF OutboxInv
<1>1. ASSUME NEW e \in Captured, Record(e)
      PROVE  [OutboxLeases!LQNext]_(OutboxLeases!lqVars) /\ LeasesReported
  <2>1. CASE event' = event
    BY <2>1 DEF OutboxLeases!lqVars, LeasesReported
  <2>2. CASE /\ event[e].state = "absent" /\ event'[e].state = "pending"
             /\ event'[e].by = NoClaimer
             /\ \A f \in Captured \ {e} : event'[f] = event[f]
    <3>1. event[e].by = NoClaimer
      BY <2>2 DEF LeaseNamed
    <3>2. OutboxLeases!Enqueue({e}, "pending")
      BY <2>2, <3>1 DEF OutboxLeases!Enqueue
    <3>3. OutboxLeases!LQNext
      BY <3>2 DEF OutboxLeases!LQNext
    <3> QED BY <2>2, <3>3 DEF LeasesReported
  <2> QED BY <1>1, <2>1, <2>2, OutboxRecordStep
<1>2. ASSUME NEW p \in Claimers, NEW e \in Captured, ClaimEvent(p, e)
      PROVE  OutboxLeases!LQNext /\ LeasesReported
  <2>1. event[e].state \in {"pending", "processing", "retrying", "blocked"}
    BY <1>2 DEF ClaimEvent, Claimable
  <2>2. /\ [f \in Captured |-> event'[f].state]
             = [[f \in Captured |-> event[f].state] EXCEPT ![e] = "processing"]
        /\ [f \in Captured |-> event'[f].by]
             = [[f \in Captured |-> event[f].by] EXCEPT ![e] = p]
    BY <1>2, ClaimStep, Changes
  <2>3. OutboxLeases!Claim(p, e)
    BY <2>1, <2>2 DEF OutboxLeases!Claim
  <2>4. LeasesReported
    BY <1>2, ClaimStep DEF LeasesReported
  <2> QED BY <2>3, <2>4 DEF OutboxLeases!LQNext
<1>3. ASSUME NEW p \in Claimers, NEW e \in Captured, CompleteEvent(p, e) \/ FailEvent(p, e)
      PROVE  OutboxLeases!LQNext /\ LeasesReported
  <2>1. /\ event[e].state = "processing" /\ event[e].by = p
        /\ event'[e].state \in {"completed", "retrying", "dead_letter"}
        /\ event'[e].by = NoClaimer
        /\ \A f \in Captured \ {e} : event'[f] = event[f]
        /\ claim[p] = [event |-> e, attempt |-> event[e].attempt]
        /\ claim'[p].attempt = 0
    BY <1>3, ReportStep
  <2>2. /\ [f \in Captured |-> event'[f].state]
             = [[f \in Captured |-> event[f].state] EXCEPT ![e] = event'[e].state]
        /\ [f \in Captured |-> event'[f].by]
             = [[f \in Captured |-> event[f].by] EXCEPT ![e] = NoClaimer]
    BY <2>1, Changes
  <2>3. OutboxLeases!Release(p, e)
    BY <2>1, <2>2 DEF OutboxLeases!Release
  <2>4. LeasesReported
    BY <2>1 DEF LeasesReported
  <2> QED BY <2>3, <2>4 DEF OutboxLeases!LQNext
<1>4. CASE Passive
  <2>1. \A e \in Captured : event'[e].state = event[e].state /\ event'[e].by = event[e].by
    BY <1>4, PassiveStep DEF QuietOutbox
  <2> QED BY <2>1 DEF OutboxLeases!lqVars, LeasesReported
<1>5. CASE HandOff
  <2>1. PICK S \in SUBSET Captured :
          /\ \A e \in S : event[e].state = "pending"
          /\ \A e \in Captured :
               /\ event'[e].state = IF e \in S THEN "completed" ELSE event[e].state
               /\ event'[e].by = event[e].by
    BY <1>5, HandOffStep
  <2>2. OutboxLeases!Close(S)
    BY <2>1 DEF OutboxLeases!Close
  <2> QED BY <2>1, <2>2 DEF OutboxLeases!LQNext, LeasesReported
<1>6. CASE UNCHANGED outboxVars
  BY <1>6 DEF outboxVars, OutboxLeases!lqVars, LeasesReported
<1> QED BY <1>1, <1>2, <1>3, <1>4, <1>5, <1>6 DEF OutboxNext, Passive

(***************************************************************************)
(* The capture outbox is a leased queue: a claimed event is completed or    *)
(* failed only by the process with its current token (capture/index.ts:     *)
(* completeCaptureEvent and failCaptureEvent compare it), what is finished  *)
(* is never taken up again, and no event loses its payload while a process  *)
(* may still be given it, for any number of events, processes and claims.   *)
(***************************************************************************)
THEOREM OutboxCorrect == OutboxSpec => OutboxKept
<1>1. OutboxInit => OutboxLeases!LQInit
  BY DEF OutboxInit, OutboxLeases!LQInit, Absent
<1>2. OutboxInv /\ [OutboxNext]_outboxVars => [OutboxLeases!LQNext]_(OutboxLeases!lqVars)
  BY OutboxRefines
<1>3. OutboxSpec => OutboxLeases!LQSpec
  BY <1>1, <1>2, OutboxInvariant, PTL DEF OutboxSpec, OutboxLeases!LQSpec
<1>4. OutboxInv /\ [OutboxNext]_outboxVars => [LeasesReported]_outboxVars
  BY OutboxRefines
<1>5. OutboxSpec => [][LeasesReported]_outboxVars
  BY <1>4, OutboxInvariant, PTL DEF OutboxSpec
<1>6. OutboxInv => BodyWhileLive
  BY DEF OutboxInv
<1>7. OutboxSpec => []BodyWhileLive
  BY <1>6, OutboxInvariant, PTL
<1>8. OutboxSpec => CurrentLeaseReports
  BY <1>5 DEF CurrentLeaseReports, LeasesReported
<1> QED BY <1>3, <1>7, <1>8 DEF OutboxKept, OutboxImplementsLeaseQueue


-----------------------------------------------------------------------------
(***************************************************************************)
(* The types of the candidates alone, with any number of Workers that        *)
(* evaluate at once.                                                         *)
(***************************************************************************)
OperationStates == {"absent", "open", "blocked", "completed"}

CandidateColumns ==
  /\ CandidatesTyped
  /\ operation \in [CandidateIds \X EvidenceGenerations -> OperationStates]

LEMMA CandidateRowTyped ==
  ASSUME CandidateColumns, NEW k \in CandidateIds, NEW row \in CandidateRows,
         evidenceRow' = [evidenceRow EXCEPT ![k] = row]
  PROVE  evidenceRow' \in [CandidateIds -> CandidateRows]
BY DEF CandidateColumns, CandidatesTyped

LEMMA EvaluatorTyped ==
  ASSUME CandidateColumns, NEW w \in Evaluators, NEW e \in Evaluations,
         evaluator' = [evaluator EXCEPT ![w] = e]
  PROVE  evaluator' \in [Evaluators -> Evaluations]
BY DEF CandidateColumns, CandidatesTyped

LEMMA EvaluatorMoves ==
  ASSUME CandidateColumns, NEW w \in Evaluators,
         NEW pc \in {"claimed", "picked", "loaded", "read", "reserved", "written", "unassessed",
                     "done"},
         evaluator' = [evaluator EXCEPT ![w].pc = pc]
  PROVE  evaluator' \in [Evaluators -> Evaluations]
<1>1. [evaluator[w] EXCEPT !.pc = pc] \in Evaluations
  BY DEF CandidateColumns, CandidatesTyped, Evaluations
<1>2. evaluator' = [evaluator EXCEPT ![w] = [evaluator[w] EXCEPT !.pc = pc]]
  OBVIOUS
<1> QED BY <1>1, <1>2, EvaluatorTyped

LEMMA EvaluatorStops ==
  ASSUME CandidateColumns, NEW w \in Evaluators,
         evaluator' = [evaluator EXCEPT ![w] = NotEvaluating]
  PROVE  evaluator' \in [Evaluators -> Evaluations]
BY EvaluationTypes, EvaluatorTyped

\* What a Worker evaluates, and the row it evaluates it for.
LEMMA EvaluatedTypes ==
  ASSUME CandidateColumns, NEW w \in Evaluators
  PROVE  /\ evaluator[w] \in Evaluations /\ evaluator[w].candidate \in CandidateIds
         /\ evaluator[w].generation \in Generations /\ evaluator[w].operation \in Generations
         /\ evidenceRow[evaluator[w].candidate] \in CandidateRows
         /\ GenerationOf(evaluator[w].candidate) \in Generations
<1>1. evaluator[w] \in Evaluations /\ evaluator[w].candidate \in CandidateIds
  BY DEF CandidateColumns, CandidatesTyped, Evaluations
<1> QED BY <1>1, CandidateTypes DEF CandidateColumns, CandidatesTyped, Evaluations

LEMMA NewCandidates ==
  ASSUME NEW state \in {"absent", "waiting", "purged"}, NEW plain \in BOOLEAN,
         NEW S \in SUBSET Sources
  PROVE  [NoCandidate EXCEPT !.state = state, !.plain = plain, !.sources = S] \in CandidateRows
<1>1. 0 \in 0..Cardinality(Sources)
  BY SourceCounts
<1> QED BY <1>1 DEF NoCandidate, CandidateRows

LEMMA CandidateStepTyped ==
  ASSUME CandidateColumns, NEW k \in CandidateIds,
         \/ \E e \in Sources : MergeEvidence(k, e) \/ CreateCandidate(k, e)
         \/ CandidateAges(k) \/ ScheduleExpiration(k) \/ ExpireCandidate(k)
         \/ Reopen(k) \/ ResumeWaiter(k)
  PROVE  CandidateColumns'
<1>0. evidenceRow[k] \in CandidateRows
  BY DEF CandidateColumns, CandidatesTyped
<1>1. ASSUME NEW e \in Sources, MergeEvidence(k, e)
      PROVE  evidenceRow' \in [CandidateIds -> CandidateRows]
  <2> DEFINE row == [evidenceRow[k] EXCEPT
                       !.sources = evidenceRow[k].sources \cup {e}, !.evaluated = FALSE,
                       !.aged = FALSE,
                       !.obligation = IF evidenceRow[k].obligation = "pending" THEN "cancelled"
                                      ELSE evidenceRow[k].obligation]
  <2>1. row \in CandidateRows
    BY <1>0 DEF CandidateRows
  <2>2. evidenceRow' = [evidenceRow EXCEPT ![k] = row]
    BY <1>1, <1>0 DEF MergeEvidence, CandidateRows, CandidateColumns, CandidatesTyped
  <2> QED BY <2>1, <2>2, CandidateRowTyped
<1>2. ASSUME NEW e \in Sources, CreateCandidate(k, e)
      PROVE  evidenceRow' \in [CandidateIds -> CandidateRows]
  <2>1. PICK plain \in BOOLEAN :
          evidenceRow' = [evidenceRow EXCEPT ![k] =
            [NoCandidate EXCEPT !.state = "waiting", !.plain = plain, !.sources = {e}]]
    BY <1>2 DEF CreateCandidate
  <2>2. [NoCandidate EXCEPT !.state = "waiting", !.plain = plain, !.sources = {e}] \in CandidateRows
    BY NewCandidates
  <2> QED BY <2>1, <2>2, CandidateRowTyped
<1>3. ASSUME CandidateAges(k)
      PROVE  evidenceRow' \in [CandidateIds -> CandidateRows]
  <2>1. [evidenceRow[k] EXCEPT !.aged = TRUE] \in CandidateRows
    BY <1>0 DEF CandidateRows
  <2>2. evidenceRow' = [evidenceRow EXCEPT ![k] = [evidenceRow[k] EXCEPT !.aged = TRUE]]
    BY <1>3 DEF CandidateAges
  <2> QED BY <2>1, <2>2, CandidateRowTyped
<1>4. ASSUME ScheduleExpiration(k)
      PROVE  evidenceRow' \in [CandidateIds -> CandidateRows]
  <2>1. [evidenceRow[k] EXCEPT !.obligation = "pending"] \in CandidateRows
    BY <1>0 DEF CandidateRows
  <2>2. evidenceRow' = [evidenceRow EXCEPT ![k] = [evidenceRow[k] EXCEPT !.obligation = "pending"]]
    BY <1>4 DEF ScheduleExpiration
  <2> QED BY <2>1, <2>2, CandidateRowTyped
<1>5. ASSUME ExpireCandidate(k)
      PROVE  evidenceRow' \in [CandidateIds -> CandidateRows]
  <2> DEFINE row == [evidenceRow[k] EXCEPT !.state = "expired", !.obligation = "completed"]
  <2>1. row \in CandidateRows
    BY <1>0 DEF CandidateRows
  <2>2. evidenceRow' = [evidenceRow EXCEPT ![k] = row]
    BY <1>5 DEF ExpireCandidate
  <2> QED BY <2>1, <2>2, CandidateRowTyped
<1>6. ASSUME Reopen(k) \/ ResumeWaiter(k)
      PROVE  evidenceRow' \in [CandidateIds -> CandidateRows]
  <2>1. [evidenceRow[k] EXCEPT !.evaluated = FALSE] \in CandidateRows
    BY <1>0 DEF CandidateRows
  <2>2. evidenceRow' = [evidenceRow EXCEPT ![k] = [evidenceRow[k] EXCEPT !.evaluated = FALSE]]
    BY <1>6 DEF Reopen, ResumeWaiter
  <2> QED BY <2>1, <2>2, CandidateRowTyped
<1>7. UNCHANGED <<memory, operation, assessment, evaluator>>
  BY DEF MergeEvidence, CreateCandidate, CandidateAges, ScheduleExpiration, ExpireCandidate,
         Reopen, ResumeWaiter
<1> QED BY <1>1, <1>2, <1>3, <1>4, <1>5, <1>6, <1>7 DEF CandidateColumns, CandidatesTyped

LEMMA CandidateOtherTyped ==
  ASSUME CandidateColumns, NEW k \in CandidateIds,
         \/ PurgeTombstone(k) \/ ReviseMemory(k)
         \/ \E g \in EvidenceGenerations : RecoverOperation(k, g)
         \/ \E w \in Evaluators : \/ PickCandidate(w, k)
                                  \/ \E g \in EvidenceGenerations : ClaimAssessment(w, k, g)
  PROVE  CandidateColumns'
<1>1. CASE PurgeTombstone(k)
  <2>1. [NoCandidate EXCEPT !.state = "purged"] \in CandidateRows
    <3>1. 0 \in 0..Cardinality(Sources)
      BY SourceCounts
    <3> QED BY <3>1 DEF NoCandidate, CandidateRows
  <2>2. evidenceRow' \in [CandidateIds -> CandidateRows]
    BY <1>1, <2>1, CandidateRowTyped DEF PurgeTombstone
  <2>3. assessment' \in [CandidateIds \X EvidenceGenerations -> Answers \cup {"none"}]
    BY <1>1 DEF PurgeTombstone, CandidateColumns, CandidatesTyped
  <2> QED BY <1>1, <2>2, <2>3 DEF PurgeTombstone, CandidateColumns, CandidatesTyped
<1>2. CASE ReviseMemory(k)
  BY <1>2 DEF ReviseMemory, CandidateColumns, CandidatesTyped
<1>3. ASSUME NEW g \in EvidenceGenerations, RecoverOperation(k, g)
      PROVE  CandidateColumns'
  BY <1>3 DEF RecoverOperation, CandidateColumns, CandidatesTyped, OperationStates
<1>4. ASSUME NEW w \in Evaluators, PickCandidate(w, k)
      PROVE  CandidateColumns'
  <2>1. [NotEvaluating EXCEPT !.pc = "picked", !.candidate = k] \in Evaluations
    BY EvaluationTypes DEF Evaluations
  <2>2. evaluator' \in [Evaluators -> Evaluations]
    BY <1>4, <2>1, EvaluatorTyped DEF PickCandidate
  <2> QED BY <1>4, <2>2 DEF PickCandidate, CandidateColumns, CandidatesTyped
<1>5. ASSUME NEW w \in Evaluators, NEW g \in EvidenceGenerations, ClaimAssessment(w, k, g)
      PROVE  CandidateColumns'
  <2>1. g \in Generations
    BY SourceCounts DEF EvidenceGenerations, Generations
  <2>2. [NotEvaluating EXCEPT !.pc = "claimed", !.candidate = k, !.operation = g] \in Evaluations
    BY <2>1, EvaluationTypes DEF Evaluations
  <2>3. evaluator' \in [Evaluators -> Evaluations]
    BY <1>5, <2>2, EvaluatorTyped DEF ClaimAssessment
  <2> QED BY <1>5, <2>3 DEF ClaimAssessment, CandidateColumns, CandidatesTyped
<1> QED BY <1>1, <1>2, <1>3, <1>4, <1>5

LEMMA ReadingTyped ==
  ASSUME CandidateColumns, NEW w \in Evaluators,
         AssessCandidate(w) \/ LoadAssessment(w) \/ ReadCandidate(w)
  PROVE  CandidateColumns'
<1> DEFINE k == evaluator[w].candidate
           g == evaluator[w].operation
<1>0. k \in CandidateIds /\ evaluator[w] \in Evaluations /\ g \in Generations
  BY EvaluatedTypes
<1>1. CASE AssessCandidate(w)
  <2>1. \/ assessment' = assessment
        \/ \E answer \in Answers : assessment' = [assessment EXCEPT ![<<k, g>>] = answer]
    BY <1>1 DEF AssessCandidate
  <2>2. assessment' \in [CandidateIds \X EvidenceGenerations -> Answers \cup {"none"}]
    BY <2>1 DEF CandidateColumns, CandidatesTyped
  <2>3. evaluator' \in [Evaluators -> Evaluations]
    BY <1>1, EvaluatorMoves DEF AssessCandidate
  <2> QED BY <1>1, <2>2, <2>3 DEF AssessCandidate, CandidateColumns, CandidatesTyped
<1>2. CASE LoadAssessment(w)
  <2> DEFINE n == evidenceRow[k].waiter
             answer == CASE g # 0 -> assessment[<<k, g>>]
                         [] /\ g = 0 /\ n # 0 /\ n = GenerationOf(k)
                            /\ operation[<<k, n>>] = "completed"
                              -> assessment[<<k, n>>]
                         [] OTHER -> "none"
             e == [evaluator[w] EXCEPT !.pc = "loaded", !.answer = answer]
  <2>1. \A m \in Generations : m # 0 => assessment[<<k, m>>] \in Answers \cup {"none"}
    BY <1>0, SourceCounts DEF CandidateColumns, CandidatesTyped
  <2>2. n \in Generations
    BY <1>0 DEF CandidateColumns, CandidatesTyped, CandidateRows, Generations
  <2>3. answer \in Answers \cup {"none"}
    <3> HIDE DEF k, g, n
    <3> QED BY <1>0, <2>1, <2>2
  <2>4. evaluator' = [evaluator EXCEPT ![w] = e]
    BY <1>2 DEF LoadAssessment
  <2> HIDE DEF answer
  <2>5. e \in Evaluations
    BY <1>0, <2>3 DEF Evaluations
  <2> HIDE DEF e
  <2>6. evaluator' \in [Evaluators -> Evaluations]
    BY <2>4, <2>5, EvaluatorTyped
  <2> QED BY <1>2, <2>6 DEF LoadAssessment, CandidateColumns, CandidatesTyped
<1>3. CASE ReadCandidate(w)
  <2> DEFINE pc == IF evidenceRow[k].state = "promoted" THEN "done" ELSE "read"
             e == [evaluator[w] EXCEPT !.pc = pc, !.generation = GenerationOf(k)]
  <2>1. e \in Evaluations
    BY <1>0, EvaluatedTypes DEF Evaluations
  <2>2. evaluator' = [evaluator EXCEPT ![w] = e]
    BY <1>3 DEF ReadCandidate
  <2> HIDE DEF e
  <2>3. evaluator' \in [Evaluators -> Evaluations]
    BY <2>1, <2>2, EvaluatorTyped
  <2> QED BY <1>3, <2>3 DEF ReadCandidate, CandidateColumns, CandidatesTyped
<1> QED BY <1>1, <1>2, <1>3

LEMMA JudgeTyped ==
  ASSUME CandidateColumns, NEW w \in Evaluators, NEW state \in {"waiting", "rejected"},
         NEW evaluated \in BOOLEAN, NEW next \in {"done", "unassessed"},
         Judge(w, state, evaluated, next)
  PROVE  CandidateColumns'
<1> DEFINE k == evaluator[w].candidate
           seen == evidenceRow[k].evaluated \/ evaluated
           row == [evidenceRow[k] EXCEPT !.state = state, !.waiter = 0, !.evaluated = seen]
<1>1. k \in CandidateIds /\ evidenceRow[k] \in CandidateRows /\ 0 \in 0..Cardinality(Sources)
  BY EvaluatedTypes, SourceCounts
<1>2. seen \in BOOLEAN
  OBVIOUS
<1>3. row \in CandidateRows
  <2> HIDE DEF seen, k
  <2> QED BY <1>1, <1>2 DEF CandidateRows
<1>4. evidenceRow' = [evidenceRow EXCEPT ![k] = row]
  BY <1>1 DEF Judge, CandidateColumns, CandidatesTyped, CandidateRows
<1> HIDE DEF row, k
<1>5. evidenceRow' \in [CandidateIds -> CandidateRows]
  BY <1>1, <1>3, <1>4, CandidateRowTyped
<1>6. evaluator' \in [Evaluators -> Evaluations]
  BY EvaluatorMoves DEF Judge
<1> QED BY <1>5, <1>6 DEF Judge, CandidateColumns, CandidatesTyped

LEMMA JudgingTyped ==
  ASSUME CandidateColumns, NEW w \in Evaluators,
         RejectCandidate(w) \/ RequireAssessment(w) \/ HoldCandidate(w)
  PROVE  CandidateColumns'
<1>1. (evaluator[w].answer # "none") \in BOOLEAN
  OBVIOUS
<1>2. (IF evaluator[w].operation = 0 THEN "unassessed" ELSE "done") \in {"done", "unassessed"}
  OBVIOUS
<1>3. CASE RejectCandidate(w)
  BY <1>3, JudgeTyped DEF RejectCandidate
<1>4. CASE RequireAssessment(w)
  BY <1>1, <1>2, <1>4, JudgeTyped DEF RequireAssessment
<1>5. CASE HoldCandidate(w)
  BY <1>5, JudgeTyped DEF HoldCandidate
<1> QED BY <1>3, <1>4, <1>5

LEMMA PromotingTyped ==
  ASSUME CandidateColumns, NEW w \in Evaluators,
         ReserveCandidate(w) \/ WriteMemory(w) \/ CapacityRefuses(w) \/ PromoteCandidate(w)
  PROVE  CandidateColumns'
<1> DEFINE k == evaluator[w].candidate
           g == evaluator[w].generation
<1>0. /\ k \in CandidateIds /\ evidenceRow[k] \in CandidateRows /\ g \in 0..Cardinality(Sources)
      /\ 0 \in 0..Cardinality(Sources)
  BY EvaluatedTypes, SourceCounts DEF Generations
<1>1. evaluator' \in [Evaluators -> Evaluations]
  BY EvaluatorMoves DEF ReserveCandidate, WriteMemory, CapacityRefuses, PromoteCandidate
<1>2. CASE ReserveCandidate(w)
  <2>1. [evidenceRow[k] EXCEPT !.reserved = g] \in CandidateRows
    BY <1>0 DEF CandidateRows
  <2>2. evidenceRow' = [evidenceRow EXCEPT ![k] = [evidenceRow[k] EXCEPT !.reserved = g]]
    BY <1>2 DEF ReserveCandidate
  <2>3. evidenceRow' \in [CandidateIds -> CandidateRows]
    BY <1>0, <2>1, <2>2, CandidateRowTyped
  <2> QED BY <1>1, <1>2, <2>3 DEF ReserveCandidate, CandidateColumns, CandidatesTyped
<1>3. CASE WriteMemory(w)
  <2>1. memory' \in [CandidateIds -> [from: Generations, revised: BOOLEAN]]
    BY <1>0, <1>3 DEF WriteMemory, CandidateColumns, CandidatesTyped, Generations
  <2> QED BY <1>1, <1>3, <2>1 DEF WriteMemory, CandidateColumns, CandidatesTyped
<1>4. CASE CapacityRefuses(w)
  <2> DEFINE row == IF evidenceRow[k].reserved = g /\ GenerationOf(k) = g
                    THEN [evidenceRow[k] EXCEPT !.reserved = 0, !.evaluated = TRUE, !.waiter = g]
                    ELSE [evidenceRow[k] EXCEPT !.waiter = g]
  <2>1. row \in CandidateRows
    BY <1>0 DEF CandidateRows
  <2>2. evidenceRow' = [evidenceRow EXCEPT ![k] = row]
    BY <1>4 DEF CapacityRefuses
  <2> HIDE DEF row, k, g
  <2>3. evidenceRow' \in [CandidateIds -> CandidateRows]
    BY <1>0, <2>1, <2>2, CandidateRowTyped
  <2> QED BY <1>1, <1>4, <2>3 DEF CapacityRefuses, CandidateColumns, CandidatesTyped
<1>5. CASE PromoteCandidate(w)
  <2> DEFINE row == [evidenceRow[k] EXCEPT !.state = "promoted", !.reserved = 0,
                                           !.evaluated = TRUE, !.waiter = 0]
  <2>1. row \in CandidateRows
    BY <1>0 DEF CandidateRows
  <2>2. evidenceRow' = [evidenceRow EXCEPT ![k] = row]
    BY <1>5 DEF PromoteCandidate
  <2>3. evidenceRow' \in [CandidateIds -> CandidateRows]
    BY <1>0, <2>1, <2>2, CandidateRowTyped
  <2> QED BY <1>1, <1>5, <2>3 DEF PromoteCandidate, CandidateColumns, CandidatesTyped
<1> QED BY <1>2, <1>3, <1>4, <1>5

LEMMA EndingTyped ==
  ASSUME CandidateColumns, NEW w \in Evaluators,
         EnqueueAssessment(w) \/ FinishEvaluation(w) \/ EvaluationFails(w)
  PROVE  CandidateColumns'
<1> DEFINE k == evaluator[w].candidate
           g == evaluator[w].operation
<1>1. evaluator' \in [Evaluators -> Evaluations]
  BY EvaluatorStops DEF EnqueueAssessment, FinishEvaluation, EvaluationFails
<1>2. CASE EnqueueAssessment(w)
  <2> DEFINE key == <<k, GenerationOf(k)>>
             state == IF operation[key] = "absent" THEN "open" ELSE operation[key]
  <2>1. operation' = [operation EXCEPT ![key] = state]
    BY <1>2 DEF EnqueueAssessment
  <2>2. key \in CandidateIds \X EvidenceGenerations => state \in OperationStates
    BY DEF CandidateColumns, OperationStates
  <2> HIDE DEF key, state
  <2>3. operation' \in [CandidateIds \X EvidenceGenerations -> OperationStates]
    BY <2>1, <2>2 DEF CandidateColumns
  <2> QED BY <1>1, <1>2, <2>3 DEF EnqueueAssessment, CandidateColumns, CandidatesTyped
<1>3. CASE FinishEvaluation(w)
  <2>1. operation' = operation \/ operation' = [operation EXCEPT ![<<k, g>>] = "completed"]
    BY <1>3 DEF FinishEvaluation
  <2>2. operation' \in [CandidateIds \X EvidenceGenerations -> OperationStates]
    BY <2>1 DEF CandidateColumns, OperationStates
  <2> QED BY <1>1, <1>3, <2>2 DEF FinishEvaluation, CandidateColumns, CandidatesTyped
<1>4. CASE EvaluationFails(w)
  <2>1. operation' = operation \/ operation' = [operation EXCEPT ![<<k, g>>] = "blocked"]
    BY <1>4 DEF EvaluationFails
  <2>2. operation' \in [CandidateIds \X EvidenceGenerations -> OperationStates]
    BY <2>1 DEF CandidateColumns, OperationStates
  <2> QED BY <1>1, <1>4, <2>2 DEF EvaluationFails, CandidateColumns, CandidatesTyped
<1> QED BY <1>2, <1>3, <1>4

\* The rows of the candidates, their operations and answers and every evaluation keep their
\* types, with Workers that overlap too, under which the other invariant does not hold.
THEOREM CandidatesTypedAlways == CandidatesSpec => []CandidatesTypeOK
<1>1. CandidatesInit => CandidateColumns
  <2>1. NoCandidate \in CandidateRows /\ 0 \in Generations
    BY SourceCounts DEF NoCandidate, CandidateRows, Generations
  <2> QED BY <2>1, EvaluationTypes
          DEF CandidatesInit, CandidateColumns, CandidatesTyped, OperationStates, NotCreated
<1>2. CandidateColumns /\ [CandidatesNext]_candidateVars => CandidateColumns'
  <2> SUFFICES ASSUME CandidateColumns, [CandidatesNext]_candidateVars PROVE CandidateColumns'
    OBVIOUS
  <2>1. CASE UNCHANGED candidateVars
    BY <2>1 DEF candidateVars, CandidateColumns, CandidatesTyped
  <2> QED BY <2>1, CandidateStepTyped, CandidateOtherTyped, ReadingTyped, JudgingTyped,
             PromotingTyped, EndingTyped DEF CandidatesNext
<1>3. CandidateColumns => CandidatesTypeOK
  BY DEF CandidateColumns, CandidatesTyped, CandidatesTypeOK, Generations, Evaluations,
         OperationStates
<1> QED BY <1>1, <1>2, <1>3, PTL DEF CandidatesSpec

-----------------------------------------------------------------------------
(***************************************************************************)
(* Maintenance works on a window that has come, and no anomaly counts more   *)
(* windows than there were up to the last it was found in.                   *)
(***************************************************************************)
WindowsReached ==
  /\ MaintenanceTypeOK
  /\ maintenance.window \in 0..windows
  /\ maintenance.evaluated => maintenance.window # 0
  /\ \A k \in AnomalyKeys : anomaly[k].count <= anomaly[k].last

LEMMA EvaluatedWithin ==
  ASSUME NEW n \in Nat, NEW w \in 1..n, NEW found \in BOOLEAN,
         NEW a \in [state: {"absent", "provisional", "persistent", "resolved"},
                    last: 0..n, count: 0..n],
         a.count <= a.last
  PROVE  /\ Evaluated(a, w, found) \in [state: {"absent", "provisional", "persistent", "resolved"},
                                        last: 0..n, count: 0..n]
         /\ Evaluated(a, w, found).count <= Evaluated(a, w, found).last
<1>1. CASE found
  <2>1. CountAfter(a, w) \in 0..w
    <3>1. CASE a.state # "absent" /\ a.last = w
      BY <3>1 DEF CountAfter
    <3>2. CASE ~ (a.state # "absent" /\ a.last = w)
               /\ a.state \in {"provisional", "persistent"} /\ a.last = w - 1
      <4>1. CountAfter(a, w) = a.count + 1
        BY <3>2 DEF CountAfter
      <4> QED BY <3>2, <4>1
    <3>3. CASE ~ (a.state # "absent" /\ a.last = w)
               /\ ~ (a.state \in {"provisional", "persistent"} /\ a.last = w - 1)
      <4>1. CountAfter(a, w) = 1
        BY <3>3 DEF CountAfter
      <4> QED BY <4>1
    <3> QED BY <3>1, <3>2, <3>3
  <2> DEFINE c == CountAfter(a, w)
  <2>2. Evaluated(a, w, found) = [state |-> IF c >= 2 THEN "persistent" ELSE "provisional",
                                  last |-> w, count |-> c]
    BY <1>1 DEF Evaluated
  <2> HIDE DEF c
  <2> QED BY <2>1, <2>2 DEF c
<1>2. CASE ~ found
  <2>1. \/ Evaluated(a, w, found) = a
        \/ Evaluated(a, w, found) = [a EXCEPT !.state = "resolved"]
    BY <1>2 DEF Evaluated
  <2> QED BY <2>1
<1> QED BY <1>1, <1>2

LEMMA WindowsReachedStep ==
  ASSUME WindowsReached, [MaintenanceNext]_maintenanceVars
  PROVE  WindowsReached'
<1> DEFINE Row(n) == [state: {"absent", "provisional", "persistent", "resolved"},
                      last: 0..n, count: 0..n]
<1>0. /\ LastWindow \in Nat /\ windows \in 0..LastWindow /\ windows \in Nat
      /\ maintained \subseteq 1..windows
      /\ maintenance \in [window: 0..LastWindow, evaluated: BOOLEAN]
      /\ maintenance.window \in 0..windows
      /\ maintenance.evaluated => maintenance.window # 0
      /\ anomaly \in [AnomalyKeys -> Row(windows)]
      /\ anomalous \in [AnomalyKeys -> SUBSET (1..LastWindow)]
      /\ \A k \in AnomalyKeys : anomaly[k].count <= anomaly[k].last
  BY MaintenanceAssumption DEF WindowsReached, MaintenanceTypeOK
<1>1. CASE CompleteWeekly
  <2>1. windows' = windows + 1 /\ windows' \in 0..LastWindow
        /\ UNCHANGED <<maintained, maintenance, anomaly, anomalous>>
    BY <1>0, <1>1 DEF CompleteWeekly
  <2>2. 0..windows \subseteq 0..(windows + 1) /\ 1..windows \subseteq 1..(windows + 1)
    BY <1>0
  <2>3. maintained' \subseteq 1..windows' /\ maintenance'.window \in 0..windows'
    BY <1>0, <2>1, <2>2
  <2>4. anomaly' \in [AnomalyKeys -> Row(windows')]
    <3>1. Row(windows) \subseteq Row(windows + 1)
      BY <2>2
    <3> HIDE DEF Row
    <3> QED BY <1>0, <2>1, <3>1
  <2> QED BY <1>0, <2>1, <2>3, <2>4 DEF WindowsReached, MaintenanceTypeOK
<1>2. CASE BeginMaintenance
  <2>1. PICK w \in (1..windows) \ maintained : maintenance' = [window |-> w, evaluated |-> FALSE]
    BY <1>2 DEF BeginMaintenance
  <2>2. w \in 0..windows /\ w \in 0..LastWindow
    BY <1>0
  <2>3. /\ maintenance' \in [window: 0..LastWindow, evaluated: BOOLEAN]
        /\ maintenance'.window \in 0..windows /\ ~ maintenance'.evaluated
    BY <2>1, <2>2
  <2>4. UNCHANGED <<windows, maintained, anomaly, anomalous>>
    BY <1>2 DEF BeginMaintenance
  <2> QED BY <1>0, <2>3, <2>4 DEF WindowsReached, MaintenanceTypeOK
<1>3. CASE EvaluateAnomalies
  <2> DEFINE w == maintenance.window
  <2>1. w \in 1..windows /\ w \in 1..LastWindow
    BY <1>0, <1>3 DEF EvaluateAnomalies
  <2>2. PICK found \in SUBSET AnomalyKeys :
          /\ anomaly' = [k \in AnomalyKeys |-> Evaluated(anomaly[k], w, k \in found)]
          /\ anomalous' = [k \in AnomalyKeys |->
                 IF k \in found THEN anomalous[k] \cup {w} ELSE anomalous[k]]
    BY <1>3 DEF EvaluateAnomalies
  <2>3. /\ maintenance' = [maintenance EXCEPT !.evaluated = TRUE]
        /\ UNCHANGED <<windows, maintained>> /\ maintenance.window # 0
    BY <1>3 DEF EvaluateAnomalies
  <2>4. ASSUME NEW k \in AnomalyKeys
        PROVE  /\ Evaluated(anomaly[k], w, k \in found) \in Row(windows)
               /\ Evaluated(anomaly[k], w, k \in found).count
                    <= Evaluated(anomaly[k], w, k \in found).last
    <3>1. (k \in found) \in BOOLEAN
      OBVIOUS
    <3>2. anomaly[k] \in Row(windows) /\ anomaly[k].count <= anomaly[k].last
      BY <1>0
    <3> HIDE DEF w
    <3> QED BY <1>0, <2>1, <3>1, <3>2, EvaluatedWithin
  <2>5. /\ maintenance' \in [window: 0..LastWindow, evaluated: BOOLEAN]
        /\ maintenance'.window = maintenance.window
    BY <1>0, <2>3
  <2> HIDE DEF Row, w
  <2>6. /\ anomaly' \in [AnomalyKeys -> Row(windows)]
        /\ \A k \in AnomalyKeys : anomaly'[k].count <= anomaly'[k].last
    BY <2>2, <2>4
  <2>7. anomalous' \in [AnomalyKeys -> SUBSET (1..LastWindow)]
    BY <1>0, <2>1, <2>2
  <2> QED BY <1>0, <2>3, <2>5, <2>6, <2>7 DEF WindowsReached, MaintenanceTypeOK, Row
<1>4. CASE RecordMaintenance
  <2>1. /\ maintained' = maintained \cup {maintenance.window}
        /\ maintenance' = [window |-> 0, evaluated |-> FALSE]
        /\ UNCHANGED <<windows, anomaly, anomalous>> /\ maintenance.evaluated
    BY <1>4 DEF RecordMaintenance
  <2>2. maintained' \subseteq 1..windows
    <3>1. maintenance.window \in 1..windows
      BY <1>0, <2>1
    <3> QED BY <1>0, <2>1, <3>1
  <2>3. /\ maintenance' \in [window: 0..LastWindow, evaluated: BOOLEAN]
        /\ maintenance'.window \in 0..windows /\ ~ maintenance'.evaluated
    BY <1>0, <2>1
  <2> QED BY <1>0, <2>1, <2>2, <2>3 DEF WindowsReached, MaintenanceTypeOK
<1>5. CASE MaintenanceDies
  <2>1. /\ maintenance' = [window |-> 0, evaluated |-> FALSE]
        /\ UNCHANGED <<windows, maintained, anomaly, anomalous>>
    BY <1>5 DEF MaintenanceDies
  <2>2. /\ maintenance' \in [window: 0..LastWindow, evaluated: BOOLEAN]
        /\ maintenance'.window \in 0..windows /\ ~ maintenance'.evaluated
    BY <1>0, <2>1
  <2> QED BY <1>0, <2>1, <2>2 DEF WindowsReached, MaintenanceTypeOK
<1>6. CASE UNCHANGED maintenanceVars
  BY <1>6 DEF maintenanceVars, WindowsReached, MaintenanceTypeOK
<1> QED BY <1>1, <1>2, <1>3, <1>4, <1>5, <1>6 DEF MaintenanceNext

\* No anomaly is found in a window that has not come, or counted more often than windows
\* have, although a window is evaluated again whenever the Worker dies.
THEOREM MaintenanceTyped == MaintenanceSpec => []MaintenanceTypeOK
<1>1. MaintenanceInit => WindowsReached
  BY MaintenanceAssumption DEF MaintenanceInit, WindowsReached, MaintenanceTypeOK, NotSeen
<1>2. WindowsReached /\ [MaintenanceNext]_maintenanceVars => WindowsReached'
  BY WindowsReachedStep
<1>3. WindowsReached => MaintenanceTypeOK
  BY DEF WindowsReached
<1> QED BY <1>1, <1>2, <1>3, PTL DEF MaintenanceSpec

-----------------------------------------------------------------------------
(***************************************************************************)
(* The Capture Inbox beside what InboxInv says: the Worker imports one file  *)
(* at a time, and a lock is robbed at most as often as the bound allows.     *)
(***************************************************************************)
OneImport == importing = {} \/ \E f \in Files : importing = {f}

InboxRest ==
  /\ robbed \in 0..Cardinality(Hooks)
  /\ bad \subseteq Events /\ outbox \subseteq Events /\ observed \subseteq Events
  /\ OneImport /\ incident \in BOOLEAN

LEMMA RobbedWithin ==
  ASSUME robbed \in 0..Cardinality(Hooks), robbed < Cardinality(Hooks), NEW h, RemoveLock(h)
  PROVE  robbed' \in 0..Cardinality(Hooks)
<1>1. Cardinality(Hooks) \in Nat
  BY InboxConstants, FS_CardinalityType
<1> QED BY <1>1 DEF RemoveLock

LEMMA HookRest ==
  ASSUME InboxRest, NEW h \in Hooks,
         \/ BeginCapture(h) \/ TakeLock(h) \/ FindStaleLock(h) \/ StealLock(h) \/ LockTimeout(h)
         \/ Count(h) \/ WriteFile(h) \/ LeaveLock(h) \/ HookDies(h)
  PROVE  InboxRest'
<1>1. UNCHANGED <<bad, outbox, observed, importing>>
  BY DEF BeginCapture, TakeLock, FindStaleLock, StealLock, LockTimeout, Count, WriteFile,
         LeaveLock, HookDies
<1>2. robbed' \in 0..Cardinality(Hooks)
  <2>1. CASE StealLock(h) \/ LeaveLock(h)
    BY <2>1, RobbedWithin DEF InboxRest, StealLock, LeaveLock
  <2>2. CASE UNCHANGED robbed
    BY <2>2 DEF InboxRest
  <2> QED BY <2>1, <2>2 DEF BeginCapture, TakeLock, FindStaleLock, LockTimeout, Count,
          WriteFile, HookDies
<1>3. incident' \in BOOLEAN
  <2>1. CASE UNCHANGED incident
    BY <2>1 DEF InboxRest
  <2>2. CASE incident' \in {TRUE, incident}
    BY <2>2 DEF InboxRest
  <2>3. CASE incident' \in {~hook[h].kept, incident}
    BY <2>3 DEF InboxRest
  <2> QED BY <2>1, <2>2, <2>3 DEF BeginCapture, TakeLock, FindStaleLock, StealLock, LockTimeout,
          Count, WriteFile, LeaveLock, HookDies
<1> QED BY <1>1, <1>2, <1>3 DEF InboxRest, OneImport

LEMMA ImportRest ==
  ASSUME InboxRest, NEW f \in Files,
         ImportEvent(f) \/ ImportNote(f) \/ Unlink(f) \/ QuarantineFile(f)
  PROVE  InboxRest'
<1>1. f.event \in Events
  BY DEF Files
<1>2. UNCHANGED <<robbed, incident>>
  BY DEF ImportEvent, ImportNote, Unlink, QuarantineFile
<1>3. importing' = {} \/ importing' = {f}
  BY DEF ImportEvent, ImportNote, Unlink, QuarantineFile, RemoveFile
<1>4. bad' \subseteq Events /\ outbox' \subseteq Events /\ observed' \subseteq Events
  BY <1>1 DEF InboxRest, ImportEvent, ImportNote, Unlink, QuarantineFile
<1> QED BY <1>2, <1>3, <1>4 DEF InboxRest, OneImport

\* Hooks, lock, files and the Worker's import keep their types: one file is imported at a
\* time, whatever hooks and Worker die.
THEOREM InboxTypedAlways == InboxSpec => []InboxTypeOK
<1>1. InboxInit => InboxRest
  <2>1. Cardinality(Hooks) \in Nat
    BY InboxConstants, FS_CardinalityType
  <2>2. 0 \in 0..Cardinality(Hooks)
    BY <2>1
  <2> QED BY <2>2 DEF InboxInit, InboxRest, OneImport
<1>2. InboxRest /\ [InboxNext]_inboxVars => InboxRest'
  <2> SUFFICES ASSUME InboxRest, [InboxNext]_inboxVars PROVE InboxRest'
    OBVIOUS
  <2>1. CASE UNCHANGED inboxVars
    BY <2>1 DEF inboxVars, InboxRest, OneImport
  <2>2. CASE LockAges \/ ImporterDies
    BY <2>2 DEF LockAges, ImporterDies, InboxRest, OneImport
  <2> QED BY <2>1, <2>2, HookRest, ImportRest DEF InboxNext
<1>3. InboxInv /\ InboxRest => InboxTypeOK
  <2> SUFFICES ASSUME InboxInv, InboxRest PROVE InboxTypeOK
    OBVIOUS
  <2>1. importing \subseteq Files /\ Cardinality(importing) <= 1
    BY FS_EmptySet, FS_Singleton DEF InboxRest, OneImport
  <2> QED BY <2>1 DEF InboxInv, InboxTyped, HookRows, HookStates, InboxRest, InboxTypeOK
<1>4. InboxSpec => []InboxRest
  BY <1>1, <1>2, PTL DEF InboxSpec
<1> QED BY <1>3, <1>4, InboxInvariant, PTL

-----------------------------------------------------------------------------
(***************************************************************************)
(* The components of MCIntake share no state: each behaviour of all is, seen *)
(* through the variables of one, a behaviour of that one.                    *)
(***************************************************************************)
LEMMA IntakeParts ==
  AllSpec => /\ InboxSpec /\ OutboxSpec /\ CandidatesSpec
             /\ MaintenanceSpec /\ CorpusSpec /\ WorkingSetSpec
<1>1. AllInit => /\ InboxInit /\ OutboxInit /\ CandidatesInit
                 /\ MaintenanceInit /\ CorpusInit /\ WorkingSetInit
  BY DEF AllInit
<1>2. [AllNext]_allVars =>
        /\ [InboxNext]_inboxVars /\ [OutboxNext]_outboxVars /\ [CandidatesNext]_candidateVars
        /\ [MaintenanceNext]_maintenanceVars /\ [CorpusNext]_corpusVars
        /\ [WorkingSetNext]_workingSetVars
  BY DEF AllNext, allVars
<1> QED BY <1>1, <1>2, PTL DEF AllSpec, InboxSpec, OutboxSpec, CandidatesSpec, MaintenanceSpec,
           CorpusSpec, WorkingSetSpec

\* What enters the store, and what makes room in it, keeps its type, whichever component
\* a behaviour of the suite is of: hooks that die, claims that run out, evaluations that
\* overlap, windows, plans and passes.
THEOREM IntakeTyped == AllSpec => []IntakeTypeOK
<1>1. OutboxInv => OutboxTypeOK
  BY DEF OutboxInv
<1>2. CorpusInv => CorpusTypeOK
  BY DEF CorpusInv
<1>3. WorkingSetInv => WorkingSetTypeOK
  BY DEF WorkingSetInv
<1>4. /\ AllInit => part \in Components
      /\ part \in Components /\ [AllNext]_allVars => (part \in Components)'
  BY DEF AllInit, AllNext, allVars, Of, Components
<1>5. AllSpec => [](part \in Components)
  BY <1>4, PTL DEF AllSpec
<1>6. /\ part \in Components /\ InboxTypeOK /\ OutboxTypeOK /\ CandidatesTypeOK
      /\ MaintenanceTypeOK /\ CorpusTypeOK /\ WorkingSetTypeOK
      => IntakeTypeOK
  BY DEF IntakeTypeOK
<1> QED BY <1>1, <1>2, <1>3, <1>5, <1>6, IntakeParts, InboxTypedAlways, OutboxInvariant,
           CandidatesTypedAlways, MaintenanceTyped, CorpusInvariant, WorkingSetInvariant, PTL
=============================================================================
