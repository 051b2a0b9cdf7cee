-------------------------- MODULE DistillationProofs --------------------------
(***************************************************************************)
(* Theorems about Distillation for any number of Workers, events, crashes,   *)
(* database errors, splits, leases that run out and retries.                *)
(***************************************************************************)
EXTENDS Distillation, FiniteSetTheorems, WellFoundedInduction, TLAPS

(***************************************************************************)
(* The types of the tables and of what a Worker remembers.                  *)
(***************************************************************************)
EventRow == [kind: {"absent", "content", "end"}, turn: Turn, done: BOOLEAN, batch: Batch \cup {0}]
BatchRow == [state: BatchState, split: BOOLEAN, version: Nat]
OpState == Live \cup {"absent", "completed", "dead_letter"}
OpRow == [state: OpState, by: Worker \cup {NoWorker}, due: BOOLEAN, tries: 0..FastRetries + 1,
          local: BOOLEAN]
RangeRow == [gen: Nat, from: Batch \cup {0}, through: Batch \cup {0}]
ConsRow == [op: Ranges \cup {0}, state: BatchState,
            result: [kind: {"null", "checkpoint", "final"}, input: SUBSET (Batch \X Nat)]]
CursorRow == [gen: Nat, through: Batch \cup {0}]
SpentRow == [crashes: Nat, faults: Nat, splits: Nat, overruns: Nat, help: Nat]
WorkerRow == [at: Place, op: Op \cup {0}, try: BOOLEAN, selected: SUBSET Event,
              input: SUBSET (Batch \X Nat), category: {"none", "local", "model", "schema_invalid"},
              failed: {"none", "retrying", "blocked"}]

Tables ==
  /\ event \in [Event -> EventRow] /\ batch \in [Batch -> BatchRow] /\ op \in [Op -> OpRow]
  /\ range \in [Ranges -> RangeRow] /\ cons \in ConsRow /\ cursor \in CursorRow
  /\ ingested \subseteq Batch /\ spent \in SpentRow

(***************************************************************************)
(* Batches are numbered from one; each that was not given up has an event,   *)
(* and every event in a Batch is in one of those; as many were given up as   *)
(* were split.                                                              *)
(***************************************************************************)
Made == {b \in Batch : batch[b].state # "absent"}
SplitUp == {b \in Batch : batch[b].split}

Numbered == Made = 1..Cardinality(Made)

Filled ==
  /\ \A e \in Event : event[e].batch # 0 => event[e].batch \in Batches
  /\ \A b \in Batches : EventsOf(b) # {}
  /\ SplitUp \subseteq Made
  /\ Cardinality(SplitUp) <= spent.splits /\ spent.splits <= MaxSplits

(***************************************************************************)
(* A Batch has an operation from the beginning; only that of a split Batch   *)
(* is given up; and a row names a Worker exactly while it is leased.        *)
(***************************************************************************)
OpsAgree ==
  /\ \A b \in Batch : op[b].state = "absent" <=> batch[b].state = "absent"
  /\ \A o \in Op : op[o].state = "dead_letter" => o \in Batch /\ batch[o].split
  /\ \A o \in Op : op[o].by # NoWorker <=> op[o].state = "processing"

(***************************************************************************)
(* What a Worker holds at each place of its program.                        *)
(***************************************************************************)
BatchPlaces == {"distill", "persist", "finalize", "queueBatch", "ingest", "cursor", "split"}
RangePlaces == {"load", "consolidate", "checkpoint", "pages", "finish"}

AtPlace(m) ==
  /\ m.op # 0 => op[m.op].state # "absent"
  /\ m.at \in BatchPlaces => m.op \in Batch
  /\ m.at \in RangePlaces => m.op \in Ranges
  /\ m.at \in {"bind", "mark", "complete", "mirror"} => m.op # 0
  /\ m.at = "mirror" => m.failed # "none"
  /\ m.at = "assign" => m.selected # {}

InPlace == worker \in [Worker -> WorkerRow] /\ \A w \in Worker : AtPlace(worker[w])

StoreInv == Tables /\ Numbered /\ Filled /\ OpsAgree
Inv == StoreInv /\ InPlace

-----------------------------------------------------------------------------
(***************************************************************************)
(* Numbers                                                                  *)
(***************************************************************************)
LEMMA Constants ==
  /\ MaxEvents \in Nat /\ MaxSplits \in Nat /\ FastRetries \in Nat
  /\ NoWorker \notin Worker /\ Turn # {}
  /\ 0 \notin Batch /\ 0 \notin Ranges /\ 0 \notin Op /\ Batch \cap Ranges = {}
  /\ Batch \subseteq Nat /\ Ranges \subseteq Nat /\ Event \subseteq Nat \ {0}
  /\ IsFiniteSet(Event) /\ IsFiniteSet(Batch)
  /\ Cardinality(Event) = MaxEvents
<1>1. MaxEvents \in Nat /\ MaxSplits \in Nat /\ FastRetries \in Nat
  BY DistillationAssumption
<1>2. IsFiniteSet(Event) /\ IsFiniteSet(Batch) /\ Cardinality(Event) = MaxEvents
  BY <1>1, FS_Interval DEF Event, Batch
<1> QED BY <1>1, <1>2, DistillationAssumption DEF Batch, Ranges, Op, Event

LEMMA LeastNumber ==
  ASSUME NEW S, S \subseteq Nat, S # {}
  PROVE  Min(S) \in S /\ \A y \in S : Min(S) <= y
<1>1. PICK x \in S : \A y \in S : ~ (<<y, x>> \in {p \in Nat \X Nat : p[1] < p[2]})
  <2>1. \E x \in S : \A y \in S : ~ (<<y, x>> \in OpToRel(<, Nat))
    BY WFMin, NatLessThanWellFounded
  <2> QED BY <2>1, Zenon DEF OpToRel
<1>2. ASSUME NEW y \in S PROVE x <= y
  <2>1. x \in Nat /\ y \in Nat
    OBVIOUS
  <2>2. <<y, x>> \in Nat \X Nat /\ <<y, x>>[1] = y /\ <<y, x>>[2] = x
    BY <2>1
  <2>3. ~ (y < x)
    BY <1>1, <2>2, Zenon
  <2> QED BY <2>1, <2>3
<1> QED BY <1>2 DEF Min

LEMMA GreatestNumber ==
  ASSUME NEW S, NEW n \in Nat, S \subseteq 0..n, S # {}
  PROVE  Max(S) \in S /\ \A y \in S : y <= Max(S)
<1> DEFINE T == {k \in 0..n : n - k \in S}
<1>1. T \subseteq Nat /\ T # {}
  <2>1. PICK x \in S : x \in 0..n
    OBVIOUS
  <2>2. n - x \in 0..n /\ n - (n - x) \in S
    BY <2>1
  <2>3. T # {}
    BY <2>2, Zenon
  <2>4. T \subseteq Nat
    OBVIOUS
  <2> QED BY <2>3, <2>4
<1>2. Min(T) \in T /\ \A k \in T : Min(T) <= k
  BY <1>1, LeastNumber
<1>3. PICK x \in S : x = n - Min(T)
  BY <1>2
<1>4. ASSUME NEW y \in S PROVE y <= x
  <2>1. y \in 0..n /\ n - y \in 0..n /\ n - (n - y) = y
    OBVIOUS
  <2>2. n - y \in T
    BY <2>1
  <2>3. Min(T) <= n - y /\ Min(T) \in 0..n
    BY <1>2, <2>2
  <2> QED BY <1>3, <2>1, <2>3
<1>5. \E z \in S : \A y \in S : z >= y
  <2>1. \A y \in S : x >= y
    BY <1>4
  <2> QED BY <2>1
<1>6. Max(S) \in S /\ \A y \in S : Max(S) >= y
  BY <1>5 DEF Max
<1> QED BY <1>6

(***************************************************************************)
(* The next Batch is a new one, and there is room for it in the model: every *)
(* Batch that was not split has an event of its own.                        *)
(***************************************************************************)
LEMMA NextIsNew ==
  ASSUME StoreInv
  PROVE  /\ NextBatch \in Nat \ {0} /\ Made = 1..(NextBatch - 1)
         /\ NextBatch = Cardinality(Made) + 1
<1>1. IsFiniteSet(Made)
  BY Constants, FS_Subset DEF Made
<1>2. Cardinality(Made) \in Nat
  BY <1>1, FS_CardinalityType
<1>3. NextBatch = Cardinality(Made) + 1
  BY DEF NextBatch, Made
<1>4. Made = 1..Cardinality(Made)
  BY DEF StoreInv, Numbered
<1>5. Cardinality(Made) = NextBatch - 1
  BY <1>2, <1>3
<1> QED BY <1>2, <1>3, <1>4, <1>5

LEMMA RoomForBatches ==
  ASSUME StoreInv, NEW e \in Event,
         \A b \in Batches : \E d \in EventsOf(b) : d # e
  PROVE  NextBatch <= MaxEvents + Cardinality(SplitUp) /\ Cardinality(SplitUp) \in Nat
<1> DEFINE D == {d \in Event \ {e} : event[d].batch # 0}
           f == [d \in D |-> event[d].batch]
<1>1. IsFiniteSet(Event \ {e}) /\ Cardinality(Event \ {e}) = MaxEvents - 1
  BY Constants, FS_RemoveElement
<1>2. IsFiniteSet(D) /\ Cardinality(D) <= MaxEvents - 1
  BY <1>1, FS_Subset, Zenon
<1>3. f \in Surjection(D, Batches)
  <2>1. f \in [D -> Batches]
    BY DEF StoreInv, Filled
  <2>2. ASSUME NEW b \in Batches PROVE \E d \in D : f[d] = b
    <3>1. PICK d \in EventsOf(b) : d # e
      OBVIOUS
    <3>2. d \in D /\ f[d] = b
      BY <3>1, Constants DEF EventsOf, Batches
    <3> QED BY <3>2
  <2> QED BY <2>1, <2>2 DEF Surjection
<1>4. IsFiniteSet(Batches) /\ Cardinality(Batches) <= Cardinality(D)
  BY <1>2, <1>3, FS_Surjection
<1>5. IsFiniteSet(SplitUp) /\ Cardinality(SplitUp) \in Nat
  BY Constants, FS_Subset, FS_CardinalityType DEF SplitUp
<1>6. Made = Batches \cup SplitUp /\ Batches \cap SplitUp = {}
  BY DEF Made, Batches, SplitUp, StoreInv, Filled
<1>7. Cardinality(Batches) \in Nat /\ Cardinality(D) \in Nat
  BY <1>2, <1>4, FS_CardinalityType
<1>8. Cardinality(Made) = Cardinality(Batches) + Cardinality(SplitUp)
  <2>1. Cardinality(Batches \cup SplitUp) =
          Cardinality(Batches) + Cardinality(SplitUp) - Cardinality(Batches \cap SplitUp)
    BY <1>4, <1>5, FS_Union
  <2>2. Cardinality(Batches \cap SplitUp) = 0
    BY <1>6, FS_EmptySet, Zenon
  <2> QED BY <1>5, <1>6, <1>7, <2>1, <2>2
<1> QED BY <1>2, <1>4, <1>5, <1>7, <1>8, NextIsNew, Constants


LEMMA RoomForNext ==
  ASSUME StoreInv, NEW e \in Event,
         \A b \in Batches : \E d \in EventsOf(b) : d # e
  PROVE  /\ NextBatch \in Batch
         /\ spent.splits < MaxSplits => NextBatch + 1 \in Batch
<1>1. NextBatch \in Nat \ {0} /\ NextBatch <= MaxEvents + Cardinality(SplitUp)
  BY RoomForBatches, NextIsNew
<1>2. Cardinality(SplitUp) <= spent.splits /\ spent.splits <= MaxSplits
  BY DEF StoreInv, Filled
<1>3. Cardinality(SplitUp) \in Nat /\ spent.splits \in Nat
  BY RoomForBatches DEF StoreInv, Tables, SpentRow
<1>4. MaxEvents \in Nat /\ MaxSplits \in Nat
  BY Constants
<1> QED BY <1>1, <1>2, <1>3, <1>4 DEF Batch

(***************************************************************************)
(* What a new range is made of, and where it goes.                          *)
(***************************************************************************)
LEMMA RangeIsNew ==
  ASSUME StoreInv, Ready, Unused # {}
  PROVE  /\ NextRange \in Ranges /\ op[NextRange].state = "absent"
         /\ NewRange \in RangeRow
<1>1. NextRange \in Unused
  <2>1. Unused \subseteq Nat
    BY Constants DEF Unused
  <2> QED BY <2>1, LeastNumber DEF NextRange
<1>2. Cutoff \in Batch \cup {0}
  <2> DEFINE S == {b \in Batches : HasSessionEnd(b)} \cup {0}
  <2>1. MaxEvents + MaxSplits \in Nat /\ S # {}
    BY Constants
  <2>2. S \subseteq 0..(MaxEvents + MaxSplits)
    BY <2>1 DEF Batches, Batch
  <2>3. Max(S) \in S
    BY <2>1, <2>2, GreatestNumber
  <2> QED BY <2>3 DEF Cutoff, Batches
<1>3. cursor.gen \in Nat /\ cursor.through \in Batch \cup {0} /\ cursor.through < Cutoff
  BY Constants, <1>2 DEF Ready, StoreInv, Tables, CursorRow, Batch
<1>4. cursor.through + 1 \in Batch
  BY <1>2, <1>3, Constants DEF Batch
<1> QED BY <1>1, <1>2, <1>3, <1>4 DEF Unused, NewRange, RangeRow

-----------------------------------------------------------------------------
(***************************************************************************)
(* Steps that give no Batch and no operation up and put no event elsewhere.  *)
(***************************************************************************)
SameShape ==
  /\ \A b \in Batch : /\ batch'[b].state = "absent" <=> batch[b].state = "absent"
                      /\ batch'[b].split = batch[b].split
  /\ \A e \in Event : event'[e].batch = event[e].batch
  /\ spent'.splits = spent.splits

OpsKept ==
  /\ \A b \in Batch : op'[b].state = "absent" <=> op[b].state = "absent"
  /\ \A o \in Op : op'[o].state = "dead_letter" => op[o].state = "dead_letter"
  /\ \A o \in Op : op'[o].by # NoWorker <=> op'[o].state = "processing"

LEMMA StoreKept ==
  ASSUME StoreInv, Tables', SameShape, OpsKept
  PROVE  StoreInv'
<1>1. Made' = Made /\ SplitUp' = SplitUp /\ Batches' = Batches
  BY DEF Made, SplitUp, Batches, SameShape
<1>2. ASSUME NEW b \in Batches PROVE EventsOf(b)' = EventsOf(b)
  BY DEF EventsOf, SameShape
<1>3. Numbered'
  BY <1>1 DEF Numbered, StoreInv
<1>4. Filled'
  BY <1>1, <1>2 DEF Filled, StoreInv, SameShape
<1>5. OpsAgree'
  BY DEF OpsAgree, StoreInv, SameShape, OpsKept, Op
<1> QED BY <1>3, <1>4, <1>5 DEF StoreInv

\* Only the counters of crashes, faults and the like may move.
LEMMA StoreUnchanged ==
  ASSUME StoreInv, UNCHANGED <<event, batch, op, range, cons, cursor, ingested>>,
         spent' \in SpentRow, spent'.splits = spent.splits
  PROVE  StoreInv'
<1>1. Tables'
  BY DEF StoreInv, Tables
<1>2. SameShape /\ OpsKept
  BY DEF SameShape, OpsKept, StoreInv, OpsAgree
<1> QED BY <1>1, <1>2, StoreKept

-----------------------------------------------------------------------------
(***************************************************************************)
(* Where a Worker may go.                                                   *)
(***************************************************************************)
NoneVanishes == \A o \in Op : op[o].state # "absent" => op'[o].state # "absent"

LEMMA WorkerMoves ==
  ASSUME InPlace, NEW w \in Worker, NEW m \in WorkerRow, AtPlace(m),
         worker' = [worker EXCEPT ![w] = m], NoneVanishes
  PROVE  InPlace'
<1>1. worker' \in [Worker -> WorkerRow]
  BY DEF InPlace
<1>2. ASSUME NEW v \in Worker PROVE AtPlace(worker'[v])
  BY DEF InPlace
<1>3. ASSUME NEW v \in Worker PROVE AtPlace(worker[v])'
  <2>1. worker'[v].op \in Op \cup {0}
    BY <1>1 DEF WorkerRow
  <2> QED BY <1>2, <2>1 DEF AtPlace, NoneVanishes
<1> QED BY <1>1, <1>3 DEF InPlace

LEMMA WorkersStay ==
  ASSUME InPlace, UNCHANGED worker, NoneVanishes
  PROVE  InPlace'
<1>1. ASSUME NEW v \in Worker PROVE AtPlace(worker[v])'
  <2>1. worker[v].op \in Op \cup {0} /\ AtPlace(worker[v])
    BY DEF InPlace, WorkerRow
  <2> QED BY <2>1 DEF AtPlace, NoneVanishes
<1> QED BY <1>1 DEF InPlace

LEMMA WorkerStarts ==
  ASSUME InPlace, NEW w \in Worker, worker' = [worker EXCEPT ![w] = Start], NoneVanishes
  PROVE  InPlace'
<1>1. Start \in WorkerRow /\ AtPlace(Start)
  BY DEF Start, WorkerRow, AtPlace, Place, BatchPlaces, RangePlaces
<1> QED BY <1>1, WorkerMoves

LEMMA WorkerGoes ==
  ASSUME InPlace, NEW w \in Worker, NEW at \in Place, Goto(w, at), NoneVanishes,
         at \in BatchPlaces => worker[w].op \in Batch,
         at \in RangePlaces => worker[w].op \in Ranges,
         at \in {"bind", "mark", "complete"} => worker[w].op # 0,
         at \notin {"mirror", "assign"}
  PROVE  InPlace'
<1> DEFINE m == [worker[w] EXCEPT !.at = at]
<1>1. worker[w] \in WorkerRow /\ AtPlace(worker[w])
  BY DEF InPlace
<1>2. m \in WorkerRow /\ m.at = at /\ m.op = worker[w].op
  BY <1>1 DEF WorkerRow
<1>3. AtPlace(m)
  BY <1>1, <1>2 DEF AtPlace
<1>4. worker' = [worker EXCEPT ![w] = m]
  BY DEF Goto, InPlace
<1> QED BY <1>2, <1>3, <1>4, WorkerMoves

LEMMA WorkerThrows ==
  ASSUME InPlace, NEW w \in Worker, Throw(w), NoneVanishes
  PROVE  InPlace'
<1> DEFINE m == [worker[w] EXCEPT !.at = "fail", !.category = "local"]
<1>1. CASE ~worker[w].try
  BY <1>1, WorkerStarts DEF Throw
<1>2. CASE worker[w].try
  <2>1. worker[w] \in WorkerRow /\ AtPlace(worker[w])
    BY DEF InPlace
  <2>2. m \in WorkerRow /\ m.at = "fail" /\ m.op = worker[w].op
    BY <2>1 DEF WorkerRow, Place
  <2>3. AtPlace(m)
    BY <2>1, <2>2 DEF AtPlace, BatchPlaces, RangePlaces
  <2>4. worker' = [worker EXCEPT ![w] = m]
    BY <1>2 DEF Throw
  <2> QED BY <2>2, <2>3, <2>4, WorkerMoves
<1> QED BY <1>1, <1>2


-----------------------------------------------------------------------------
(***************************************************************************)
(* Steps that only read the tables.                                         *)
(***************************************************************************)
LEMMA ReadOnly ==
  ASSUME StoreInv, UNCHANGED store
  PROVE  StoreInv' /\ NoneVanishes
<1>1. UNCHANGED <<event, batch, op, range, cons, cursor, ingested, spent>>
  BY DEF store
<1>2. spent' \in SpentRow /\ spent'.splits = spent.splits
  BY <1>1 DEF StoreInv, Tables
<1>3. NoneVanishes
  BY <1>1 DEF NoneVanishes
<1> QED BY <1>1, <1>2, <1>3, StoreUnchanged

LEMMA SelectionOfEvents ==
  ASSUME NEW s \in Selections
  PROVE  s \subseteq Event /\ s # {}
<1>1. PICK f \in Event : s \in {{e \in Rows(f) : e <= last} : last \in Rows(f)}
  BY DEF Selections
<1>2. PICK last \in Rows(f) : s = {e \in Rows(f) : e <= last}
  BY <1>1
<1>3. last \in Event /\ last <= last
  BY <1>2, Constants DEF Rows, Unassigned
<1> QED BY <1>2, <1>3 DEF Rows, Unassigned

LEMMA SelectKeeps ==
  ASSUME Inv, NEW w \in Worker, Select(w)
  PROVE  Inv'
<1>1. StoreInv' /\ NoneVanishes
  BY ReadOnly DEF Select, Inv
<1>2. CASE Goto(w, "queue")
  BY <1>1, <1>2, WorkerGoes DEF Inv, Place, BatchPlaces, RangePlaces
<1>3. CASE \E s \in Selections :
             worker' = [worker EXCEPT ![w].at = "assign", ![w].selected = s]
  <2>1. PICK s \in Selections :
          worker' = [worker EXCEPT ![w].at = "assign", ![w].selected = s]
    BY <1>3
  <2> DEFINE m == [worker[w] EXCEPT !.at = "assign", !.selected = s]
  <2>2. worker[w] \in WorkerRow /\ AtPlace(worker[w]) /\ worker \in [Worker -> WorkerRow]
    BY DEF Inv, InPlace
  <2>3. s \subseteq Event /\ s # {}
    BY SelectionOfEvents
  <2>4. m \in WorkerRow /\ m.at = "assign" /\ m.op = worker[w].op /\ m.selected = s
    BY <2>2, <2>3 DEF WorkerRow, Place
  <2>5. AtPlace(m)
    BY <2>2, <2>3, <2>4 DEF AtPlace, BatchPlaces, RangePlaces
  <2>6. worker' = [worker EXCEPT ![w] = m]
    BY <2>1, <2>2
  <2> QED BY <1>1, <2>4, <2>5, <2>6, WorkerMoves DEF Inv
<1> QED BY <1>1, <1>2, <1>3 DEF Select, Inv

LEMMA BindKeeps ==
  ASSUME Inv, NEW w \in Worker, Bind(w)
  PROVE  Inv'
<1>1. StoreInv' /\ NoneVanishes
  BY ReadOnly DEF Bind, Inv
<1>2. worker[w].op \in Op \ {0}
  BY DEF Bind, Inv, InPlace, AtPlace, WorkerRow
<1>3. CASE Throw(w)
  BY <1>1, <1>3, WorkerThrows DEF Inv
<1>4. CASE worker[w].op \in Batch /\ Goto(w, "finalize")
  BY <1>1, <1>4, WorkerGoes DEF Inv, Place, BatchPlaces, RangePlaces
<1>5. CASE Goto(w, "mark") \/ Goto(w, "complete")
  BY <1>1, <1>2, <1>5, WorkerGoes DEF Inv, Place, BatchPlaces, RangePlaces
<1> QED BY <1>1, <1>3, <1>4, <1>5 DEF Bind, Inv

LEMMA ModelFailsKeeps ==
  ASSUME Inv, NEW w \in Worker, NEW category \in {"model", "schema_invalid"},
         ModelFails(w, category)
  PROVE  Inv'
<1> DEFINE m == [worker[w] EXCEPT !.at = "fail", !.category = category]
<1>1. StoreInv' /\ NoneVanishes
  BY ReadOnly DEF ModelFails, Inv
<1>2. worker[w] \in WorkerRow /\ AtPlace(worker[w]) /\ worker \in [Worker -> WorkerRow]
  BY DEF Inv, InPlace
<1>3. m \in WorkerRow /\ m.at = "fail" /\ m.op = worker[w].op
  BY <1>2 DEF WorkerRow, Place
<1>4. AtPlace(m)
  BY <1>2, <1>3 DEF AtPlace, BatchPlaces, RangePlaces
<1>5. worker' = [worker EXCEPT ![w] = m]
  BY <1>2 DEF ModelFails
<1> QED BY <1>1, <1>3, <1>4, <1>5, WorkerMoves DEF Inv

LEMMA DistillKeeps ==
  ASSUME Inv, NEW w \in Worker, Distill(w)
  PROVE  Inv'
<1>1. StoreInv' /\ NoneVanishes
  BY ReadOnly DEF Distill, Inv
<1>2. worker[w].op \in Batch
  BY DEF Distill, Inv, InPlace, AtPlace, BatchPlaces
<1> QED BY <1>1, <1>2, WorkerGoes DEF Distill, Inv, Place, BatchPlaces, RangePlaces

LEMMA FinalizeKeeps ==
  ASSUME Inv, NEW w \in Worker, Finalize(w)
  PROVE  Inv'
<1>1. StoreInv' /\ NoneVanishes
  BY ReadOnly DEF Finalize, Inv
<1>2. worker[w].op \in Batch /\ worker[w].op # 0
  BY Constants DEF Finalize, Inv, InPlace, AtPlace, BatchPlaces
<1>3. CASE Throw(w)
  BY <1>1, <1>3, WorkerThrows DEF Inv
<1>4. CASE Goto(w, "complete") \/ Goto(w, "ingest") \/ Goto(w, "queueBatch")
  BY <1>1, <1>2, <1>4, WorkerGoes DEF Inv, Place, BatchPlaces, RangePlaces
<1> QED BY <1>3, <1>4 DEF Finalize

LEMMA ResultsType ==
  ASSUME StoreInv, NEW r \in Ranges
  PROVE  Results(r) \subseteq Batch \X Nat
BY DEF Results, InRange, Batches, StoreInv, Tables, BatchRow

LEMMA LoadKeeps ==
  ASSUME Inv, NEW w \in Worker, Load(w)
  PROVE  Inv'
<1>1. StoreInv' /\ NoneVanishes
  BY ReadOnly DEF Load, Inv
<1>2. worker[w] \in WorkerRow /\ AtPlace(worker[w]) /\ worker \in [Worker -> WorkerRow]
  BY DEF Inv, InPlace
<1>3. worker[w].op \in Ranges
  BY <1>2 DEF Load, AtPlace, RangePlaces
<1>4. CASE Throw(w)
  BY <1>1, <1>4, WorkerThrows DEF Inv
<1>5. CASE worker' = [worker EXCEPT ![w].input = Results(worker[w].op),
                        ![w].at = IF cons.result.kind = "null" THEN "consolidate" ELSE "pages"]
  <2> DEFINE at == IF cons.result.kind = "null" THEN "consolidate" ELSE "pages"
             m == [worker[w] EXCEPT !.input = Results(worker[w].op), !.at = at]
  <2>1. Results(worker[w].op) \subseteq Batch \X Nat
    BY <1>3, ResultsType DEF Inv
  <2>2. at \in {"consolidate", "pages"}
    OBVIOUS
  <2> HIDE DEF at
  <2>3. m \in WorkerRow /\ m.at = at /\ m.op = worker[w].op
    BY <1>2, <2>1, <2>2 DEF WorkerRow, Place
  <2>4. AtPlace(m)
    BY <1>2, <1>3, <2>2, <2>3 DEF AtPlace, BatchPlaces, RangePlaces
  <2>5. worker' = [worker EXCEPT ![w] = m]
    BY <1>2, <1>5 DEF at
  <2> QED BY <1>1, <2>3, <2>4, <2>5, WorkerMoves DEF Inv
<1> QED BY <1>4, <1>5 DEF Load

LEMMA ConsolidateKeeps ==
  ASSUME Inv, NEW w \in Worker, Consolidate(w)
  PROVE  Inv'
<1>1. StoreInv' /\ NoneVanishes
  BY ReadOnly DEF Consolidate, Inv
<1>2. worker[w].op \in Ranges
  BY DEF Consolidate, Inv, InPlace, AtPlace, RangePlaces
<1> QED BY <1>1, <1>2, WorkerGoes DEF Consolidate, Inv, Place, BatchPlaces, RangePlaces

LEMMA NotSplitKeeps ==
  ASSUME Inv, NEW w \in Worker, NotSplit(w)
  PROVE  Inv'
<1>1. StoreInv' /\ NoneVanishes
  BY ReadOnly DEF NotSplit, Inv
<1> QED BY <1>1, WorkerStarts DEF NotSplit, Inv


-----------------------------------------------------------------------------
(***************************************************************************)
(* Steps that write the tables.                                             *)
(***************************************************************************)
OpsTyped == op \in [Op -> OpRow]

LEMMA OpsCompleted ==
  ASSUME StoreInv, NEW o \in Op, op[o].state # "absent", op' = Finished(o)
  PROVE  OpsTyped' /\ OpsKept /\ NoneVanishes
<1>1. op \in [Op -> OpRow]
  BY DEF StoreInv, Tables
<1>2. op' = [op EXCEPT ![o] = [op[o] EXCEPT !.state = "completed", !.by = NoWorker,
                                            !.due = FALSE, !.local = FALSE]]
  BY <1>1 DEF Finished
<1>3. op' \in [Op -> OpRow]
  BY <1>1, <1>2 DEF OpRow, OpState
<1>4. \A p \in Op : /\ p # o => op'[p] = op[p]
                    /\ op'[o].state = "completed" /\ op'[o].by = NoWorker
  BY <1>1, <1>2 DEF OpRow
<1> QED BY <1>3, <1>4 DEF OpsTyped, OpsKept, NoneVanishes, StoreInv, OpsAgree, Op

\* A row is rewritten: its operation stays, and is leased just while processed.
LEMMA OpRewritten ==
  ASSUME StoreInv, NEW o \in Op, NEW row \in OpRow, op' = [op EXCEPT ![o] = row],
         op[o].state # "absent", row.state \notin {"absent", "dead_letter"},
         row.by # NoWorker <=> row.state = "processing"
  PROVE  OpsTyped' /\ OpsKept /\ NoneVanishes
<1>1. op \in [Op -> OpRow]
  BY DEF StoreInv, Tables
<1>2. op' \in [Op -> OpRow]
  BY <1>1
<1>3. \A p \in Op : (p # o => op'[p] = op[p]) /\ op'[o] = row
  BY <1>1
<1> QED BY <1>2, <1>3 DEF OpsTyped, OpsKept, NoneVanishes, StoreInv, OpsAgree, Op

\* A Batch is rewritten, or a part of its row.
LEMMA BatchRewritten ==
  ASSUME StoreInv, NEW b \in Batch, NEW s \in BatchState \ {"absent"}, NEW n \in Nat,
         op[b].state # "absent",
         batch' = [batch EXCEPT ![b].state = s, ![b].version = n]
  PROVE  /\ batch' \in [Batch -> BatchRow]
         /\ \A c \in Batch : /\ batch'[c].state = "absent" <=> batch[c].state = "absent"
                             /\ batch'[c].split = batch[c].split
<1>1. batch \in [Batch -> BatchRow]
  BY DEF StoreInv, Tables
<1>2. batch' = [batch EXCEPT ![b] = [batch[b] EXCEPT !.state = s, !.version = n]]
  BY <1>1
<1>3. batch[b].state # "absent"
  BY DEF StoreInv, OpsAgree
<1>4. batch' \in [Batch -> BatchRow]
  BY <1>1, <1>2 DEF BatchRow
<1>5. ASSUME NEW c \in Batch
      PROVE  /\ batch'[c].state = "absent" <=> batch[c].state = "absent"
             /\ batch'[c].split = batch[c].split
  BY <1>1, <1>2, <1>3 DEF BatchRow
<1> QED BY <1>4, <1>5

LEMMA EventsDone ==
  ASSUME StoreInv, NEW b \in Batch,
         event' = [e \in Event |-> [event[e] EXCEPT !.done = @ \/ event[e].batch = b]]
  PROVE  event' \in [Event -> EventRow] /\ \A e \in Event : event'[e].batch = event[e].batch
<1>1. event \in [Event -> EventRow]
  BY DEF StoreInv, Tables
<1>2. ASSUME NEW e \in Event
      PROVE  event'[e] \in EventRow /\ event'[e].batch = event[e].batch
  <2>1. (event[e].done \/ event[e].batch = b) \in BOOLEAN
    OBVIOUS
  <2>2. event'[e] = [event[e] EXCEPT !.done = event[e].done \/ event[e].batch = b]
    OBVIOUS
  <2> QED BY <1>1, <2>1, <2>2 DEF EventRow
<1> QED BY <1>2

LEMMA RecoverKeeps ==
  ASSUME Inv, NEW w \in Worker, Recover(w)
  PROVE  Inv'
<1>1. CASE UNCHANGED store
  BY <1>1, ReadOnly, WorkerGoes DEF Recover, Inv, Place, BatchPlaces, RangePlaces
<1>2. CASE \E b \in Batch :
             /\ BlockedLifecycleOnly(b)
             /\ batch' = [batch EXCEPT ![b].state = "completed", ![b].version = @ + 1]
             /\ event' = [e \in Event |-> [event[e] EXCEPT !.done = @ \/ event[e].batch = b]]
             /\ op' = Finished(b)
             /\ UNCHANGED <<range, cons, cursor, ingested, spent>>
  <2>1. PICK b \in Batch :
             /\ BlockedLifecycleOnly(b)
             /\ batch' = [batch EXCEPT ![b].state = "completed", ![b].version = @ + 1]
             /\ event' = [e \in Event |-> [event[e] EXCEPT !.done = @ \/ event[e].batch = b]]
             /\ op' = Finished(b)
             /\ UNCHANGED <<range, cons, cursor, ingested, spent>>
    BY <1>2
  <2>2. StoreInv /\ batch \in [Batch -> BatchRow]
    BY DEF Inv, StoreInv, Tables
  <2>3. b \in Op /\ op[b].state = "blocked"
    BY <2>1 DEF Op, BlockedLifecycleOnly
  <2>4. OpsTyped' /\ OpsKept /\ NoneVanishes
    BY <2>1, <2>2, <2>3, OpsCompleted
  <2>5. batch[b].version + 1 \in Nat
    BY <2>2 DEF BatchRow
  <2>6. batch' = [batch EXCEPT ![b].state = "completed", ![b].version = batch[b].version + 1]
    BY <2>1, <2>2
  <2>7. /\ batch' \in [Batch -> BatchRow]
        /\ \A c \in Batch : /\ batch'[c].state = "absent" <=> batch[c].state = "absent"
                            /\ batch'[c].split = batch[c].split
    BY <2>2, <2>3, <2>5, <2>6, BatchRewritten DEF BatchState
  <2>8. event' \in [Event -> EventRow] /\ \A e \in Event : event'[e].batch = event[e].batch
    BY <2>1, <2>2, EventsDone
  <2>9. Tables' /\ SameShape
    BY <2>1, <2>2, <2>4, <2>7, <2>8 DEF Tables, SameShape, OpsTyped, StoreInv
  <2> QED BY <2>2, <2>4, <2>9, StoreKept, WorkerGoes
          DEF Recover, Inv, Place, BatchPlaces, RangePlaces
<1> QED BY <1>1, <1>2 DEF Recover

LEMMA PersistKeeps ==
  ASSUME Inv, NEW w \in Worker, Persist(w)
  PROVE  Inv'
<1> DEFINE b == worker[w].op
<1>1. StoreInv /\ batch \in [Batch -> BatchRow]
  BY DEF Inv, StoreInv, Tables
<1>2. b \in Batch /\ op[b].state # "absent"
  BY Constants DEF Persist, Inv, InPlace, AtPlace, BatchPlaces
<1>3. batch[b].version + 1 \in Nat
  BY <1>1, <1>2 DEF BatchRow
<1>4. batch' = [batch EXCEPT ![b].state = "completed", ![b].version = batch[b].version + 1]
  BY <1>1, <1>2 DEF Persist
<1>5. /\ batch' \in [Batch -> BatchRow]
      /\ \A c \in Batch : /\ batch'[c].state = "absent" <=> batch[c].state = "absent"
                          /\ batch'[c].split = batch[c].split
  BY <1>1, <1>2, <1>3, <1>4, BatchRewritten DEF BatchState
<1>6. event' \in [Event -> EventRow] /\ \A e \in Event : event'[e].batch = event[e].batch
  BY <1>1, <1>2, EventsDone DEF Persist
<1>7. Tables' /\ SameShape /\ OpsKept /\ NoneVanishes
  BY <1>1, <1>5, <1>6
     DEF Persist, Tables, SameShape, OpsKept, NoneVanishes, StoreInv, OpsAgree
<1>8. InPlace'
  BY <1>2, <1>7, WorkerGoes DEF Persist, Inv, Place, BatchPlaces, RangePlaces
<1> QED BY <1>1, <1>7, <1>8, StoreKept DEF Inv


LEMMA QueueRangeKeeps ==
  ASSUME StoreInv, Ready, Unused # {}, QueueRange
  PROVE  StoreInv' /\ NoneVanishes
<1>1. /\ NextRange \in Ranges /\ op[NextRange].state = "absent"
      /\ NewRange \in RangeRow
  BY RangeIsNew
<1>2. NextRange \in Op /\ NextRange \notin Batch
  BY <1>1, Constants DEF Op
<1>3. /\ op \in [Op -> OpRow] /\ range \in [Ranges -> RangeRow]
      /\ UNCHANGED <<event, batch, cursor, ingested, spent>>
  BY DEF StoreInv, Tables, QueueRange
<1>4. Owned \in OpRow /\ Owned.state = "pending" /\ Owned.by = NoWorker
  BY Constants DEF Owned, OpRow, OpState, Live
<1>5. op' = [op EXCEPT ![NextRange] = Owned] /\ range' = [range EXCEPT ![NextRange] = NewRange]
  BY DEF QueueRange
<1>6. op' \in [Op -> OpRow] /\ range' \in [Ranges -> RangeRow]
  BY <1>1, <1>2, <1>3, <1>4, <1>5
<1>7. cons' \in ConsRow
  BY <1>1 DEF QueueRange, ConsRow, BatchState, NoResult
<1>8. Tables' /\ SameShape
  BY <1>3, <1>6, <1>7 DEF StoreInv, Tables, SameShape
<1>9. \A o \in Op : (o # NextRange => op'[o] = op[o]) /\ op'[NextRange] = Owned
  BY <1>2, <1>3, <1>5
<1>10. OpsKept /\ NoneVanishes
  BY <1>2, <1>4, <1>9 DEF OpsKept, NoneVanishes, StoreInv, OpsAgree, Op
<1> QED BY <1>8, <1>10, StoreKept

LEMMA QueueIfReadyKeeps ==
  ASSUME Inv, NEW w \in Worker, NEW next \in {"claim", "complete"}, QueueIfReady(w, next),
         next = "complete" => worker[w].op # 0
  PROVE  Inv'
<1>1. StoreInv' /\ NoneVanishes
  BY ReadOnly, QueueRangeKeeps DEF QueueIfReady, Inv
<1>2. CASE Goto(w, next)
  BY <1>1, <1>2, WorkerGoes DEF Inv, Place, BatchPlaces, RangePlaces
<1>3. CASE Throw(w)
  BY <1>1, <1>3, WorkerThrows DEF Inv
<1> QED BY <1>2, <1>3 DEF QueueIfReady

LEMMA PollKeeps ==
  ASSUME Inv, NEW w \in Worker, Poll(w)
  PROVE  Inv'
BY QueueIfReadyKeeps DEF Poll

LEMMA QueueAfterBatchKeeps ==
  ASSUME Inv, NEW w \in Worker, QueueAfterBatch(w)
  PROVE  Inv'
<1>1. worker[w].op # 0
  BY Constants DEF QueueAfterBatch, Inv, InPlace, AtPlace, BatchPlaces
<1> QED BY <1>1, QueueIfReadyKeeps DEF QueueAfterBatch

\* Steps that leave events, Batches and operations alone.
LEMMA RestChanges ==
  ASSUME StoreInv, UNCHANGED <<event, batch, op, range, spent>>,
         cons' \in ConsRow, cursor' \in CursorRow, ingested' \subseteq Batch
  PROVE  StoreInv' /\ NoneVanishes
<1>1. Tables' /\ SameShape /\ OpsKept /\ NoneVanishes
  BY DEF StoreInv, Tables, SameShape, OpsKept, NoneVanishes, OpsAgree
<1> QED BY <1>1, StoreKept

LEMMA IngestBatchKeeps ==
  ASSUME Inv, NEW w \in Worker, IngestBatch(w)
  PROVE  Inv'
<1>1. worker[w].op \in Batch
  BY DEF IngestBatch, Inv, InPlace, AtPlace, BatchPlaces
<1>2. ingested' \subseteq Batch /\ cons' \in ConsRow /\ cursor' \in CursorRow
  BY <1>1 DEF IngestBatch, Inv, StoreInv, Tables
<1>3. StoreInv' /\ NoneVanishes
  BY <1>2, RestChanges DEF IngestBatch, Inv
<1> QED BY <1>1, <1>3, WorkerGoes DEF IngestBatch, Inv, Place, BatchPlaces, RangePlaces

LEMMA AdvanceCursorKeeps ==
  ASSUME Inv, NEW w \in Worker, AdvanceCursor(w)
  PROVE  Inv'
<1>1. worker[w].op \in Batch /\ worker[w].op # 0
  BY Constants DEF AdvanceCursor, Inv, InPlace, AtPlace, BatchPlaces
<1>2. ingested' \subseteq Batch /\ cons' \in ConsRow /\ cursor' \in CursorRow
  BY <1>1 DEF AdvanceCursor, Inv, StoreInv, Tables, CursorRow
<1>3. StoreInv' /\ NoneVanishes
  BY <1>2, RestChanges DEF AdvanceCursor, Inv
<1> QED BY <1>1, <1>3, WorkerGoes DEF AdvanceCursor, Inv, Place, BatchPlaces, RangePlaces

LEMMA CheckpointKeeps ==
  ASSUME Inv, NEW w \in Worker, Checkpoint(w)
  PROVE  Inv'
<1>1. worker[w] \in WorkerRow /\ worker[w].op \in Ranges
  BY DEF Checkpoint, Inv, InPlace, AtPlace, RangePlaces
<1>2. cons \in ConsRow /\ worker[w].input \subseteq Batch \X Nat
  BY <1>1 DEF Inv, StoreInv, Tables, WorkerRow
<1>3. CASE UNCHANGED cons /\ Throw(w)
  <2>1. StoreInv' /\ NoneVanishes
    BY <1>3, RestChanges DEF Checkpoint, Inv, StoreInv, Tables
  <2> QED BY <1>3, <2>1, WorkerThrows DEF Inv
<1>4. CASE /\ cons' = [cons EXCEPT !.result = [kind |-> "checkpoint", input |-> worker[w].input]]
           /\ Goto(w, "pages")
  <2>1. cons' \in ConsRow
    BY <1>2, <1>4 DEF ConsRow
  <2>2. StoreInv' /\ NoneVanishes
    BY <2>1, RestChanges DEF Checkpoint, Inv, StoreInv, Tables
  <2> QED BY <1>1, <1>4, <2>2, WorkerGoes DEF Inv, Place, BatchPlaces, RangePlaces
<1> QED BY <1>3, <1>4 DEF Checkpoint

LEMMA IngestPagesKeeps ==
  ASSUME Inv, NEW w \in Worker, IngestPages(w)
  PROVE  Inv'
<1>1. worker[w] \in WorkerRow /\ worker[w].op \in Ranges
  BY DEF IngestPages, Inv, InPlace, AtPlace, RangePlaces
<1>2. ingested' \subseteq Batch /\ cons' \in ConsRow /\ cursor' \in CursorRow
  BY <1>1 DEF IngestPages, Inv, StoreInv, Tables, WorkerRow
<1>3. StoreInv' /\ NoneVanishes
  BY <1>2, RestChanges DEF IngestPages, Inv
<1> QED BY <1>1, <1>3, WorkerGoes DEF IngestPages, Inv, Place, BatchPlaces, RangePlaces

LEMMA FinishKeeps ==
  ASSUME Inv, NEW w \in Worker, Finish(w)
  PROVE  Inv'
<1>1. worker[w].op \in Ranges /\ worker[w].op # 0
  BY Constants DEF Finish, Inv, InPlace, AtPlace, RangePlaces
<1>2. cons \in ConsRow /\ range[worker[w].op] \in RangeRow
  BY <1>1 DEF Inv, StoreInv, Tables
<1>3. cons' \in ConsRow
  BY <1>2 DEF Finish, ConsRow, BatchState
<1>4. cursor' \in CursorRow
  BY <1>2 DEF Finish, CursorRow, RangeRow
<1>5. StoreInv' /\ NoneVanishes
  BY <1>3, <1>4, RestChanges DEF Finish, Inv, StoreInv, Tables
<1> QED BY <1>1, <1>5, WorkerGoes DEF Finish, Inv, Place, BatchPlaces, RangePlaces


\* Steps of a Worker that change the state of one Batch or of the session's row.
LEMMA StateMarked ==
  ASSUME StoreInv, NEW o \in Op, NEW s \in BatchState \ {"absent"}, op[o].state # "absent",
         UNCHANGED <<event, op, range, cursor, ingested, spent>>,
         IF o \in Batch
         THEN batch' = [batch EXCEPT ![o].state = s] /\ UNCHANGED cons
         ELSE cons' = (IF cons.op = o THEN [cons EXCEPT !.state = s] ELSE cons)
              /\ UNCHANGED batch
  PROVE  StoreInv' /\ NoneVanishes
<1>1. NoneVanishes
  BY DEF NoneVanishes
<1>2. CASE o \in Batch
  <2>1. batch \in [Batch -> BatchRow] /\ batch[o].version \in Nat
    BY <1>2 DEF StoreInv, Tables, BatchRow
  <2>2. batch' = [batch EXCEPT ![o].state = s, ![o].version = batch[o].version]
    BY <1>2, <2>1 DEF BatchRow
  <2>3. /\ batch' \in [Batch -> BatchRow]
        /\ \A c \in Batch : /\ batch'[c].state = "absent" <=> batch[c].state = "absent"
                            /\ batch'[c].split = batch[c].split
    BY <1>2, <2>1, <2>2, BatchRewritten
  <2>4. Tables' /\ SameShape /\ OpsKept
    BY <1>2, <2>3 DEF StoreInv, Tables, SameShape, OpsKept, OpsAgree
  <2> QED BY <1>1, <2>4, StoreKept
<1>3. CASE o \notin Batch
  <2>1. cons' \in ConsRow
    BY <1>3 DEF StoreInv, Tables, ConsRow
  <2>2. Tables' /\ SameShape /\ OpsKept
    BY <1>3, <2>1 DEF StoreInv, Tables, SameShape, OpsKept, OpsAgree
  <2> QED BY <1>1, <2>2, StoreKept
<1> QED BY <1>2, <1>3

LEMMA MarkKeeps ==
  ASSUME Inv, NEW w \in Worker, Mark(w)
  PROVE  Inv'
<1> DEFINE at == IF worker[w].op \in Batch THEN "distill" ELSE "load"
           m == [worker[w] EXCEPT !.try = TRUE, !.at = at]
<1>1. worker[w] \in WorkerRow /\ AtPlace(worker[w]) /\ worker \in [Worker -> WorkerRow]
  BY DEF Inv, InPlace
<1>2. worker[w].op \in Op /\ op[worker[w].op].state # "absent"
  BY <1>1 DEF Mark, AtPlace, WorkerRow
<1>3. StoreInv' /\ NoneVanishes
  BY <1>2, StateMarked DEF Mark, Inv, BatchState
<1>4. at \in {"distill", "load"} /\ (at = "distill" <=> worker[w].op \in Batch)
  OBVIOUS
<1>5. worker' = [worker EXCEPT ![w] = m]
  BY <1>1 DEF Mark
<1> HIDE DEF at
<1>6. m \in WorkerRow /\ m.at = at /\ m.op = worker[w].op
  BY <1>1, <1>4 DEF WorkerRow, Place
<1>7. AtPlace(m)
  BY <1>1, <1>2, <1>4, <1>6 DEF AtPlace, BatchPlaces, RangePlaces, Op
<1> QED BY <1>3, <1>5, <1>6, <1>7, WorkerMoves DEF Inv

LEMMA MirrorKeeps ==
  ASSUME Inv, NEW w \in Worker, Mirror(w)
  PROVE  Inv'
<1> DEFINE m == [worker[w] EXCEPT !.at = "split"]
<1>1. worker[w] \in WorkerRow /\ AtPlace(worker[w]) /\ worker \in [Worker -> WorkerRow]
  BY DEF Inv, InPlace
<1>2. worker[w].op \in Op /\ op[worker[w].op].state # "absent"
  BY <1>1 DEF Mirror, AtPlace, WorkerRow
<1>3. worker[w].failed \in {"retrying", "blocked"}
  BY <1>1 DEF Mirror, AtPlace, WorkerRow
<1>4. StoreInv' /\ NoneVanishes
  BY <1>2, <1>3, StateMarked DEF Mirror, Inv, BatchState
<1>5. CASE worker' = [worker EXCEPT ![w] = Start]
  BY <1>4, <1>5, WorkerStarts DEF Inv
<1>6. CASE worker[w].op \in Batch /\ worker' = [worker EXCEPT ![w] = m]
  <2>1. m \in WorkerRow /\ m.at = "split" /\ m.op = worker[w].op
    BY <1>1 DEF WorkerRow, Place
  <2>2. AtPlace(m)
    BY <1>1, <1>6, <2>1 DEF AtPlace, BatchPlaces, RangePlaces
  <2> QED BY <1>4, <1>6, <2>1, <2>2, WorkerMoves DEF Inv
<1> QED BY <1>5, <1>6 DEF Mirror

\* Steps that change operations only.
LEMMA OpsChange ==
  ASSUME StoreInv, UNCHANGED <<event, batch, range, cons, cursor, ingested>>,
         OpsTyped', OpsKept, spent' \in SpentRow, spent'.splits = spent.splits
  PROVE  StoreInv'
<1>1. Tables' /\ SameShape
  BY DEF StoreInv, Tables, SameShape, OpsTyped
<1> QED BY <1>1, StoreKept

LEMMA ClaimKeeps ==
  ASSUME Inv, NEW w \in Worker, Claim(w)
  PROVE  Inv'
<1>1. op \in [Op -> OpRow] /\ spent \in SpentRow
  BY DEF Inv, StoreInv, Tables
<1>2. CASE Goto(w, "recover") /\ UNCHANGED op
  <2>1. StoreInv' /\ NoneVanishes
    BY <1>2, ReadOnly DEF Claim, Inv, store
  <2> QED BY <1>2, <2>1, WorkerGoes DEF Inv, Place, BatchPlaces, RangePlaces
<1>3. CASE \E o \in Op :
          /\ Selected(o)
          /\ op' = [op EXCEPT ![o].state = "processing", ![o].by = w, ![o].due = FALSE,
                               ![o].tries = IF @ > FastRetries THEN @ ELSE @ + 1]
          /\ worker' = [worker EXCEPT ![w].at = "bind", ![w].op = o]
  <2>1. PICK o \in Op :
          /\ Selected(o)
          /\ op' = [op EXCEPT ![o].state = "processing", ![o].by = w, ![o].due = FALSE,
                               ![o].tries = IF @ > FastRetries THEN @ ELSE @ + 1]
          /\ worker' = [worker EXCEPT ![w].at = "bind", ![w].op = o]
    BY <1>3
  <2> DEFINE tries == IF op[o].tries > FastRetries THEN op[o].tries ELSE op[o].tries + 1
             row == [op[o] EXCEPT !.state = "processing", !.by = w, !.due = FALSE,
                                  !.tries = tries]
             m == [worker[w] EXCEPT !.at = "bind", !.op = o]
  <2>2. op[o].state \in Live
    BY <2>1 DEF Selected, Claimable, Live
  <2>3. tries \in 0..FastRetries + 1
    BY <1>1, Constants DEF OpRow
  <2>4. op' = [op EXCEPT ![o] = row]
    BY <1>1, <2>1
  <2> HIDE DEF tries
  <2>5. row \in OpRow /\ row.state = "processing" /\ row.by = w
    BY <1>1, <2>3 DEF OpRow, OpState, Live
  <2>6. OpsTyped' /\ OpsKept /\ NoneVanishes
    BY <2>2, <2>4, <2>5, OpRewritten, Constants DEF Inv, Live
  <2>7. StoreInv'
    BY <1>1, <2>6, OpsChange DEF Claim, Inv
  <2>8. worker[w] \in WorkerRow /\ AtPlace(worker[w]) /\ worker \in [Worker -> WorkerRow]
    BY DEF Inv, InPlace
  <2>9. m \in WorkerRow /\ m.at = "bind" /\ m.op = o
    BY <2>8 DEF WorkerRow, Place
  <2>10. AtPlace(m)
    BY <2>2, <2>9, Constants DEF AtPlace, BatchPlaces, RangePlaces, Live
  <2>11. worker' = [worker EXCEPT ![w] = m]
    BY <2>1, <2>8
  <2> QED BY <2>6, <2>7, <2>9, <2>10, <2>11, WorkerMoves DEF Inv
<1> QED BY <1>2, <1>3 DEF Claim

LEMMA OwnedOperation ==
  ASSUME Inv, NEW w \in Worker, Owns(w)
  PROVE  worker[w].op \in Op /\ op[worker[w].op].state = "processing"
BY DEF Inv, InPlace, WorkerRow, Owns

LEMMA CompleteKeeps ==
  ASSUME Inv, NEW w \in Worker, Complete(w)
  PROVE  Inv'
<1>1. CASE Owns(w) /\ op' = Finished(worker[w].op) /\ worker' = [worker EXCEPT ![w] = Start]
  <2>1. OpsTyped' /\ OpsKept /\ NoneVanishes
    BY <1>1, OwnedOperation, OpsCompleted DEF Inv
  <2>2. StoreInv'
    BY <2>1, OpsChange DEF Complete, Inv, StoreInv, Tables
  <2> QED BY <1>1, <2>1, <2>2, WorkerStarts DEF Inv
<1>2. CASE Throw(w) /\ UNCHANGED op
  <2>1. StoreInv' /\ NoneVanishes
    BY <1>2, ReadOnly DEF Complete, Inv, store
  <2> QED BY <1>2, <2>1, WorkerThrows DEF Inv
<1> QED BY <1>1, <1>2 DEF Complete


LEMMA FailOperationKeeps ==
  ASSUME Inv, NEW w \in Worker, FailOperation(w)
  PROVE  Inv'
<1> DEFINE o == worker[w].op
<1>1. CASE worker' = [worker EXCEPT ![w] = Start] /\ UNCHANGED op
  <2>1. StoreInv' /\ NoneVanishes
    BY <1>1, ReadOnly DEF FailOperation, Inv, store
  <2> QED BY <1>1, <2>1, WorkerStarts DEF Inv
<1>2. ASSUME NEW state \in {"retrying", "blocked"}, Owns(w),
             op' = [op EXCEPT ![o].state = state, ![o].by = NoWorker, ![o].due = FALSE,
                               ![o].local = (worker[w].category = "local")],
             worker' = [worker EXCEPT ![w].at = "mirror", ![w].failed = state]
      PROVE  Inv'
  <2> DEFINE local == worker[w].category = "local"
             row == [op[o] EXCEPT !.state = state, !.by = NoWorker, !.due = FALSE,
                                  !.local = local]
             m == [worker[w] EXCEPT !.at = "mirror", !.failed = state]
  <2>1. o \in Op /\ op[o].state = "processing" /\ o # 0
    BY <1>2, OwnedOperation, Constants
  <2>2. op \in [Op -> OpRow] /\ worker \in [Worker -> WorkerRow] /\ AtPlace(worker[w])
    BY DEF Inv, StoreInv, Tables, InPlace
  <2>3. op' = [op EXCEPT ![o] = row]
    BY <1>2, <2>1, <2>2
  <2>4. local \in BOOLEAN
    OBVIOUS
  <2> HIDE DEF local
  <2>5. row \in OpRow /\ row.state = state /\ row.by = NoWorker
    BY <2>1, <2>2, <2>4 DEF OpRow, OpState, Live
  <2>6. OpsTyped' /\ OpsKept /\ NoneVanishes
    BY <2>1, <2>3, <2>5, OpRewritten DEF Inv
  <2>7. StoreInv'
    BY <2>6, OpsChange DEF FailOperation, Inv, StoreInv, Tables
  <2>8. m \in WorkerRow /\ m.at = "mirror" /\ m.op = o /\ m.failed = state
    <3>1. worker[w] \in WorkerRow
      BY <2>2
    <3>2. "mirror" \in Place
      BY DEF Place
    <3> QED BY <3>1, <3>2 DEF WorkerRow
  <2>9. AtPlace(m)
    BY <2>1, <2>2, <2>8 DEF AtPlace, BatchPlaces, RangePlaces
  <2>10. worker' = [worker EXCEPT ![w] = m]
    BY <1>2, <2>2
  <2> QED BY <2>6, <2>7, <2>8, <2>9, <2>10, WorkerMoves DEF Inv
<1> QED BY <1>1, <1>2 DEF FailOperation

-----------------------------------------------------------------------------
(***************************************************************************)
(* What goes wrong, what helps, and the session.                            *)
(***************************************************************************)
LEMMA CrashKeeps ==
  ASSUME Inv, NEW w \in Worker, Crash(w)
  PROVE  Inv'
<1>1. spent' \in SpentRow /\ spent'.splits = spent.splits
  BY DEF Crash, Inv, StoreInv, Tables, SpentRow
<1>2. StoreInv' /\ NoneVanishes
  BY <1>1, StoreUnchanged DEF Crash, Inv, NoneVanishes
<1> QED BY <1>2, WorkerStarts DEF Crash, Inv

LEMMA FaultKeeps ==
  ASSUME Inv, NEW w \in Worker, Fault(w)
  PROVE  Inv'
<1>1. spent' \in SpentRow /\ spent'.splits = spent.splits
  BY DEF Fault, Inv, StoreInv, Tables, SpentRow
<1>2. StoreInv' /\ NoneVanishes
  BY <1>1, StoreUnchanged DEF Fault, Inv, NoneVanishes
<1> QED BY <1>2, WorkerThrows DEF Fault, Inv

LEMMA TimePassesKeeps ==
  ASSUME Inv, NEW o \in Op, TimePasses(o)
  PROVE  Inv'
<1> DEFINE row == [op[o] EXCEPT !.due = TRUE]
           held == \E w \in Worker : Owns(w) /\ worker[w].op = o
           overran == IF held THEN 1 ELSE 0
           probed == IF op[o].state = "blocked" THEN 1 ELSE 0
<1>1. op \in [Op -> OpRow] /\ spent \in SpentRow
  BY DEF Inv, StoreInv, Tables
<1>2. op[o].state \in {"processing", "retrying", "blocked"}
  BY DEF TimePasses
<1>3. row \in OpRow /\ row.state = op[o].state /\ row.by = op[o].by
  BY <1>1 DEF OpRow
<1>4. op' = [op EXCEPT ![o] = row]
  BY <1>1 DEF TimePasses
<1>5. OpsTyped' /\ OpsKept /\ NoneVanishes
  BY <1>2, <1>3, <1>4, OpRewritten DEF Inv, StoreInv, OpsAgree
<1> DEFINE overruns == spent.overruns + overran
           help == spent.help + probed
<1>6. overruns \in Nat /\ help \in Nat
  BY <1>1 DEF SpentRow
<1>7. spent' = [spent EXCEPT !.overruns = overruns, !.help = help]
  BY <1>1 DEF TimePasses, SpentRow
<1> HIDE DEF overruns, help
<1>8. spent' \in SpentRow /\ spent'.splits = spent.splits
  BY <1>1, <1>6, <1>7 DEF SpentRow
<1>9. StoreInv'
  BY <1>5, <1>8, OpsChange DEF TimePasses, Inv
<1> QED BY <1>5, <1>9, WorkersStay DEF TimePasses, Inv

LEMMA RetryKeeps ==
  ASSUME Inv, NEW o \in Op, Retry(o)
  PROVE  Inv'
<1> DEFINE row == [op[o] EXCEPT !.state = "pending", !.due = FALSE, !.tries = 0]
<1>1. op \in [Op -> OpRow] /\ spent \in SpentRow
  BY DEF Inv, StoreInv, Tables
<1>2. op[o].state \in {"blocked", "retrying"} /\ op[o].by = NoWorker
  BY DEF Retry, Inv, StoreInv, OpsAgree
<1>3. row \in OpRow /\ row.state = "pending" /\ row.by = NoWorker
  <2>1. 0 \in 0..FastRetries + 1
    BY Constants
  <2> QED BY <1>1, <1>2, <2>1 DEF OpRow, OpState, Live
<1>4. op' = [op EXCEPT ![o] = row]
  BY <1>1 DEF Retry
<1>5. OpsTyped' /\ OpsKept /\ NoneVanishes
  BY <1>2, <1>3, <1>4, OpRewritten DEF Inv
<1>6. spent' \in SpentRow /\ spent'.splits = spent.splits
  BY <1>1 DEF Retry, SpentRow
<1>7. StoreInv'
  BY <1>5, <1>6, OpsChange DEF Retry, Inv
<1> QED BY <1>5, <1>7, WorkersStay DEF Retry, Inv

LEMMA CaptureKeeps ==
  ASSUME Inv, NEW e \in Event, NEW kind \in {"content", "end"}, NEW turn \in Turn,
         Capture(e, kind, turn)
  PROVE  Inv'
<1> DEFINE row == [event[e] EXCEPT !.kind = kind, !.turn = turn]
<1>1. event \in [Event -> EventRow] /\ event' = [event EXCEPT ![e] = row]
  BY DEF Capture, Inv, StoreInv, Tables
<1>2. row \in EventRow /\ row.batch = event[e].batch
  BY <1>1 DEF EventRow
<1>3. event' \in [Event -> EventRow] /\ \A d \in Event : event'[d].batch = event[d].batch
  BY <1>1, <1>2
<1>4. Tables' /\ SameShape /\ OpsKept /\ NoneVanishes
  BY <1>3 DEF Capture, Inv, StoreInv, Tables, SameShape, OpsKept, NoneVanishes, OpsAgree
<1> QED BY <1>4, StoreKept, WorkersStay DEF Capture, Inv


-----------------------------------------------------------------------------
(***************************************************************************)
(* Assign: the new Batch takes only events that had none.                   *)
(***************************************************************************)
LEMMA AssignsNewBatch ==
  ASSUME Inv, NEW w \in Worker, worker[w].at = "assign", StillAvailable(worker[w].selected)
  PROVE  /\ worker[w].selected # {} /\ worker[w].selected \subseteq Event
         /\ \A e \in worker[w].selected : event[e].batch = 0
         /\ NextBatch \in Batch /\ NextBatch # 0
         /\ batch[NextBatch].state = "absent" /\ op[NextBatch].state = "absent"
         /\ Made \cup {NextBatch} = 1..NextBatch
<1>1. worker[w].selected # {}
  BY DEF Inv, InPlace, AtPlace
<1>2. /\ worker[w].selected \subseteq Event
      /\ \A e \in worker[w].selected : event[e].batch = 0
  BY DEF StillAvailable, Unassigned
<1>3. PICK e \in Event : event[e].batch = 0
  BY <1>1, <1>2
<1>4. ASSUME NEW b \in Batches PROVE \E d \in EventsOf(b) : d # e
  <2>1. b # 0 /\ EventsOf(b) # {}
    BY Constants DEF Inv, StoreInv, Filled, Batches
  <2> QED BY <1>3, <2>1 DEF EventsOf
<1>5. NextBatch \in Batch
  BY <1>3, <1>4, RoomForNext DEF Inv
<1>6. NextBatch \in Nat \ {0} /\ Made = 1..(NextBatch - 1)
  BY NextIsNew DEF Inv
<1>7. NextBatch \notin Made
  BY <1>6
<1>8. batch[NextBatch].state = "absent" /\ op[NextBatch].state = "absent"
  BY <1>5, <1>7 DEF Made, Inv, StoreInv, OpsAgree
<1>9. Made \cup {NextBatch} = 1..NextBatch
  BY <1>6
<1> QED BY <1>1, <1>2, <1>5, <1>6, <1>8, <1>9

LEMMA AssignKeeps ==
  ASSUME Inv, NEW w \in Worker, Assign(w)
  PROVE  Inv'
<1> DEFINE s == worker[w].selected
           lifecycleOnly == LifecycleOnly(s)
           m == [worker[w] EXCEPT !.at = "queue", !.selected = {}]
           n == NextBatch
<1>1. worker[w] \in WorkerRow /\ AtPlace(worker[w]) /\ worker \in [Worker -> WorkerRow]
  BY DEF Inv, InPlace
<1>2. m \in WorkerRow /\ m.at = "queue" /\ m.op = worker[w].op
  BY <1>1 DEF WorkerRow, Place
<1>3. AtPlace(m)
  BY <1>1, <1>2 DEF AtPlace, BatchPlaces, RangePlaces
<1>4. worker' = [worker EXCEPT ![w] = m]
  BY <1>1 DEF Assign
<1>5. CASE UNCHANGED <<event, batch, op>>
  <2>1. StoreInv' /\ NoneVanishes
    BY <1>5, ReadOnly DEF Assign, Inv, store
  <2> QED BY <1>2, <1>3, <1>4, <2>1, WorkerMoves DEF Inv
<1>6. CASE
     /\ StillAvailable(s)
     /\ event' = [e \in Event |-> IF e \in s
             THEN [event[e] EXCEPT !.batch = NextBatch, !.done = lifecycleOnly] ELSE event[e]]
     /\ batch' = [batch EXCEPT ![NextBatch].state =
                        IF lifecycleOnly THEN "completed" ELSE "queued"]
     /\ op' = [op EXCEPT ![NextBatch].state =
                     IF lifecycleOnly THEN "completed" ELSE "pending"]
  <2> DEFINE bs == IF lifecycleOnly THEN "completed" ELSE "queued"
             os == IF lifecycleOnly THEN "completed" ELSE "pending"
             brow == [batch[n] EXCEPT !.state = bs]
             orow == [op[n] EXCEPT !.state = os]
  <2>1. /\ s # {} /\ s \subseteq Event /\ \A e \in s : event[e].batch = 0
        /\ n \in Batch /\ n # 0 /\ batch[n].state = "absent" /\ op[n].state = "absent"
        /\ Made \cup {n} = 1..n
    BY <1>6, AssignsNewBatch DEF Assign
  <2>2. /\ event \in [Event -> EventRow] /\ batch \in [Batch -> BatchRow]
        /\ op \in [Op -> OpRow] /\ n \in Op
        /\ UNCHANGED <<range, cons, cursor, ingested, spent>>
    BY <2>1 DEF Inv, StoreInv, Tables, Op, Assign
  <2>3. bs \in {"completed", "queued"} /\ os \in {"completed", "pending"}
    OBVIOUS
  <2>4. lifecycleOnly \in BOOLEAN
    BY DEF LifecycleOnly
  <2>5. batch' = [batch EXCEPT ![n] = brow] /\ op' = [op EXCEPT ![n] = orow]
    BY <1>6, <2>1, <2>2
  <2> HIDE DEF bs, os
  <2>6. event' = [e \in Event |-> IF e \in s
             THEN [event[e] EXCEPT !.batch = n, !.done = lifecycleOnly] ELSE event[e]]
    BY <1>6
  <2> HIDE DEF n, lifecycleOnly
  <2>7. brow \in BatchRow /\ brow.state = bs /\ brow.split = batch[n].split
    BY <2>1, <2>2, <2>3 DEF BatchRow, BatchState
  <2>8. orow \in OpRow /\ orow.state = os /\ orow.by = op[n].by
    BY <2>1, <2>2, <2>3 DEF OpRow, OpState, Live
  <2>9. /\ event' \in [Event -> EventRow]
        /\ \A e \in Event : event'[e].batch = IF e \in s THEN n ELSE event[e].batch
    <3>1. ASSUME NEW e \in Event
          PROVE  event'[e] \in EventRow /\ event'[e].batch = IF e \in s THEN n ELSE event[e].batch
      BY <2>1, <2>2, <2>4, <2>6 DEF EventRow
    <3> QED BY <2>6, <3>1
  <2>10. batch' \in [Batch -> BatchRow] /\ op' \in [Op -> OpRow]
    BY <2>1, <2>2, <2>5, <2>7, <2>8
  <2>11. /\ \A b \in Batch : (b # n => batch'[b] = batch[b]) /\ batch'[n] = brow
         /\ \A o \in Op : (o # n => op'[o] = op[o]) /\ op'[n] = orow
    BY <2>1, <2>2, <2>5
  <2>12. Tables'
    BY <2>2, <2>9, <2>10 DEF Tables, Inv, StoreInv
  <2> HIDE DEF brow, orow
  <2>13. OpsAgree' /\ NoneVanishes
    <3>1. ASSUME NEW b \in Batch
          PROVE  /\ batch'[b].state = "absent" <=> b # n /\ batch[b].state = "absent"
                 /\ batch'[b].split = batch[b].split
      BY <2>3, <2>7, <2>11
    <3>2. ASSUME NEW o \in Op
          PROVE  /\ op'[o].state = "absent" <=> o # n /\ op[o].state = "absent"
                 /\ op'[o].state = "dead_letter" => op[o].state = "dead_letter"
                 /\ op'[o].state = "processing" <=> op[o].state = "processing"
                 /\ op'[o].by = op[o].by
      BY <2>1, <2>3, <2>8, <2>11
    <3> QED BY <3>1, <3>2 DEF OpsAgree, NoneVanishes, Inv, StoreInv, Op
  <2>14. Made' = Made \cup {n} /\ SplitUp' = SplitUp
    <3>1. ASSUME NEW b \in Batch
          PROVE  /\ batch'[b].state # "absent" <=> b = n \/ batch[b].state # "absent"
                 /\ batch'[b].split = batch[b].split
      BY <2>3, <2>7, <2>11
    <3> QED BY <2>1, <3>1 DEF Made, SplitUp
  <2>15. n \notin SplitUp
    BY <2>1 DEF Inv, StoreInv, Filled, Made
  <2>16. Batches' = Batches \cup {n}
    BY <2>1, <2>3, <2>7, <2>11, <2>15 DEF Batches, SplitUp
  <2>17. Numbered'
    <3>1. n \in Nat
      BY <2>1, Constants
    <3>2. Made' = 1..n
      BY <2>1, <2>14
    <3>3. Cardinality(Made') = n
      BY <3>1, <3>2, FS_Interval
    <3> QED BY <3>2, <3>3 DEF Numbered
  <2>18. Filled'
    <3>1. ASSUME NEW e \in Event, event'[e].batch # 0 PROVE event'[e].batch \in Batches'
      BY <2>9, <2>16, <3>1 DEF Inv, StoreInv, Filled
    <3>2. ASSUME NEW b \in Batches' PROVE EventsOf(b)' # {}
      <4>1. CASE b = n
        BY <2>1, <2>9, <4>1 DEF EventsOf
      <4>2. CASE b # n
        <5>1. b \in Batches /\ b # 0
          BY <2>16, <4>2, Constants DEF Batches
        <5>2. PICK e \in EventsOf(b) : TRUE
          BY <5>1 DEF Inv, StoreInv, Filled
        <5>3. e \in Event /\ event[e].batch = b /\ e \notin s
          BY <2>1, <5>1, <5>2 DEF EventsOf
        <5>4. event'[e].batch = b
          BY <2>9, <5>3
        <5> QED BY <5>3, <5>4 DEF EventsOf
      <4> QED BY <4>1, <4>2
    <3>3. /\ SplitUp' \subseteq Made'
          /\ Cardinality(SplitUp') <= spent'.splits /\ spent'.splits <= MaxSplits
      BY <2>2, <2>14 DEF Inv, StoreInv, Filled
    <3> QED BY <3>1, <3>2, <3>3 DEF Filled
  <2> QED BY <1>2, <1>3, <1>4, <2>12, <2>13, <2>17, <2>18, WorkerMoves DEF Inv, StoreInv
<1> QED BY <1>5, <1>6 DEF Assign


-----------------------------------------------------------------------------
(***************************************************************************)
(* Split: both children get events of the Batch that is given up.           *)
(***************************************************************************)
LEMMA SplitsNewBatches ==
  ASSUME Inv, NEW w \in Worker, NEW at \in Event, Split(w, at)
  PROVE  LET b == worker[w].op
             p == NextBatch
         IN  /\ b \in Batches /\ b # 0 /\ b # p /\ b # p + 1 /\ b \in Made
             /\ p \in Batch /\ p + 1 \in Batch
             /\ \A c \in {p, p + 1} : batch[c].state = "absent" /\ op[c].state = "absent"
             /\ Made \cup {p, p + 1} = 1..(p + 1)
             /\ \E e \in EventsOf(b) : e <= at
             /\ \E e \in EventsOf(b) : ~(e <= at)
<1> DEFINE b == worker[w].op
           p == NextBatch
<1>1. b \in Batch /\ b # 0 /\ op[b].state # "absent"
  BY Constants DEF Split, Inv, InPlace, AtPlace, BatchPlaces
<1>2. b \in Batches /\ b \in Made
  BY <1>1 DEF Split, Batches, Made, Inv, StoreInv, OpsAgree
<1>3. (\E e \in EventsOf(b) : e <= at) /\ (\E e \in EventsOf(b) : ~(e <= at))
  BY DEF Split
<1>4. PICK e \in EventsOf(b) : e <= at
  BY <1>3
<1>5. e \in Event /\ event[e].batch = b
  BY <1>4 DEF EventsOf
<1>6. ASSUME NEW c \in Batches PROVE \E d \in EventsOf(c) : d # e
  <2>1. CASE c = b
    BY <1>3, <1>4, <2>1
  <2>2. CASE c # b
    <3>1. EventsOf(c) # {}
      BY DEF Inv, StoreInv, Filled
    <3> QED BY <1>5, <2>2, <3>1 DEF EventsOf
  <2> QED BY <2>1, <2>2
<1>7. p \in Batch /\ p + 1 \in Batch
  BY <1>5, <1>6, RoomForNext DEF Inv, Split
<1>8. p \in Nat \ {0} /\ Made = 1..(p - 1)
  BY NextIsNew DEF Inv
<1>9. p \notin Made /\ p + 1 \notin Made
  BY <1>8
<1>10. \A c \in {p, p + 1} : batch[c].state = "absent" /\ op[c].state = "absent"
  BY <1>7, <1>9 DEF Made, Inv, StoreInv, OpsAgree
<1>11. Made \cup {p, p + 1} = 1..(p + 1)
  BY <1>8
<1> QED BY <1>1, <1>2, <1>3, <1>7, <1>9, <1>10, <1>11

LEMMA SplitKeeps ==
  ASSUME Inv, NEW w \in Worker, NEW at \in Event, Split(w, at)
  PROVE  Inv'
<1> DEFINE b == worker[w].op
           p == NextBatch
           q == NextBatch + 1
           given == op[b].state \in {"retrying", "blocked"}
<1>1. /\ b \in Batches /\ b # 0 /\ b # p /\ b # q /\ b \in Made
      /\ p \in Batch /\ q \in Batch
      /\ \A c \in {p, q} : batch[c].state = "absent" /\ op[c].state = "absent"
      /\ Made \cup {p, q} = 1..q
      /\ \E e \in EventsOf(b) : e <= at
      /\ \E e \in EventsOf(b) : ~(e <= at)
  BY SplitsNewBatches
<1>2. /\ event \in [Event -> EventRow] /\ batch \in [Batch -> BatchRow]
      /\ op \in [Op -> OpRow] /\ spent \in SpentRow
      /\ UNCHANGED <<range, cons, cursor, ingested>>
  BY DEF Inv, StoreInv, Tables, Split
<1>3. event' = [e \in Event |-> IF event[e].batch = b
        THEN [event[e] EXCEPT !.batch = IF e <= at THEN p ELSE q] ELSE event[e]]
  BY DEF Split, ChildOf
<1>4. batch' = [c \in Batch |->
        IF c = b THEN [batch[b] EXCEPT !.state = "blocked", !.split = TRUE]
        ELSE IF c \in {p, q} THEN [batch[c] EXCEPT !.state = "queued"] ELSE batch[c]]
  BY DEF Split
<1>5. op' = [o \in Op |->
        IF o = b /\ given THEN [op[b] EXCEPT !.state = "dead_letter", !.due = FALSE]
        ELSE IF o \in {p, q} THEN Owned ELSE op[o]]
  BY DEF Split, GivenUp
<1>6. spent' = [spent EXCEPT !.splits = @ + 1] /\ spent.splits < MaxSplits
      /\ worker' = [worker EXCEPT ![w] = Start]
  BY DEF Split
<1>7. b \in Batch /\ ~batch[b].split /\ b \in Op /\ p \in Op /\ q \in Op /\ p # q
  BY <1>1, Constants DEF Batches, Op
<1> HIDE DEF b, p, q, given
<1>8. Owned \in OpRow /\ Owned.state = "pending" /\ Owned.by = NoWorker
  BY Constants DEF Owned, OpRow, OpState, Live
<1>9. ASSUME NEW e \in Event
      PROVE  /\ event'[e] \in EventRow
             /\ event'[e].batch = IF event[e].batch = b THEN (IF e <= at THEN p ELSE q)
                                  ELSE event[e].batch
  BY <1>1, <1>2, <1>3 DEF EventRow
<1>10. ASSUME NEW c \in Batch
       PROVE  /\ batch'[c] \in BatchRow
              /\ batch'[c].state = "absent" <=> c \notin {p, q} /\ batch[c].state = "absent"
              /\ batch'[c].split <=> c = b \/ batch[c].split
  <2>1. b \in Batch /\ batch[b].state # "absent"
    BY <1>1, <1>7 DEF Made
  <2> QED BY <1>1, <1>2, <1>4, <1>7, <2>1 DEF BatchRow, BatchState
<1>11. ASSUME NEW o \in Op
       PROVE  /\ op'[o] \in OpRow
              /\ op'[o].state = "absent" <=> o \notin {p, q} /\ op[o].state = "absent"
              /\ op'[o].state = "dead_letter" => o = b \/ op[o].state = "dead_letter"
              /\ op'[o].by # NoWorker <=> op'[o].state = "processing"
  <2>1. op[o].by # NoWorker <=> op[o].state = "processing"
    BY DEF Inv, StoreInv, OpsAgree
  <2>2. CASE o = b /\ given
    BY <1>1, <1>2, <1>5, <1>7, <2>1, <2>2 DEF OpRow, OpState, given
  <2>3. CASE o \in {p, q}
    BY <1>1, <1>5, <1>8, <2>3
  <2>4. CASE ~(o = b /\ given) /\ o \notin {p, q}
    BY <1>2, <1>5, <2>1, <2>4
  <2> QED BY <2>2, <2>3, <2>4
<1>12. spent' \in SpentRow /\ spent'.splits = spent.splits + 1 /\ spent'.splits <= MaxSplits
  BY <1>2, <1>6, Constants DEF SpentRow
<1>13. Tables'
  <2>1. event' \in [Event -> EventRow] /\ batch' \in [Batch -> BatchRow] /\ op' \in [Op -> OpRow]
    BY <1>3, <1>4, <1>5, <1>9, <1>10, <1>11
  <2> QED BY <1>2, <1>12, <2>1 DEF Tables, Inv, StoreInv
<1>14. OpsAgree' /\ NoneVanishes
  BY <1>7, <1>10, <1>11 DEF OpsAgree, NoneVanishes, Inv, StoreInv, Op
<1>15. Made' = Made \cup {p, q} /\ SplitUp' = SplitUp \cup {b}
  BY <1>1, <1>7, <1>10 DEF Made, SplitUp
<1>16. p \notin SplitUp /\ q \notin SplitUp /\ b \notin SplitUp
  BY <1>1, <1>7 DEF Inv, StoreInv, Filled, Made, SplitUp
<1>17. Batches' = (Batches \ {b}) \cup {p, q}
  BY <1>1, <1>7, <1>10, <1>16 DEF Batches, SplitUp
<1>18. Numbered'
  <2>1. q \in Nat
    BY <1>1, Constants
  <2>2. Made' = 1..q
    BY <1>1, <1>15
  <2>3. Cardinality(Made') = q
    BY <2>1, <2>2, FS_Interval
  <2> QED BY <2>2, <2>3 DEF Numbered
<1>19. Cardinality(SplitUp') <= spent'.splits
  <2>1. IsFiniteSet(SplitUp)
    BY Constants, FS_Subset DEF SplitUp
  <2>2. Cardinality(SplitUp') = Cardinality(SplitUp) + 1 /\ Cardinality(SplitUp) \in Nat
    BY <1>15, <1>16, <2>1, FS_AddElement, FS_CardinalityType
  <2>3. Cardinality(SplitUp) <= spent.splits /\ spent.splits \in Nat
    BY <1>2 DEF Inv, StoreInv, Filled, SpentRow
  <2> QED BY <1>12, <2>2, <2>3
<1>20. Filled'
  <2>1. ASSUME NEW e \in Event, event'[e].batch # 0 PROVE event'[e].batch \in Batches'
    BY <1>9, <1>17, <2>1 DEF Inv, StoreInv, Filled
  <2>2. ASSUME NEW c \in Batches' PROVE EventsOf(c)' # {}
    <3>1. CASE c = p
      <4>1. PICK e \in EventsOf(b) : e <= at
        BY <1>1
      <4> QED BY <1>9, <3>1, <4>1 DEF EventsOf
    <3>2. CASE c = q
      <4>1. PICK e \in EventsOf(b) : ~(e <= at)
        BY <1>1
      <4> QED BY <1>9, <3>2, <4>1 DEF EventsOf
    <3>3. CASE c # p /\ c # q
      <4>1. c \in Batches /\ c # b
        BY <1>17, <3>3
      <4>2. PICK e \in EventsOf(c) : TRUE
        BY <4>1 DEF Inv, StoreInv, Filled
      <4> QED BY <1>9, <4>1, <4>2 DEF EventsOf
    <3> QED BY <3>1, <3>2, <3>3
  <2>3. SplitUp' \subseteq Made'
    BY <1>1, <1>15 DEF Inv, StoreInv, Filled
  <2> QED BY <1>12, <1>19, <2>1, <2>2, <2>3 DEF Filled
<1> QED BY <1>6, <1>13, <1>14, <1>18, <1>20, WorkerStarts DEF Inv, StoreInv


-----------------------------------------------------------------------------
(***************************************************************************)
(* The invariant of the pipeline.                                           *)
(***************************************************************************)
LEMMA InitKeeps ==
  ASSUME Init
  PROVE  Inv
<1>1. (CHOOSE t \in Turn : TRUE) \in Turn
  BY Constants
<1>2. Tables
  <2>1. event \in [Event -> EventRow]
    BY <1>1 DEF Init, EventRow
  <2>2. batch \in [Batch -> BatchRow]
    BY DEF Init, BatchRow, BatchState
  <2>3. op \in [Op -> OpRow]
    <3>1. 0 \in 0..FastRetries + 1
      BY Constants
    <3>2. [Owned EXCEPT !.state = "absent"] \in OpRow
      BY <3>1 DEF Owned, OpRow, OpState
    <3> QED BY <3>2 DEF Init
  <2>4. range \in [Ranges -> RangeRow]
    BY DEF Init, NoRange, RangeRow
  <2>5. cons \in ConsRow /\ cursor \in CursorRow /\ ingested \subseteq Batch /\ spent \in SpentRow
    BY DEF Init, ConsRow, CursorRow, SpentRow, NoResult, BatchState
  <2> QED BY <2>1, <2>2, <2>3, <2>4, <2>5 DEF Tables
<1>3. Made = {} /\ SplitUp = {} /\ Batches = {}
  BY DEF Init, Made, SplitUp, Batches
<1>4. Numbered
  <2>1. Cardinality(Made) = 0
    BY <1>3, FS_EmptySet
  <2> QED BY <1>3, <2>1 DEF Numbered
<1>5. Filled
  <2>1. Cardinality(SplitUp) = 0
    BY <1>3, FS_EmptySet
  <2> QED BY <1>3, <2>1, Constants DEF Filled, Init
<1>6. OpsAgree
  BY DEF OpsAgree, Init, Owned, Op
<1>7. InPlace
  <2>1. Start \in WorkerRow /\ AtPlace(Start)
    BY DEF Start, WorkerRow, AtPlace, Place, BatchPlaces, RangePlaces
  <2> QED BY <2>1 DEF InPlace, Init
<1> QED BY <1>2, <1>4, <1>5, <1>6, <1>7 DEF Inv, StoreInv

LEMMA StutterKeeps ==
  ASSUME Inv, UNCHANGED vars
  PROVE  Inv'
<1>1. StoreInv' /\ NoneVanishes
  BY ReadOnly DEF vars, store, Inv
<1> QED BY <1>1, WorkersStay DEF vars, Inv

LEMMA NextKeeps ==
  ASSUME Inv, [Next]_vars
  PROVE  Inv'
<1>1. ASSUME NEW w \in Worker, Step(w) PROVE Inv'
  <2>1. ASSUME NEW category \in {"model", "schema_invalid"}, ModelFails(w, category)
        PROVE  Inv'
    BY <2>1, ModelFailsKeeps
  <2>2. ASSUME NEW at \in Event, Split(w, at) PROVE Inv'
    BY <2>2, SplitKeeps
  <2>3. CASE \/ Recover(w) \/ Select(w) \/ Assign(w) \/ Poll(w) \/ Claim(w) \/ Bind(w)
             \/ Mark(w) \/ Distill(w) \/ Persist(w) \/ Finalize(w) \/ QueueAfterBatch(w)
    BY <2>3, RecoverKeeps, SelectKeeps, AssignKeeps, PollKeeps, ClaimKeeps, BindKeeps,
       MarkKeeps, DistillKeeps, PersistKeeps, FinalizeKeeps, QueueAfterBatchKeeps
  <2>4. CASE \/ IngestBatch(w) \/ AdvanceCursor(w) \/ Load(w) \/ Consolidate(w)
             \/ Checkpoint(w) \/ IngestPages(w) \/ Finish(w) \/ Complete(w)
             \/ FailOperation(w) \/ Mirror(w) \/ NotSplit(w)
    BY <2>4, IngestBatchKeeps, AdvanceCursorKeeps, LoadKeeps, ConsolidateKeeps,
       CheckpointKeeps, IngestPagesKeeps, FinishKeeps, CompleteKeeps, FailOperationKeeps,
       MirrorKeeps, NotSplitKeeps
  <2> QED BY <1>1, <2>1, <2>2, <2>3, <2>4 DEF Step
<1>2. ASSUME NEW w \in Worker, Crash(w) \/ Fault(w) PROVE Inv'
  BY <1>2, CrashKeeps, FaultKeeps
<1>3. ASSUME NEW e \in Event, NEW kind \in {"content", "end"}, NEW turn \in Turn,
             Capture(e, kind, turn)
      PROVE  Inv'
  BY <1>3, CaptureKeeps
<1>4. ASSUME NEW o \in Op, TimePasses(o) \/ Retry(o) PROVE Inv'
  BY <1>4, TimePassesKeeps, RetryKeeps
<1>5. CASE UNCHANGED vars
  BY <1>5, StutterKeeps
<1> QED BY <1>1, <1>2, <1>3, <1>4, <1>5 DEF Next

(***************************************************************************)
(* The invariant of the pipeline's tables and Workers: Batches are numbered *)
(* without a gap, each that was not split has an event, a Batch has its     *)
(* operation from the beginning, only the operation of a split Batch is     *)
(* given up, and an operation names a Worker exactly while it is leased.    *)
(***************************************************************************)
THEOREM PipelineInvariant == Spec => []Inv
<1>1. Init => Inv
  BY InitKeeps
<1>2. Inv /\ [Next]_vars => Inv'
  BY NextKeeps
<1> QED BY <1>1, <1>2, PTL DEF Spec

(***************************************************************************)
(* Every table keeps its type; no Batch gets a number there is no room for. *)
(***************************************************************************)
THEOREM DistillationTypes == Spec => []TypeOK
<1>1. Inv => TypeOK
  <2> SUFFICES ASSUME Inv PROVE TypeOK
    OBVIOUS
  <2>1. /\ event \in [Event -> EventRow] /\ batch \in [Batch -> BatchRow]
        /\ op \in [Op -> OpRow] /\ range \in [Ranges -> RangeRow]
        /\ cons \in ConsRow /\ cursor \in CursorRow /\ ingested \subseteq Batch
    BY DEF Inv, StoreInv, Tables
  <2>2. /\ cons.op \in Ranges \cup {0} /\ cons.state \in BatchState
        /\ cons.result.kind \in {"null", "checkpoint", "final"}
        /\ cons.result.input \subseteq Batch \X Nat
    BY <2>1 DEF ConsRow
  <2>3. ASSUME NEW w \in Worker
        PROVE  /\ worker[w].at \in Place /\ worker[w].op \in Op \cup {0}
               /\ worker[w].selected \subseteq Event
    BY DEF Inv, InPlace, WorkerRow
  <2> QED BY <2>1, <2>2, <2>3
          DEF TypeOK, EventRow, BatchRow, OpRow, OpState, RangeRow, CursorRow
<1> QED BY <1>1, PipelineInvariant, PTL

(***************************************************************************)
(* No event is left behind in a Batch that nobody will distill: the split   *)
(* of a Batch (distillation.ts:1070) moves every event of it, also when a   *)
(* lease ran out and another Worker holds the Batch by then.                *)
(***************************************************************************)
THEOREM NoEventStrandedAlways == Spec => []NoEventStranded
<1>1. Inv => NoEventStranded
  <2> SUFFICES ASSUME Inv, NEW e \in Event, event[e].batch # 0
               PROVE  /\ event[e].batch \in Batches
                      /\ op[event[e].batch].state # "dead_letter"
    BY DEF NoEventStranded
  <2>1. event[e].batch \in Batches
    BY DEF Inv, StoreInv, Filled
  <2>2. event[e].batch \in Op /\ ~batch[event[e].batch].split
    BY <2>1 DEF Batches, Op
  <2> QED BY <2>1, <2>2 DEF Inv, StoreInv, OpsAgree
<1> QED BY <1>1, PipelineInvariant, PTL


-----------------------------------------------------------------------------
(***************************************************************************)
(* An event changes its Batch only when the Batch is split.                 *)
(***************************************************************************)
OnlySplitsMove ==
  \A e \in Event : event[e].batch # 0 /\ event'[e].batch # event[e].batch =>
    batch'[event[e].batch].split

LEMMA BatchesHeld ==
  ASSUME \A e \in Event : event'[e].batch = event[e].batch
  PROVE  OnlySplitsMove
BY DEF OnlySplitsMove

LEMMA AssignMovesNone ==
  ASSUME Inv, NEW w \in Worker, Assign(w)
  PROVE  OnlySplitsMove
<1>1. event \in [Event -> EventRow]
  BY DEF Inv, StoreInv, Tables
<1>2. CASE UNCHANGED event
  BY <1>2, BatchesHeld
<1>3. CASE StillAvailable(worker[w].selected) /\ event' = [e \in Event |->
             IF e \in worker[w].selected
             THEN [event[e] EXCEPT !.batch = NextBatch,
                                   !.done = LifecycleOnly(worker[w].selected)]
             ELSE event[e]]
  <2>1. ASSUME NEW e \in Event, event[e].batch # 0 PROVE event'[e].batch = event[e].batch
    BY <1>3, <2>1 DEF StillAvailable, Unassigned
  <2> QED BY <2>1 DEF OnlySplitsMove
<1> QED BY <1>2, <1>3 DEF Assign

LEMMA SplitMovesOwn ==
  ASSUME Inv, NEW w \in Worker, NEW at \in Event, Split(w, at)
  PROVE  OnlySplitsMove
<1> DEFINE b == worker[w].op
<1>1. batch \in [Batch -> BatchRow]
  BY DEF Inv, StoreInv, Tables
<1>2. b \in Batch
  BY SplitsNewBatches DEF Batches
<1>3. batch'[b].split
  BY <1>1, <1>2 DEF Split, BatchRow
<1>4. ASSUME NEW e \in Event, event[e].batch # b PROVE event'[e].batch = event[e].batch
  BY <1>4 DEF Split
<1> QED BY <1>3, <1>4 DEF OnlySplitsMove

LEMMA OthersMoveNone ==
  ASSUME Inv, [Next]_vars,
         ~\E w \in Worker : Assign(w) \/ \E at \in Event : Split(w, at)
  PROVE  OnlySplitsMove
<1>1. event \in [Event -> EventRow]
  BY DEF Inv, StoreInv, Tables
<1>2. ASSUME NEW w \in Worker, Recover(w) PROVE OnlySplitsMove
  <2>1. \A e \in Event : event'[e].batch = event[e].batch
    <3>1. CASE UNCHANGED store
      BY <3>1 DEF store
    <3>2. CASE \E b \in Batch :
           event' = [e \in Event |-> [event[e] EXCEPT !.done = @ \/ event[e].batch = b]]
      BY <3>2, EventsDone DEF Inv
    <3> QED BY <1>2, <3>1, <3>2 DEF Recover
  <2> QED BY <2>1, BatchesHeld
<1>3. ASSUME NEW w \in Worker, Persist(w) PROVE OnlySplitsMove
  <2>1. worker[w].op \in Batch
    BY <1>3 DEF Persist, Inv, InPlace, AtPlace, BatchPlaces
  <2>2. \A e \in Event : event'[e].batch = event[e].batch
    BY <1>3, <2>1, EventsDone DEF Persist, Inv
  <2> QED BY <2>2, BatchesHeld
<1>4. ASSUME NEW w \in Worker,
             \/ Select(w) \/ Poll(w) \/ Claim(w) \/ Bind(w) \/ Mark(w) \/ Distill(w)
             \/ Finalize(w) \/ QueueAfterBatch(w)
      PROVE  OnlySplitsMove
  <2>1. UNCHANGED event
    BY <1>4 DEF Select, Poll, Claim, Bind, Mark, Distill, Finalize, QueueAfterBatch,
               QueueIfReady, QueueRange, store
  <2> QED BY <2>1, BatchesHeld
<1>5. ASSUME NEW w \in Worker,
             \/ IngestBatch(w) \/ AdvanceCursor(w) \/ Load(w) \/ Consolidate(w)
             \/ Checkpoint(w) \/ IngestPages(w) \/ Finish(w) \/ Complete(w)
             \/ FailOperation(w) \/ Mirror(w) \/ NotSplit(w) \/ Crash(w) \/ Fault(w)
             \/ \E category \in {"model", "schema_invalid"} : ModelFails(w, category)
      PROVE  OnlySplitsMove
  <2>1. UNCHANGED event
    BY <1>5 DEF IngestBatch, AdvanceCursor, Load, Consolidate, Checkpoint, IngestPages,
               Finish, Complete, FailOperation, Mirror, NotSplit, Crash, Fault, ModelFails,
               store
  <2> QED BY <2>1, BatchesHeld
<1>6. ASSUME NEW e \in Event, NEW kind \in {"content", "end"}, NEW turn \in Turn,
             Capture(e, kind, turn)
      PROVE  OnlySplitsMove
  <2>1. ASSUME NEW d \in Event PROVE event'[d].batch = event[d].batch
    BY <1>1, <1>6 DEF Capture, EventRow
  <2> QED BY <2>1, BatchesHeld
<1>7. ASSUME NEW o \in Op, TimePasses(o) \/ Retry(o) PROVE OnlySplitsMove
  BY <1>7, BatchesHeld DEF TimePasses, Retry
<1>8. CASE UNCHANGED vars
  BY <1>8, BatchesHeld DEF vars
<1> QED BY <1>2, <1>3, <1>4, <1>5, <1>6, <1>7, <1>8 DEF Next, Step

(***************************************************************************)
(* Two Workers that selected the same events do not both put them into a    *)
(* Batch: the transaction of the second looks again (distillation.ts), and  *)
(* from then on an event changes its Batch only when that Batch is split.   *)
(***************************************************************************)
THEOREM EventsAssignedOnceAlways == Spec => EventsAssignedOnce
<1>1. Inv /\ [Next]_vars => [OnlySplitsMove]_vars
  BY AssignMovesNone, SplitMovesOwn, OthersMoveNone
<1>2. Spec => [][OnlySplitsMove]_vars
  BY <1>1, PipelineInvariant, PTL DEF Spec
<1> QED BY <1>2 DEF EventsAssignedOnce, OnlySplitsMove


-----------------------------------------------------------------------------
(***************************************************************************)
(* Every step of the pipeline is a step of the leased queue or a stutter.   *)
(***************************************************************************)
OpChanges(o, s, by) ==
  /\ op'[o].state = s /\ op'[o].by = by
  /\ \A p \in Op \ {o} : op'[p].state = op[p].state /\ op'[p].by = op[p].by

LEMMA QueueStutters ==
  ASSUME \A o \in Op : op'[o].state = op[o].state /\ op'[o].by = op[o].by
  PROVE  UNCHANGED Queue!lqVars
BY DEF Queue!lqVars

LEMMA ChangesOne ==
  ASSUME NEW o \in Op, NEW s, NEW by, OpChanges(o, s, by)
  PROVE  /\ [p \in Op |-> op'[p].state] = [[p \in Op |-> op[p].state] EXCEPT ![o] = s]
         /\ [p \in Op |-> op'[p].by] = [[p \in Op |-> op[p].by] EXCEPT ![o] = by]
BY DEF OpChanges

LEMMA NewOpRefines ==
  ASSUME NEW o \in Op, NEW s \in {"pending", "completed"}, op[o].state = "absent",
         OpChanges(o, s, op[o].by)
  PROVE  Queue!LQNext
<1>1. Queue!Enqueue({o}, s)
  BY DEF Queue!Enqueue, OpChanges
<1>2. {o} \in SUBSET Op
  OBVIOUS
<1> QED BY <1>1, <1>2 DEF Queue!LQNext

LEMMA RecoverRefines ==
  ASSUME Inv, NEW w \in Worker, Recover(w)
  PROVE  [Queue!LQNext]_(Queue!lqVars)
<1>1. CASE UNCHANGED store
  BY <1>1, QueueStutters DEF store
<1>2. CASE \E b \in Batch : BlockedLifecycleOnly(b) /\ op' = Finished(b)
  <2>1. PICK b \in Batch : BlockedLifecycleOnly(b) /\ op' = Finished(b)
    BY <1>2
  <2>2. b \in Op /\ op[b].state = "blocked" /\ op[b].by = NoWorker /\ {b} \in SUBSET Op
    BY <2>1 DEF BlockedLifecycleOnly, Op, Inv, StoreInv, OpsAgree
  <2>3. OpChanges(b, "completed", op[b].by)
    BY <2>1, <2>2 DEF OpChanges, Finished, Inv, StoreInv, Tables, OpRow
  <2>4. Queue!Close({b})
    BY <2>2, <2>3 DEF Queue!Close, OpChanges
  <2> QED BY <2>2, <2>4 DEF Queue!LQNext
<1> QED BY <1>1, <1>2 DEF Recover

LEMMA AssignRefines ==
  ASSUME Inv, NEW w \in Worker, Assign(w)
  PROVE  [Queue!LQNext]_(Queue!lqVars)
<1>1. CASE UNCHANGED op
  BY <1>1, QueueStutters
<1>2. CASE /\ StillAvailable(worker[w].selected)
           /\ op' = [op EXCEPT ![NextBatch].state =
                IF LifecycleOnly(worker[w].selected) THEN "completed" ELSE "pending"]
  <2> DEFINE s == IF LifecycleOnly(worker[w].selected) THEN "completed" ELSE "pending"
  <2>1. NextBatch \in Op /\ op[NextBatch].state = "absent"
    BY <1>2, AssignsNewBatch DEF Assign, Op
  <2>2. s \in {"pending", "completed"} /\ op' = [op EXCEPT ![NextBatch].state = s]
    BY <1>2
  <2> HIDE DEF s
  <2>3. OpChanges(NextBatch, s, op[NextBatch].by)
    BY <2>1, <2>2 DEF OpChanges, Inv, StoreInv, Tables, OpRow
  <2> QED BY <2>1, <2>2, <2>3, NewOpRefines
<1> QED BY <1>1, <1>2 DEF Assign

LEMMA QueueIfReadyRefines ==
  ASSUME Inv, NEW w \in Worker, NEW next \in {"claim", "complete"}, QueueIfReady(w, next)
  PROVE  [Queue!LQNext]_(Queue!lqVars)
<1>1. CASE UNCHANGED store
  BY <1>1, QueueStutters DEF store
<1>2. CASE Ready /\ Unused # {} /\ QueueRange
  <2>1. NextRange \in Op /\ op[NextRange].state = "absent"
    BY <1>2, RangeIsNew DEF Op, Inv
  <2>2. op[NextRange].by = NoWorker
    BY <2>1 DEF Inv, StoreInv, OpsAgree
  <2>3. op' = [op EXCEPT ![NextRange] = Owned]
    BY <1>2 DEF QueueRange
  <2>4. OpChanges(NextRange, "pending", op[NextRange].by)
    BY <2>1, <2>2, <2>3 DEF OpChanges, Owned, Inv, StoreInv, Tables
  <2> QED BY <2>1, <2>4, NewOpRefines
<1> QED BY <1>1, <1>2 DEF QueueIfReady

LEMMA ClaimRefines ==
  ASSUME Inv, NEW w \in Worker, Claim(w)
  PROVE  [Queue!LQNext]_(Queue!lqVars)
<1>1. CASE UNCHANGED op
  BY <1>1, QueueStutters
<1>2. CASE \E o \in Op :
          /\ Selected(o)
          /\ op' = [op EXCEPT ![o].state = "processing", ![o].by = w, ![o].due = FALSE,
                               ![o].tries = IF @ > FastRetries THEN @ ELSE @ + 1]
  <2>1. PICK o \in Op :
          /\ Selected(o)
          /\ op' = [op EXCEPT ![o].state = "processing", ![o].by = w, ![o].due = FALSE,
                               ![o].tries = IF @ > FastRetries THEN @ ELSE @ + 1]
    BY <1>2
  <2>2. op[o].state \in {"pending", "processing", "retrying", "blocked"}
    BY <2>1 DEF Selected, Claimable
  <2>3. OpChanges(o, "processing", w)
    BY <2>1 DEF OpChanges, Inv, StoreInv, Tables, OpRow
  <2>4. Queue!Claim(w, o)
    BY <2>2, <2>3, ChangesOne DEF Queue!Claim
  <2> QED BY <2>4 DEF Queue!LQNext
<1> QED BY <1>1, <1>2 DEF Claim

LEMMA ReleaseRefines ==
  ASSUME Inv, NEW w \in Worker, NEW s \in {"completed", "retrying", "blocked"}, Owns(w),
         OpChanges(worker[w].op, s, NoWorker)
  PROVE  Queue!LQNext
<1>1. PICK o \in Op : o = worker[w].op
  BY OwnedOperation
<1>2. op[o].state = "processing" /\ op[o].by = w
  BY <1>1 DEF Owns
<1>3. /\ [p \in Op |-> op'[p].state] = [[p \in Op |-> op[p].state] EXCEPT ![o] = s]
      /\ [p \in Op |-> op'[p].by] = [[p \in Op |-> op[p].by] EXCEPT ![o] = NoWorker]
  BY <1>1, ChangesOne
<1>4. Queue!Release(w, o)
  BY <1>2, <1>3 DEF Queue!Release
<1> QED BY <1>4 DEF Queue!LQNext

LEMMA CompleteRefines ==
  ASSUME Inv, NEW w \in Worker, Complete(w)
  PROVE  [Queue!LQNext]_(Queue!lqVars)
<1>1. CASE UNCHANGED op
  BY <1>1, QueueStutters
<1>2. CASE Owns(w) /\ op' = Finished(worker[w].op)
  <2>1. OpChanges(worker[w].op, "completed", NoWorker)
    BY <1>2, OwnedOperation DEF OpChanges, Finished, Inv, StoreInv, Tables, OpRow
  <2> QED BY <1>2, <2>1, ReleaseRefines
<1> QED BY <1>1, <1>2 DEF Complete

LEMMA FailOperationRefines ==
  ASSUME Inv, NEW w \in Worker, FailOperation(w)
  PROVE  [Queue!LQNext]_(Queue!lqVars)
<1> DEFINE o == worker[w].op
<1>1. CASE UNCHANGED op
  BY <1>1, QueueStutters
<1>2. ASSUME NEW s \in {"retrying", "blocked"}, Owns(w),
             op' = [op EXCEPT ![o].state = s, ![o].by = NoWorker, ![o].due = FALSE,
                              ![o].local = (worker[w].category = "local")]
      PROVE  Queue!LQNext
  <2>1. OpChanges(o, s, NoWorker)
    BY <1>2, OwnedOperation DEF OpChanges, Inv, StoreInv, Tables, OpRow
  <2> QED BY <1>2, <2>1, ReleaseRefines
<1> QED BY <1>1, <1>2 DEF FailOperation

LEMMA SplitRefines ==
  ASSUME Inv, NEW w \in Worker, NEW at \in Event, Split(w, at)
  PROVE  Queue!LQNext
<1> DEFINE b == worker[w].op
           new == {NextBatch, NextBatch + 1}
<1>1. b \in Op /\ b \notin new /\ new \in SUBSET Op /\ \A c \in new : op[c].state = "absent"
  BY SplitsNewBatches DEF Batches, Op
<1>2. \A o \in Op : op[o].by # NoWorker <=> op[o].state = "processing"
  BY DEF Inv, StoreInv, OpsAgree
<1>3. op' = [o \in Op |->
        IF o = b /\ op[b].state \in {"retrying", "blocked"}
        THEN [op[b] EXCEPT !.state = "dead_letter", !.due = FALSE]
        ELSE IF o \in new THEN Owned ELSE op[o]]
  BY DEF Split, GivenUp
<1>4. op \in [Op -> OpRow] /\ Owned.state = "pending" /\ Owned.by = NoWorker
  BY DEF Inv, StoreInv, Tables, Owned
<1> HIDE DEF b, new
<1>5. \A o \in Op : op'[o].by = op[o].by
  BY <1>1, <1>2, <1>3, <1>4 DEF OpRow
<1>6. CASE op[b].state \in {"retrying", "blocked"}
  <2>1. \A o \in Op : op'[o].state = IF o = b THEN "dead_letter"
                                     ELSE IF o \in new THEN "pending" ELSE op[o].state
    BY <1>1, <1>3, <1>4, <1>6 DEF OpRow
  <2>2. PICK o \in Op : o = b
    BY <1>1
  <2>3. PICK some \in SUBSET Op : some = new
    BY <1>1
  <2>4. Queue!GiveUp(o, some)
    BY <1>1, <1>5, <1>6, <2>1, <2>2, <2>3 DEF Queue!GiveUp
  <2> QED BY <2>4 DEF Queue!LQNext
<1>7. CASE op[b].state \notin {"retrying", "blocked"}
  <2>1. \A o \in Op : op'[o].state = IF o \in new THEN "pending" ELSE op[o].state
    BY <1>1, <1>3, <1>4, <1>7 DEF OpRow
  <2>2. PICK some \in SUBSET Op : some = new
    BY <1>1
  <2>3. Queue!Enqueue(some, "pending")
    BY <1>1, <1>5, <2>1, <2>2 DEF Queue!Enqueue
  <2> QED BY <2>3 DEF Queue!LQNext
<1> QED BY <1>6, <1>7

LEMMA RetryRefines ==
  ASSUME Inv, NEW o \in Op, Retry(o)
  PROVE  Queue!LQNext
<1>1. op[o].state \in {"retrying", "blocked"} /\ {o} \in SUBSET Op
  BY DEF Retry
<1>2. OpChanges(o, "pending", op[o].by)
  BY DEF Retry, OpChanges, Inv, StoreInv, Tables, OpRow
<1>3. Queue!Requeue({o})
  BY <1>1, <1>2 DEF Queue!Requeue, OpChanges
<1> QED BY <1>1, <1>3 DEF Queue!LQNext

LEMMA TimePassesRefines ==
  ASSUME Inv, NEW o \in Op, TimePasses(o)
  PROVE  UNCHANGED Queue!lqVars
<1>1. \A p \in Op : op'[p].state = op[p].state /\ op'[p].by = op[p].by
  BY DEF TimePasses, Inv, StoreInv, Tables, OpRow
<1> QED BY <1>1, QueueStutters

LEMMA PipelineRefines ==
  ASSUME Inv, [Next]_vars
  PROVE  [Queue!LQNext]_(Queue!lqVars)
<1>1. ASSUME NEW w \in Worker,
             \/ Recover(w) \/ Assign(w) \/ Poll(w) \/ Claim(w) \/ QueueAfterBatch(w)
             \/ Complete(w) \/ FailOperation(w) \/ \E at \in Event : Split(w, at)
      PROVE  [Queue!LQNext]_(Queue!lqVars)
  <2>1. ASSUME Poll(w) \/ QueueAfterBatch(w) PROVE [Queue!LQNext]_(Queue!lqVars)
    BY <2>1, QueueIfReadyRefines DEF Poll, QueueAfterBatch
  <2> QED BY <1>1, <2>1, RecoverRefines, AssignRefines, ClaimRefines, CompleteRefines,
             FailOperationRefines, SplitRefines
<1>2. ASSUME NEW w \in Worker,
             \/ Select(w) \/ Bind(w) \/ Mark(w) \/ Distill(w) \/ Persist(w) \/ Finalize(w)
             \/ IngestBatch(w) \/ AdvanceCursor(w) \/ Load(w) \/ Consolidate(w)
             \/ Checkpoint(w) \/ IngestPages(w) \/ Finish(w) \/ Mirror(w) \/ NotSplit(w)
             \/ Crash(w) \/ Fault(w)
             \/ \E category \in {"model", "schema_invalid"} : ModelFails(w, category)
      PROVE  UNCHANGED Queue!lqVars
  <2>1. UNCHANGED op
    BY <1>2 DEF Select, Bind, Mark, Distill, Persist, Finalize, IngestBatch, AdvanceCursor,
               Load, Consolidate, Checkpoint, IngestPages, Finish, Mirror, NotSplit, Crash,
               Fault, ModelFails, store
  <2> QED BY <2>1, QueueStutters
<1>3. ASSUME NEW e \in Event, NEW kind \in {"content", "end"}, NEW turn \in Turn,
             Capture(e, kind, turn)
      PROVE  UNCHANGED Queue!lqVars
  BY <1>3, QueueStutters DEF Capture
<1>4. ASSUME NEW o \in Op, TimePasses(o) \/ Retry(o) PROVE [Queue!LQNext]_(Queue!lqVars)
  BY <1>4, TimePassesRefines, RetryRefines
<1>5. CASE UNCHANGED vars
  BY <1>5, QueueStutters DEF vars
<1> QED BY <1>1, <1>2, <1>3, <1>4, <1>5 DEF Next, Step

(***************************************************************************)
(* The pipeline keeps the promises of a leased queue, including for the     *)
(* operations it inserts (a Batch, a range, the halves of a split Batch)    *)
(* and closes or gives up outside the queue's own code: only the holder of  *)
(* a lease finishes an operation or reports its failure, and what is        *)
(* completed or given up is never taken up again.                           *)
(***************************************************************************)
THEOREM ImplementsLeaseQueueAlways == Spec => ImplementsLeaseQueue
<1>1. Init => Queue!LQInit
  BY DEF Init, Owned, Queue!LQInit
<1>2. Inv /\ [Next]_vars => [Queue!LQNext]_(Queue!lqVars)
  BY PipelineRefines
<1> QED BY <1>1, <1>2, PipelineInvariant, PTL DEF Spec, ImplementsLeaseQueue, Queue!LQSpec


-----------------------------------------------------------------------------
(***************************************************************************)
(* One Worker at a time, as runWorker means it: what follows holds then.    *)
(***************************************************************************)
OneAtATime == \A v, w \in Worker : v = w

Used(r) == op[r].state # "absent"
Unfinished == cons.op # 0 /\ cons.result.kind # "final"

(***************************************************************************)
(* Ranges are made in order, each of existing Batches; the cursor is at the  *)
(* end of a range, or of the only Batch; and a range that is not finished    *)
(* follows the cursor, or ends where it is.                                 *)
(***************************************************************************)
RangesOrdered ==
  /\ \A r \in Ranges : Used(r) =>
       /\ range[r].from # 0 /\ range[r].from <= range[r].through /\ range[r].through \in Made
  /\ \A r, s \in Ranges : Used(s) /\ r < s => Used(r)
  /\ RangesDisjoint

Passed(r) == range[r].through <= cursor.through /\ range[r].gen <= cursor.gen
Follows(r) == range[r].from = cursor.through + 1 /\ range[r].gen = cursor.gen + 1
Reached(r) == range[r].through = cursor.through /\ range[r].gen = cursor.gen

CursorKnown ==
  /\ cursor.through \in Made \cup {0} /\ (cursor.through = 0 => cursor.gen = 0)
  /\ cons.op = 0 => \A r \in Ranges : ~Used(r)
  /\ cons.op # 0 => Used(cons.op)
  /\ cons.state = "completed" => cons.result.kind = "final"
  /\ \A r \in Ranges : Used(r) /\ ~(Unfinished /\ r = cons.op) => Passed(r)
  /\ Unfinished => Follows(cons.op) \/ Reached(cons.op)

\* A split leaves two Batches at least.
TwoHalves == SplitUp # {} => \E b, c \in Batches : b # c

WorksOn(m) ==
  /\ m.at \in {"consolidate", "checkpoint", "pages", "finish"} => Unfinished /\ cons.op = m.op
  /\ m.at \in {"ingest", "cursor"} => Batches = {m.op}

RangeTables == RangesOrdered /\ CursorKnown /\ TwoHalves
AllWork == \A v \in Worker : WorksOn(worker[v])
RangeInv == RangeTables /\ AllWork

(***************************************************************************)
(* Where a step leaves its Worker.                                          *)
(***************************************************************************)
LEMMA GoesTo ==
  ASSUME InPlace, NEW w \in Worker, NEW at, Goto(w, at)
  PROVE  /\ worker'[w].at = at /\ worker'[w].op = worker[w].op
         /\ worker'[w].input = worker[w].input /\ worker'[w].selected = worker[w].selected
         /\ worker'[w].try = worker[w].try
BY DEF InPlace, WorkerRow, Goto

LEMMA ThrowsTo ==
  ASSUME InPlace, NEW w \in Worker, Throw(w)
  PROVE  \/ worker[w].try /\ worker'[w].at = "fail" /\ worker'[w].op = worker[w].op
         \/ ~worker[w].try /\ worker'[w] = Start
BY DEF InPlace, WorkerRow, Throw

LEMMA WorksElsewhere ==
  ASSUME OneAtATime, NEW w \in Worker,
         worker'[w].at \notin {"consolidate", "checkpoint", "pages", "finish", "ingest", "cursor"}
  PROVE  AllWork'
BY DEF OneAtATime, AllWork, WorksOn

LEMMA StartIsElsewhere ==
  ASSUME OneAtATime, InPlace, NEW w \in Worker,
         worker' = [worker EXCEPT ![w] = Start] \/ Throw(w)
  PROVE  AllWork'
<1>1. CASE worker' = [worker EXCEPT ![w] = Start]
  <2>1. worker'[w] = Start
    BY <1>1 DEF InPlace
  <2> QED BY <2>1, WorksElsewhere DEF Start
<1>2. CASE Throw(w)
  BY <1>2, ThrowsTo, WorksElsewhere DEF Start
<1> QED BY <1>1, <1>2

(***************************************************************************)
(* Steps that concern no range and neither make nor split a Batch.          *)
(***************************************************************************)
SameBatches ==
  \A b \in Batch : /\ batch'[b].state = "absent" <=> batch[b].state = "absent"
                   /\ batch'[b].split = batch[b].split

Calm ==
  /\ \A r \in Ranges : op'[r].state = "absent" <=> op[r].state = "absent"
  /\ UNCHANGED <<range, cursor>>
  /\ cons'.op = cons.op /\ cons'.result = cons.result
  /\ cons'.state = "completed" => cons.state = "completed"
  /\ SameBatches

LEMMA CalmIsSafe ==
  ASSUME Inv, RangeTables, Calm
  PROVE  RangeTables' /\ Batches' = Batches
<1>1. Made' = Made /\ SplitUp' = SplitUp /\ Batches' = Batches
  BY DEF Calm, SameBatches, Made, SplitUp, Batches
<1>2. \A r \in Ranges : Used(r)' <=> Used(r)
  BY DEF Calm, Used
<1>3. RangesOrdered'
  BY <1>1, <1>2 DEF Calm, RangeTables, RangesOrdered, RangesDisjoint, Used
<1>4. CursorKnown'
  <2>1. Unfinished' <=> Unfinished
    BY DEF Calm, Unfinished
  <2>2. /\ \A r \in Ranges : Passed(r)' <=> Passed(r)
        /\ Unfinished => Follows(cons.op)' \/ Reached(cons.op)'
    BY <2>1 DEF Calm, RangeTables, CursorKnown, Passed, Follows, Reached
  <2>3. cons'.op # 0 => op'[cons'.op].state # "absent"
    <3>1. cons.op # 0 => cons.op \in Ranges /\ op[cons.op].state # "absent"
      BY DEF RangeTables, CursorKnown, Used, Inv, StoreInv, Tables, ConsRow
    <3> QED BY <3>1 DEF Calm
  <2> QED BY <1>1, <1>2, <2>1, <2>2, <2>3 DEF Calm, RangeTables, CursorKnown, Used
<1>5. TwoHalves'
  BY <1>1 DEF RangeTables, TwoHalves
<1> QED BY <1>1, <1>3, <1>4, <1>5 DEF RangeTables


LEMMA CalmOps ==
  ASSUME UNCHANGED <<batch, range, cons, cursor>>,
         \A r \in Ranges : op'[r].state = "absent" <=> op[r].state = "absent"
  PROVE  Calm
BY DEF Calm, SameBatches

LEMMA CalmStore ==
  ASSUME UNCHANGED <<op, batch, range, cons, cursor>>
  PROVE  Calm
BY CalmOps

LEMMA RecoverIsCalm ==
  ASSUME Inv, NEW w \in Worker, Recover(w)
  PROVE  Calm
<1>1. CASE UNCHANGED store
  BY <1>1, CalmStore DEF store
<1>2. CASE \E b \in Batch :
             /\ BlockedLifecycleOnly(b)
             /\ batch' = [batch EXCEPT ![b].state = "completed", ![b].version = @ + 1]
             /\ op' = Finished(b)
             /\ UNCHANGED <<range, cons, cursor>>
  <2>1. PICK b \in Batch :
             /\ BlockedLifecycleOnly(b)
             /\ batch' = [batch EXCEPT ![b].state = "completed", ![b].version = @ + 1]
             /\ op' = Finished(b)
             /\ UNCHANGED <<range, cons, cursor>>
    BY <1>2
  <2>2. b \in Op /\ op[b].state = "blocked" /\ b \notin Ranges
    BY <2>1, Constants DEF Op, BlockedLifecycleOnly
  <2>3. batch \in [Batch -> BatchRow] /\ op \in [Op -> OpRow]
    BY DEF Inv, StoreInv, Tables
  <2>4. batch[b].state # "absent"
    BY <2>1, <2>2 DEF Inv, StoreInv, OpsAgree
  <2>5. SameBatches
    BY <2>1, <2>3, <2>4 DEF SameBatches, BatchRow
  <2>6. \A r \in Ranges : op'[r] = op[r]
    BY <2>1, <2>2, <2>3 DEF Finished, Op
  <2> QED BY <2>1, <2>5, <2>6 DEF Calm
<1> QED BY <1>1, <1>2 DEF Recover

LEMMA PersistIsCalm ==
  ASSUME Inv, NEW w \in Worker, Persist(w)
  PROVE  Calm
<1>1. worker[w].op \in Batch /\ op[worker[w].op].state # "absent"
  BY Constants DEF Persist, Inv, InPlace, AtPlace, BatchPlaces
<1>2. batch \in [Batch -> BatchRow] /\ batch[worker[w].op].state # "absent"
  BY <1>1 DEF Inv, StoreInv, Tables, OpsAgree
<1>3. SameBatches
  BY <1>1, <1>2 DEF Persist, SameBatches, BatchRow
<1> QED BY <1>3 DEF Persist, Calm

LEMMA StateMarkedIsCalm ==
  ASSUME Inv, NEW w \in Worker, NEW s \in BatchState \ {"absent", "completed"},
         worker[w].op \in Op, op[worker[w].op].state # "absent",
         UNCHANGED <<op, range, cursor>>,
         IF worker[w].op \in Batch
         THEN batch' = [batch EXCEPT ![worker[w].op].state = s] /\ UNCHANGED cons
         ELSE cons' = (IF cons.op = worker[w].op THEN [cons EXCEPT !.state = s] ELSE cons)
              /\ UNCHANGED batch
  PROVE  Calm
<1> DEFINE o == worker[w].op
<1>1. batch \in [Batch -> BatchRow] /\ cons \in ConsRow
  BY DEF Inv, StoreInv, Tables
<1>2. SameBatches
  <2>1. CASE o \in Batch
    <3>1. batch[o].state # "absent"
      BY <2>1 DEF Inv, StoreInv, OpsAgree
    <3> QED BY <1>1, <2>1, <3>1 DEF SameBatches, BatchRow
  <2>2. CASE o \notin Batch
    BY <2>2 DEF SameBatches
  <2> QED BY <2>1, <2>2
<1>3. /\ cons'.op = cons.op /\ cons'.result = cons.result
      /\ cons'.state = "completed" => cons.state = "completed"
  BY <1>1 DEF ConsRow
<1> QED BY <1>2, <1>3 DEF Calm

LEMMA MarkIsCalm ==
  ASSUME Inv, NEW w \in Worker, Mark(w)
  PROVE  Calm
<1>1. worker[w].op \in Op /\ op[worker[w].op].state # "absent"
  BY DEF Mark, Inv, InPlace, AtPlace, WorkerRow
<1> QED BY <1>1, StateMarkedIsCalm DEF Mark, BatchState

LEMMA MirrorIsCalm ==
  ASSUME Inv, NEW w \in Worker, Mirror(w)
  PROVE  Calm
<1>1. /\ worker[w].op \in Op /\ op[worker[w].op].state # "absent"
      /\ worker[w].failed \in {"retrying", "blocked"}
  BY DEF Mirror, Inv, InPlace, AtPlace, WorkerRow
<1> QED BY <1>1, StateMarkedIsCalm DEF Mirror, BatchState

LEMMA ClaimIsCalm ==
  ASSUME Inv, NEW w \in Worker, Claim(w)
  PROVE  Calm
<1>1. op \in [Op -> OpRow]
  BY DEF Inv, StoreInv, Tables
<1>2. \A r \in Ranges : op'[r].state = "absent" <=> op[r].state = "absent"
  <2>1. CASE UNCHANGED op
    BY <2>1
  <2>2. CASE \E o \in Op :
          /\ Selected(o)
          /\ op' = [op EXCEPT ![o].state = "processing", ![o].by = w, ![o].due = FALSE,
                               ![o].tries = IF @ > FastRetries THEN @ ELSE @ + 1]
    BY <1>1, <2>2 DEF Selected, Claimable, OpRow, Op
  <2> QED BY <2>1, <2>2 DEF Claim
<1> QED BY <1>2, CalmOps DEF Claim

LEMMA CompleteIsCalm ==
  ASSUME Inv, NEW w \in Worker, Complete(w)
  PROVE  Calm
<1>1. op \in [Op -> OpRow]
  BY DEF Inv, StoreInv, Tables
<1>2. \A r \in Ranges : op'[r].state = "absent" <=> op[r].state = "absent"
  BY <1>1, OwnedOperation DEF Complete, Finished, OpRow, Op
<1> QED BY <1>2, CalmOps DEF Complete

LEMMA FailOperationIsCalm ==
  ASSUME Inv, NEW w \in Worker, FailOperation(w)
  PROVE  Calm
<1>1. op \in [Op -> OpRow]
  BY DEF Inv, StoreInv, Tables
<1>2. \A r \in Ranges : op'[r].state = "absent" <=> op[r].state = "absent"
  <2>1. CASE UNCHANGED op
    BY <2>1
  <2>2. ASSUME NEW s \in {"retrying", "blocked"}, Owns(w),
               op' = [op EXCEPT ![worker[w].op].state = s, ![worker[w].op].by = NoWorker,
                                ![worker[w].op].due = FALSE,
                                ![worker[w].op].local = (worker[w].category = "local")]
        PROVE  \A r \in Ranges : op'[r].state = "absent" <=> op[r].state = "absent"
    BY <1>1, <2>2, OwnedOperation DEF OpRow, Op
  <2> QED BY <2>1, <2>2 DEF FailOperation
<1> QED BY <1>2, CalmOps DEF FailOperation

LEMMA TimePassesIsCalm ==
  ASSUME Inv, NEW o \in Op, TimePasses(o) \/ Retry(o)
  PROVE  Calm
<1>1. \A r \in Ranges : op'[r].state = "absent" <=> op[r].state = "absent"
  BY DEF TimePasses, Retry, Inv, StoreInv, Tables, OpRow, Op
<1> QED BY <1>1, CalmOps DEF TimePasses, Retry


(***************************************************************************)
(* The range of a consolidation, step by step.                              *)
(***************************************************************************)
QuietWork(w) ==
  \/ Recover(w) \/ Select(w) \/ Claim(w) \/ Bind(w) \/ Mark(w) \/ Distill(w) \/ Persist(w)
  \/ Complete(w) \/ FailOperation(w) \/ Mirror(w) \/ NotSplit(w) \/ Crash(w) \/ Fault(w)
  \/ \E category \in {"model", "schema_invalid"} : ModelFails(w, category)

LEMMA QuietWorkIsCalm ==
  ASSUME Inv, NEW w \in Worker, QuietWork(w)
  PROVE  Calm
<1>1. CASE \/ Select(w) \/ Bind(w) \/ Distill(w) \/ NotSplit(w) \/ Crash(w) \/ Fault(w)
           \/ \E category \in {"model", "schema_invalid"} : ModelFails(w, category)
  BY <1>1, CalmStore DEF Select, Bind, Distill, NotSplit, Crash, Fault, ModelFails, store
<1> QED BY <1>1, RecoverIsCalm, ClaimIsCalm, MarkIsCalm, PersistIsCalm, CompleteIsCalm,
           FailOperationIsCalm, MirrorIsCalm DEF QuietWork

LEMMA QuietWorkElsewhere ==
  ASSUME OneAtATime, Inv, NEW w \in Worker, QuietWork(w)
  PROVE  AllWork'
<1>1. InPlace /\ worker \in [Worker -> WorkerRow]
  BY DEF Inv, InPlace
<1>2. CASE \/ Goto(w, "prepare") \/ Goto(w, "queue") \/ Goto(w, "recover") \/ Goto(w, "finalize")
           \/ Goto(w, "mark") \/ Goto(w, "complete") \/ Goto(w, "persist")
  <2>1. worker'[w].at \in {"prepare", "queue", "recover", "finalize", "mark", "complete", "persist"}
    BY <1>1, <1>2, GoesTo
  <2> QED BY <2>1, WorksElsewhere
<1>3. CASE worker' = [worker EXCEPT ![w] = Start] \/ Throw(w)
  BY <1>1, <1>3, StartIsElsewhere
<1>4. CASE Select(w) /\ ~Goto(w, "queue")
  <2>1. PICK s : worker' = [worker EXCEPT ![w].at = "assign", ![w].selected = s]
    BY <1>4 DEF Select
  <2>2. worker'[w].at = "assign"
    BY <1>1, <2>1 DEF WorkerRow
  <2> QED BY <2>2, WorksElsewhere
<1>5. CASE Claim(w) /\ ~Goto(w, "recover")
  <2>1. PICK o \in Op : worker' = [worker EXCEPT ![w].at = "bind", ![w].op = o]
    BY <1>5 DEF Claim
  <2>2. worker'[w].at = "bind"
    BY <1>1, <2>1 DEF WorkerRow
  <2> QED BY <2>2, WorksElsewhere
<1>6. CASE Mark(w)
  <2>1. worker'[w].at = IF worker[w].op \in Batch THEN "distill" ELSE "load"
    BY <1>1, <1>6 DEF Mark, WorkerRow
  <2> QED BY <2>1, WorksElsewhere
<1>7. CASE FailOperation(w)
  <2>1. CASE worker' = [worker EXCEPT ![w] = Start]
    BY <1>3, <2>1
  <2>2. ASSUME NEW s, worker' = [worker EXCEPT ![w].at = "mirror", ![w].failed = s]
        PROVE  AllWork'
    BY <1>1, <2>2, WorksElsewhere DEF WorkerRow
  <2> QED BY <1>7, <2>1, <2>2 DEF FailOperation
<1>8. CASE Mirror(w)
  <2>1. CASE worker' = [worker EXCEPT ![w] = Start]
    BY <1>3, <2>1
  <2>2. CASE worker' = [worker EXCEPT ![w] = [worker[w] EXCEPT !.at = "split"]]
    BY <1>1, <2>2, WorksElsewhere DEF WorkerRow
  <2> QED BY <1>8, <2>1, <2>2 DEF Mirror
<1>9. CASE \E category \in {"model", "schema_invalid"} : ModelFails(w, category)
  BY <1>1, <1>9, WorksElsewhere DEF ModelFails, WorkerRow
<1>10. CASE Recover(w) \/ Bind(w) \/ Distill(w) \/ Persist(w)
  BY <1>2, <1>3, <1>10 DEF Recover, Bind, Distill, Persist
<1>11. CASE Complete(w) \/ NotSplit(w) \/ Crash(w) \/ Fault(w)
  BY <1>3, <1>11 DEF Complete, NotSplit, Crash, Fault
<1> QED BY <1>2, <1>4, <1>5, <1>6, <1>7, <1>8, <1>9, <1>10, <1>11 DEF QuietWork

LEMMA QuietWorkRange ==
  ASSUME OneAtATime, Inv, RangeInv, NEW w \in Worker, QuietWork(w)
  PROVE  RangeInv'
BY QuietWorkIsCalm, QuietWorkElsewhere, CalmIsSafe DEF RangeInv

LEMMA OnlyBatch ==
  ASSUME Inv, TwoHalves, Cardinality(Batches) = 1, NEW b \in Made
  PROVE  Batches = {b}
<1>1. PICK c : Batches = {c}
  <2>1. IsFiniteSet(Batches)
    BY Constants, FS_Subset DEF Batches
  <2> QED BY <2>1, FS_Singleton
<1>2. SplitUp = {}
  BY <1>1 DEF TwoHalves
<1>3. b \in Batches
  BY <1>2 DEF Made, SplitUp, Batches
<1> QED BY <1>1, <1>3

LEMMA FinalizeRange ==
  ASSUME OneAtATime, Inv, RangeInv, NEW w \in Worker, Finalize(w)
  PROVE  RangeInv'
<1>1. Calm
  BY CalmStore DEF Finalize, store
<1>2. RangeTables' /\ Batches' = Batches
  BY <1>1, CalmIsSafe DEF RangeInv
<1>3. CASE Throw(w)
  BY <1>2, <1>3, StartIsElsewhere DEF Inv, RangeInv
<1>4. CASE Goto(w, "complete") \/ Goto(w, "queueBatch")
  BY <1>2, <1>4, GoesTo, WorksElsewhere DEF Inv, RangeInv
<1>5. CASE /\ Goto(w, "ingest") /\ Cardinality(Batches) = 1
           /\ batch[worker[w].op].state = "completed"
  <2>1. worker[w].op \in Made
    BY <1>5 DEF Finalize, Inv, InPlace, AtPlace, BatchPlaces, Made
  <2>2. Batches = {worker[w].op}
    BY <1>5, <2>1, OnlyBatch DEF RangeInv, RangeTables
  <2>3. worker'[w].at = "ingest" /\ worker'[w].op = worker[w].op
    BY <1>5, GoesTo DEF Inv
  <2>4. AllWork'
    BY <1>2, <2>2, <2>3 DEF OneAtATime, AllWork, WorksOn
  <2> QED BY <1>2, <2>4 DEF RangeInv
<1> QED BY <1>3, <1>4, <1>5 DEF Finalize

LEMMA IngestBatchRange ==
  ASSUME OneAtATime, Inv, RangeInv, NEW w \in Worker, IngestBatch(w)
  PROVE  RangeInv'
<1>1. Calm
  BY CalmStore DEF IngestBatch
<1>2. RangeTables' /\ Batches' = Batches
  BY <1>1, CalmIsSafe DEF RangeInv
<1>3. Batches = {worker[w].op}
  BY DEF RangeInv, AllWork, WorksOn, IngestBatch
<1>4. worker'[w].at = "cursor" /\ worker'[w].op = worker[w].op
  BY GoesTo DEF Inv, IngestBatch
<1>5. AllWork'
  BY <1>2, <1>3, <1>4 DEF OneAtATime, AllWork, WorksOn
<1> QED BY <1>2, <1>5 DEF RangeInv

LEMMA LoadRange ==
  ASSUME OneAtATime, Inv, RangeInv, NEW w \in Worker, Load(w)
  PROVE  RangeInv'
<1>1. Calm
  BY CalmStore DEF Load, store
<1>2. RangeTables' /\ Batches' = Batches
  BY <1>1, CalmIsSafe DEF RangeInv
<1>3. CASE Throw(w)
  BY <1>2, <1>3, StartIsElsewhere DEF Inv, RangeInv
<1>4. CASE /\ cons.op = worker[w].op
           /\ cons.result.kind = "null" \/ cons.result = [kind |-> "checkpoint", input |-> Results(worker[w].op)]
           /\ worker' = [worker EXCEPT ![w].input = Results(worker[w].op),
                  ![w].at = IF cons.result.kind = "null" THEN "consolidate" ELSE "pages"]
  <2>1. worker'[w].at \in {"consolidate", "pages"} /\ worker'[w].op = worker[w].op
    BY <1>4 DEF Inv, InPlace, WorkerRow
  <2>2. cons.op # 0 /\ cons.result.kind # "final"
    BY <1>4, Constants DEF Load, Inv, InPlace, AtPlace, RangePlaces
  <2>3. Unfinished' /\ cons'.op = worker[w].op
    BY <1>1, <1>4, <2>2 DEF Calm, Unfinished
  <2>4. AllWork'
    BY <2>1, <2>3 DEF OneAtATime, AllWork, WorksOn
  <2> QED BY <1>2, <2>4 DEF RangeInv
<1> QED BY <1>3, <1>4 DEF Load

LEMMA PagesRange ==
  ASSUME OneAtATime, Inv, RangeInv, NEW w \in Worker, Consolidate(w) \/ IngestPages(w)
  PROVE  RangeInv'
<1>1. Calm
  BY CalmStore DEF Consolidate, IngestPages, store
<1>2. RangeTables' /\ Batches' = Batches
  BY <1>1, CalmIsSafe DEF RangeInv
<1>3. Unfinished /\ cons.op = worker[w].op
  BY DEF RangeInv, AllWork, WorksOn, Consolidate, IngestPages
<1>4. worker'[w].at \in {"checkpoint", "finish"} /\ worker'[w].op = worker[w].op
  BY GoesTo DEF Inv, Consolidate, IngestPages
<1>5. Unfinished' /\ cons'.op = worker[w].op
  BY <1>1, <1>3 DEF Calm, Unfinished
<1>6. AllWork'
  BY <1>4, <1>5 DEF OneAtATime, AllWork, WorksOn
<1> QED BY <1>2, <1>6 DEF RangeInv


LEMMA CheckpointRange ==
  ASSUME OneAtATime, Inv, RangeInv, NEW w \in Worker, Checkpoint(w)
  PROVE  RangeInv'
<1>1. UNCHANGED <<event, batch, op, range, cursor>> /\ cons \in ConsRow
  BY DEF Checkpoint, Inv, StoreInv, Tables
<1>2. CASE Throw(w) /\ UNCHANGED cons
  BY <1>1, <1>2, CalmStore, CalmIsSafe, StartIsElsewhere DEF Inv, RangeInv
<1>3. CASE /\ cons' = [cons EXCEPT !.result = [kind |-> "checkpoint", input |-> worker[w].input]]
           /\ Goto(w, "pages")
  <2>1. Unfinished /\ cons.op = worker[w].op /\ cons.state # "completed"
    BY DEF RangeInv, AllWork, WorksOn, Checkpoint, RangeTables, CursorKnown, Unfinished
  <2>2. cons'.op = cons.op /\ cons'.state = cons.state /\ cons'.result.kind = "checkpoint"
    BY <1>1, <1>3 DEF ConsRow
  <2>3. Unfinished'
    BY <2>1, <2>2 DEF Unfinished
  <2>4. Made' = Made /\ SplitUp' = SplitUp /\ Batches' = Batches
    BY <1>1 DEF Made, SplitUp, Batches
  <2>5. RangesOrdered' /\ TwoHalves'
    BY <1>1, <2>4 DEF RangeInv, RangeTables, RangesOrdered, RangesDisjoint, TwoHalves, Used
  <2>6. CursorKnown'
    BY <1>1, <2>1, <2>2, <2>3, <2>4
       DEF RangeInv, RangeTables, CursorKnown, Used, Passed, Follows, Reached
  <2>7. worker'[w].at = "pages" /\ worker'[w].op = worker[w].op
    BY <1>3, GoesTo DEF Inv
  <2>8. AllWork'
    BY <2>1, <2>2, <2>3, <2>7 DEF OneAtATime, AllWork, WorksOn
  <2> QED BY <2>5, <2>6, <2>8 DEF RangeInv, RangeTables
<1> QED BY <1>2, <1>3 DEF Checkpoint

\* The only Batch of the session has the number one.
LEMMA FirstBatch ==
  ASSUME Inv, RangeInv, NEW w \in Worker, worker[w].at = "cursor"
  PROVE  worker[w].op = 1 /\ Made = {1}
<1>1. Batches = {worker[w].op}
  BY DEF RangeInv, AllWork, WorksOn
<1>2. SplitUp = {}
  BY <1>1 DEF RangeInv, RangeTables, TwoHalves
<1>3. Made = {worker[w].op}
  BY <1>1, <1>2 DEF Made, SplitUp, Batches
<1>4. NextBatch \in Nat \ {0} /\ Made = 1..(NextBatch - 1)
  BY NextIsNew DEF Inv
<1>5. 1 \in Made
  <2>1. worker[w].op \in 1..(NextBatch - 1)
    BY <1>3, <1>4
  <2>2. 1 <= worker[w].op /\ worker[w].op <= NextBatch - 1 /\ worker[w].op \in Int
    BY <1>4, <2>1
  <2>3. 1 \in 1..(NextBatch - 1)
    BY <1>4, <2>2
  <2> QED BY <1>4, <2>3
<1> QED BY <1>3, <1>5

LEMMA NumbersOfRanges ==
  ASSUME Inv
  PROVE  /\ cursor.gen \in Nat /\ cursor.through \in Nat
         /\ \A r \in Ranges : range[r].gen \in Nat /\ range[r].through \in Nat /\ range[r].from \in Nat
<1>1. Batch \cup {0} \subseteq Nat
  BY Constants
<1>2. cursor \in CursorRow /\ range \in [Ranges -> RangeRow]
  BY DEF Inv, StoreInv, Tables
<1>3. cursor.gen \in Nat /\ cursor.through \in Batch \cup {0}
  BY <1>2 DEF CursorRow
<1>4. ASSUME NEW r \in Ranges
      PROVE  range[r].gen \in Nat /\ range[r].through \in Batch \cup {0} /\ range[r].from \in Batch \cup {0}
  BY <1>2 DEF RangeRow
<1> QED BY <1>1, <1>3, <1>4

LEMMA AdvanceCursorRange ==
  ASSUME OneAtATime, Inv, RangeInv, NEW w \in Worker, AdvanceCursor(w)
  PROVE  RangeInv'
<1>1. UNCHANGED <<event, batch, op, range, cons>> /\ cursor \in CursorRow /\ Made' = Made
  BY DEF AdvanceCursor, Inv, StoreInv, Tables, Made
<1>2. AllWork'
  <2>1. worker'[w].at = "complete"
    BY GoesTo DEF Inv, AdvanceCursor
  <2> QED BY <2>1, WorksElsewhere
<1>3. worker[w].op = 1 /\ Made = {1}
  BY FirstBatch DEF AdvanceCursor
<1>4. CASE UNCHANGED cursor
  BY <1>1, <1>2, <1>4, CalmStore, CalmIsSafe DEF RangeInv
<1>5. CASE cursor.through < 1 /\ cursor' = [gen |-> cursor.gen + 1, through |-> 1]
  <2>1. cursor.through = 0 /\ cursor.gen = 0
    BY <1>3, <1>5 DEF RangeInv, RangeTables, CursorKnown
  <2>2. cursor'.gen = 1 /\ cursor'.through = 1
    BY <1>5, <2>1
  <2>3. \A r \in Ranges : Used(r) => range[r].from = 1 /\ range[r].through = 1
    <3>1. ASSUME NEW r \in Ranges, Used(r) PROVE range[r].from = 1 /\ range[r].through = 1
      <4>1. range[r].through = 1 /\ range[r].from # 0 /\ range[r].from <= range[r].through
        BY <1>3, <3>1 DEF RangeInv, RangeTables, RangesOrdered
      <4>2. range[r].from \in Nat
        BY NumbersOfRanges
      <4> QED BY <4>1, <4>2
    <3> QED BY <3>1
  <2>4. cons.op \in Ranges \cup {0} /\ (Unfinished' <=> Unfinished)
    BY <1>1 DEF Inv, StoreInv, Tables, ConsRow, Unfinished
  <2>5. \A r \in Ranges : Used(r) => Unfinished /\ r = cons.op
    BY <2>1, <2>3 DEF RangeInv, RangeTables, CursorKnown, Passed
  <2>6. Unfinished => range[cons.op].gen = 1 /\ range[cons.op].through = 1
    <3>1. ASSUME Unfinished PROVE range[cons.op].gen = 1 /\ range[cons.op].through = 1
      <4>1. cons.op \in Ranges /\ Used(cons.op)
        BY <2>4, <3>1 DEF Unfinished, RangeInv, RangeTables, CursorKnown
      <4>2. Follows(cons.op) \/ Reached(cons.op)
        BY <3>1 DEF RangeInv, RangeTables, CursorKnown
      <4> QED BY <2>1, <2>3, <4>1, <4>2 DEF Follows, Reached
    <3> QED BY <3>1
  <2>7. CursorKnown'
    BY <1>1, <1>3, <2>2, <2>4, <2>5, <2>6
       DEF RangeInv, RangeTables, CursorKnown, Used, Passed, Reached
  <2>8. RangesOrdered' /\ TwoHalves'
    BY <1>1 DEF RangeInv, RangeTables, RangesOrdered, RangesDisjoint, TwoHalves, Used, SplitUp,
                Batches
  <2> QED BY <1>2, <2>7, <2>8 DEF RangeInv, RangeTables
<1> QED BY <1>3, <1>4, <1>5 DEF AdvanceCursor

LEMMA FinishRange ==
  ASSUME OneAtATime, Inv, RangeInv, NEW w \in Worker, Finish(w)
  PROVE  RangeInv'
<1> DEFINE r == worker[w].op
<1>1. /\ UNCHANGED <<event, batch, op, range>> /\ Made' = Made
      /\ cons \in ConsRow /\ cursor \in CursorRow /\ range \in [Ranges -> RangeRow]
  BY DEF Finish, Inv, StoreInv, Tables, Made
<1>2. AllWork'
  <2>1. worker'[w].at = "complete"
    BY GoesTo DEF Inv, Finish
  <2> QED BY <2>1, WorksElsewhere
<1>3. Unfinished /\ cons.op = r /\ r \in Ranges /\ Used(r) /\ r # 0
  BY DEF RangeInv, AllWork, WorksOn, Finish, RangeTables, CursorKnown, Unfinished, Inv,
         InPlace, AtPlace, RangePlaces
<1>4. /\ cons'.op = r /\ cons'.state = "completed" /\ cons'.result.kind = "final"
      /\ cursor'.gen = range[r].gen /\ cursor'.through = range[r].through
  BY <1>1, <1>3 DEF Finish, ConsRow
<1>5. /\ range[r].from # 0 /\ range[r].from <= range[r].through /\ range[r].through \in Made
      /\ Follows(r) \/ Reached(r)
  BY <1>3 DEF RangeInv, RangeTables, RangesOrdered, CursorKnown
<1>6. /\ cursor.gen \in Nat /\ cursor.through \in Nat
      /\ \A s \in Ranges : range[s].gen \in Nat /\ range[s].through \in Nat /\ range[s].from \in Nat
  BY NumbersOfRanges
<1>7. cursor'.through >= cursor.through /\ cursor'.gen >= cursor.gen
  BY <1>3, <1>4, <1>5, <1>6 DEF Follows, Reached
<1>8. ASSUME NEW s \in Ranges, Used(s)
      PROVE  range[s].through <= cursor'.through /\ range[s].gen <= cursor'.gen
  <2>1. CASE s = r
    BY <1>4, <1>6, <2>1
  <2>2. CASE s # r
    <3>1. Passed(s)
      BY <1>3, <1>8, <2>2 DEF RangeInv, RangeTables, CursorKnown
    <3>2. cursor'.through \in Nat /\ cursor'.gen \in Nat
      BY <1>3, <1>4, <1>6
    <3> QED BY <1>6, <1>7, <3>1, <3>2 DEF Passed
  <2> QED BY <2>1, <2>2
<1>9. CursorKnown'
  <2>1. ~Unfinished'
    BY <1>4 DEF Unfinished
  <2>2. cursor'.through \in Made /\ cursor'.through # 0
    BY <1>4, <1>5, Constants DEF Made
  <2>3. \A s \in Ranges : Used(s)' <=> Used(s)
    BY <1>1 DEF Used
  <2>4. \A s \in Ranges : Used(s)' => Passed(s)'
    BY <1>1, <1>8, <2>3 DEF Passed
  <2>5. Used(cons.op)'
    BY <1>1, <1>3, <1>4 DEF Used
  <2> QED BY <1>1, <1>3, <1>4, <2>1, <2>2, <2>4, <2>5 DEF CursorKnown
<1>10. RangesOrdered' /\ TwoHalves'
  BY <1>1 DEF RangeInv, RangeTables, RangesOrdered, RangesDisjoint, TwoHalves, Used, SplitUp,
              Batches
<1> QED BY <1>2, <1>9, <1>10 DEF RangeInv, RangeTables


LEMMA NextRangeIsLeast ==
  ASSUME Inv, Unused # {}
  PROVE  NextRange \in Unused /\ \A r \in Unused : NextRange <= r
<1>1. Unused \subseteq Nat
  BY Constants DEF Unused
<1> QED BY <1>1, LeastNumber DEF NextRange

LEMMA QueueRangeRange ==
  ASSUME Inv, RangeTables, Ready, Unused # {}, QueueRange
  PROVE  RangeTables' /\ Batches' = Batches
<1> DEFINE n == NextRange
<1>1. /\ UNCHANGED <<event, batch, cursor, ingested, spent>>
      /\ op \in [Op -> OpRow] /\ range \in [Ranges -> RangeRow]
  BY DEF QueueRange, Inv, StoreInv, Tables
<1>2. n \in Ranges /\ op[n].state = "absent" /\ NewRange \in RangeRow /\ n \in Op /\ n # 0
  BY RangeIsNew, Constants DEF Inv, Op
<1>3. /\ op' = [op EXCEPT ![n] = Owned] /\ range' = [range EXCEPT ![n] = NewRange]
      /\ cons' = [op |-> n, state |-> "queued", result |-> NoResult]
  BY DEF QueueRange
<1>4. \A r \in Unused : n <= r
  BY NextRangeIsLeast
<1> HIDE DEF n
<1>5. \A r \in Ranges : /\ Used(r)' <=> Used(r) \/ r = n
                        /\ r # n => range'[r] = range[r]
  BY <1>1, <1>2, <1>3 DEF Used, Owned, Op
<1>6. range'[n] = NewRange /\ ~Used(n)
  BY <1>1, <1>2, <1>3 DEF Used
<1>7. Cutoff \in Made /\ cursor.through < Cutoff /\ cursor.through \in Nat
  <2> DEFINE S == {b \in Batches : HasSessionEnd(b)} \cup {0}
  <2>1. MaxEvents + MaxSplits \in Nat /\ S # {}
    BY Constants
  <2>2. S \subseteq 0..(MaxEvents + MaxSplits)
    BY <2>1 DEF Batches, Batch
  <2>3. Max(S) \in S
    BY <2>1, <2>2, GreatestNumber
  <2>4. cursor.through \in Nat /\ Cutoff > cursor.through
    BY NumbersOfRanges DEF Ready
  <2>5. Cutoff \in S /\ Cutoff # 0
    BY <2>3, <2>4 DEF Cutoff
  <2> QED BY <2>4, <2>5, Constants DEF Batches, Made
<1>8. ~Unfinished
  BY DEF Ready, Unfinished, RangeTables, CursorKnown
<1>9. \A r \in Ranges : Used(r) => Passed(r)
  BY <1>8 DEF RangeTables, CursorKnown
<1>10. /\ NewRange.gen = cursor.gen + 1 /\ NewRange.from = cursor.through + 1
       /\ NewRange.through = Cutoff
  BY DEF NewRange
<1>11. Made' = Made /\ SplitUp' = SplitUp /\ Batches' = Batches
  BY <1>1 DEF Made, SplitUp, Batches
<1>12. \A r, s \in Ranges : Used(s)' /\ r < s => Used(r)'
  <2>1. ASSUME NEW r \in Ranges, NEW s \in Ranges, Used(s)', r < s PROVE Used(r) \/ r = n
    <3>1. CASE Used(s)
      BY <2>1, <3>1 DEF RangeTables, RangesOrdered
    <3>2. CASE s = n
      <4>1. ASSUME ~Used(r) PROVE FALSE
        <5>1. r \in Unused
          BY <4>1 DEF Unused, Used
        <5> QED BY <1>2, <1>4, <2>1, <3>2, <5>1, Constants
      <4> QED BY <4>1
    <3> QED BY <1>5, <2>1, <3>1, <3>2
  <2> QED BY <1>5, <2>1
<1>13. ASSUME NEW r \in Ranges, Used(r)'
       PROVE  /\ range'[r].from # 0 /\ range'[r].from <= range'[r].through
              /\ range'[r].through \in Made
  <2>1. CASE r = n
    <3>1. Cutoff \in Nat
      BY <1>7, Constants DEF Made
    <3> QED BY <1>6, <1>7, <1>10, <2>1, <3>1
  <2>2. CASE r # n
    BY <1>5, <1>13, <2>2 DEF RangeTables, RangesOrdered
  <2> QED BY <2>1, <2>2
<1>14. ASSUME NEW r \in Ranges, NEW s \in Ranges, Used(r)', Used(s)', r < s
       PROVE  range'[r].through < range'[s].from /\ range'[r].gen < range'[s].gen
  <2>1. CASE s = n
    <3>1. r # n /\ Used(r) /\ Passed(r)
      BY <1>2, <1>5, <1>9, <1>14, <2>1, Constants
    <3>2. range'[r] = range[r] /\ range[r].through \in Nat /\ range[r].gen \in Nat /\ cursor.gen \in Nat
      BY <1>5, <3>1, NumbersOfRanges
    <3> QED BY <1>6, <1>7, <1>10, <2>1, <3>1, <3>2 DEF Passed
  <2>2. CASE s # n
    <3>1. Used(s) /\ Used(r)
      BY <1>5, <1>14, <2>2 DEF RangeTables, RangesOrdered
    <3>2. r # n
      BY <1>6, <3>1
    <3> QED BY <1>5, <1>14, <2>2, <3>1, <3>2 DEF RangeTables, RangesOrdered, RangesDisjoint, Used
  <2> QED BY <2>1, <2>2
<1>15. RangesOrdered'
  <2>1. RangesDisjoint'
    BY <1>14 DEF RangesDisjoint, Used
  <2> QED BY <1>11, <1>12, <1>13, <2>1 DEF RangesOrdered
<1>16. CursorKnown'
  <2>1. cons'.op = n /\ cons'.state = "queued" /\ cons'.result.kind = "null" /\ Unfinished'
    BY <1>2, <1>3 DEF NoResult, Unfinished
  <2>2. Follows(cons.op)'
    BY <1>1, <1>6, <1>10, <2>1 DEF Follows
  <2>3. \A r \in Ranges : Used(r)' /\ r # n => Passed(r)'
    BY <1>1, <1>5, <1>9 DEF Passed
  <2>4. Used(cons.op)'
    BY <1>2, <1>5, <2>1 DEF Used
  <2> QED BY <1>1, <1>2, <1>11, <2>1, <2>2, <2>3, <2>4 DEF CursorKnown, RangeTables
<1> QED BY <1>11, <1>15, <1>16 DEF RangeTables, TwoHalves


LEMMA QueueIfReadyRange ==
  ASSUME OneAtATime, Inv, RangeInv, NEW w \in Worker, NEW next \in {"claim", "complete"},
         QueueIfReady(w, next)
  PROVE  RangeInv'
<1>1. RangeTables'
  BY QueueRangeRange, CalmStore, CalmIsSafe DEF RangeInv, QueueIfReady, store
<1>2. AllWork'
  <2>1. CASE Goto(w, next)
    BY <2>1, GoesTo, WorksElsewhere DEF Inv
  <2>2. CASE Throw(w)
    BY <2>2, StartIsElsewhere DEF Inv
  <2> QED BY <2>1, <2>2 DEF QueueIfReady
<1> QED BY <1>1, <1>2 DEF RangeInv

\* New Batches appear, after those there are.
LEMMA RangesGrow ==
  ASSUME Inv, RangeTables, UNCHANGED <<range, cons, cursor>>, Made \subseteq Made', TwoHalves',
         \A r \in Ranges : op'[r].state = "absent" <=> op[r].state = "absent"
  PROVE  RangeTables'
<1>1. \A r \in Ranges : Used(r)' <=> Used(r)
  BY DEF Used
<1>2. RangesOrdered'
  BY <1>1 DEF RangeTables, RangesOrdered, RangesDisjoint, Used
<1>3. CursorKnown'
  <2>1. Unfinished' <=> Unfinished
    BY DEF Unfinished
  <2>2. cons.op \in Ranges \cup {0}
    BY DEF Inv, StoreInv, Tables, ConsRow
  <2>3. cons.op # 0 => Used(cons.op)'
    BY <1>1, <2>2 DEF RangeTables, CursorKnown, Used
  <2> QED BY <1>1, <2>1, <2>2, <2>3 DEF RangeTables, CursorKnown, Passed, Follows, Reached
<1> QED BY <1>2, <1>3 DEF RangeTables

LEMMA AssignMakes ==
  ASSUME Inv, NEW w \in Worker, Assign(w)
  PROVE  /\ \/ SameBatches /\ UNCHANGED op
            \/ /\ StillAvailable(worker[w].selected) /\ NextBatch \in Batch
               /\ \A b \in Batch : b # NextBatch => batch'[b] = batch[b]
               /\ batch'[NextBatch].state # "absent"
               /\ batch'[NextBatch].split = batch[NextBatch].split
               /\ \A o \in Op : o # NextBatch => op'[o] = op[o]
         /\ Made \subseteq Made' /\ Batches \subseteq Batches' /\ SplitUp' = SplitUp
         /\ \A r \in Ranges : op'[r] = op[r]
<1>1. batch \in [Batch -> BatchRow] /\ op \in [Op -> OpRow]
  BY DEF Inv, StoreInv, Tables
<1>2. CASE UNCHANGED <<batch, op>>
  BY <1>2 DEF SameBatches, Made, Batches, SplitUp
<1>3. CASE /\ StillAvailable(worker[w].selected)
           /\ batch' = [batch EXCEPT ![NextBatch].state =
                          IF LifecycleOnly(worker[w].selected) THEN "completed" ELSE "queued"]
           /\ op' = [op EXCEPT ![NextBatch].state =
                       IF LifecycleOnly(worker[w].selected) THEN "completed" ELSE "pending"]
  <2>1. NextBatch \in Batch /\ NextBatch \notin Ranges /\ batch[NextBatch].state = "absent"
    BY <1>3, AssignsNewBatch, Constants DEF Assign
  <2>2. /\ \A b \in Batch : b # NextBatch => batch'[b] = batch[b]
        /\ batch'[NextBatch].state # "absent"
        /\ batch'[NextBatch].split = batch[NextBatch].split
    BY <1>1, <1>3, <2>1 DEF BatchRow
  <2>3. \A o \in Op : o # NextBatch => op'[o] = op[o]
    BY <1>1, <1>3
  <2>4. Made \subseteq Made' /\ SplitUp' = SplitUp /\ Batches \subseteq Batches'
    BY <2>1, <2>2 DEF Made, SplitUp, Batches
  <2> QED BY <1>3, <2>1, <2>2, <2>3, <2>4 DEF Op
<1> QED BY <1>2, <1>3 DEF Assign

LEMMA AssignRange ==
  ASSUME OneAtATime, Inv, RangeInv, NEW w \in Worker, Assign(w)
  PROVE  RangeInv'
<1>1. TwoHalves'
  BY AssignMakes DEF RangeInv, RangeTables, TwoHalves
<1>2. RangeTables'
  BY <1>1, AssignMakes, RangesGrow DEF RangeInv, Assign
<1>3. worker'[w].at = "queue"
  BY DEF Assign, Inv, InPlace, WorkerRow
<1> QED BY <1>2, <1>3, WorksElsewhere DEF RangeInv

LEMMA SplitMakes ==
  ASSUME Inv, NEW w \in Worker, NEW at \in Event, Split(w, at)
  PROVE  LET b == worker[w].op
             child == {NextBatch, NextBatch + 1}
         IN  /\ \A c \in Batch : c # b /\ c \notin child => batch'[c] = batch[c]
             /\ batch'[b].split /\ batch'[b].state # "absent"
             /\ \A c \in child : batch'[c].state = "queued" /\ ~batch'[c].split
             /\ Made' = Made \cup child
             /\ Batches' = (Batches \ {b}) \cup child
             /\ \A r \in Ranges : op'[r] = op[r]
<1> DEFINE b == worker[w].op
           p == NextBatch
           q == NextBatch + 1
<1>1. /\ b \in Batches /\ b \in Made /\ b # p /\ b # q /\ p \in Batch /\ q \in Batch
      /\ \A c \in {p, q} : batch[c].state = "absent"
  BY SplitsNewBatches
<1>2. batch \in [Batch -> BatchRow]
  BY DEF Inv, StoreInv, Tables
<1>3. batch' = [c \in Batch |->
        IF c = b THEN [batch[b] EXCEPT !.state = "blocked", !.split = TRUE]
        ELSE IF c \in {p, q} THEN [batch[c] EXCEPT !.state = "queued"] ELSE batch[c]]
  BY DEF Split
<1>4. \A r \in Ranges : op'[r] = op[r]
  <2>1. b \notin Ranges /\ p \notin Ranges /\ q \notin Ranges
    BY <1>1, Constants DEF Batches
  <2> QED BY <2>1 DEF Split, Op
<1> HIDE DEF b, p, q
<1>5. \A c \in {p, q} : ~batch[c].split
  BY <1>1 DEF Inv, StoreInv, Filled, SplitUp, Made
<1>6. b \in Batch /\ ~batch[b].split
  BY <1>1 DEF Batches
<1>7. \A c \in Batch : c # b /\ c \notin {p, q} => batch'[c] = batch[c]
  BY <1>3
<1>8. batch'[b].split /\ batch'[b].state = "blocked"
  BY <1>2, <1>3, <1>6 DEF BatchRow
<1>9. \A c \in {p, q} : batch'[c].state = "queued" /\ ~batch'[c].split
  BY <1>1, <1>2, <1>3, <1>5 DEF BatchRow
<1>10. Made' = Made \cup {p, q}
  BY <1>1, <1>6, <1>7, <1>8, <1>9 DEF Made
<1>11. Batches' = (Batches \ {b}) \cup {p, q}
  BY <1>1, <1>6, <1>7, <1>8, <1>9 DEF Batches
<1> QED BY <1>4, <1>7, <1>8, <1>9, <1>10, <1>11 DEF b, p, q

LEMMA SplitRange ==
  ASSUME OneAtATime, Inv, RangeInv, NEW w \in Worker, NEW at \in Event, Split(w, at)
  PROVE  RangeInv'
<1>1. Made \subseteq Made' /\ Batches' = (Batches \ {worker[w].op}) \cup {NextBatch, NextBatch + 1}
  BY SplitMakes
<1>2. NextBatch # NextBatch + 1
  BY NextIsNew DEF Inv
<1>3. TwoHalves'
  BY <1>1, <1>2 DEF TwoHalves
<1>4. RangeTables'
  BY <1>1, <1>3, SplitMakes, RangesGrow DEF RangeInv, Split
<1>5. AllWork'
  BY StartIsElsewhere DEF Split, Inv
<1> QED BY <1>4, <1>5 DEF RangeInv

LEMMA OutsideRange ==
  ASSUME Inv, RangeInv, UNCHANGED worker, Calm
  PROVE  RangeInv'
<1>1. RangeTables' /\ Batches' = Batches
  BY CalmIsSafe DEF RangeInv
<1>2. (Unfinished' <=> Unfinished) /\ cons'.op = cons.op
  BY DEF Calm, Unfinished
<1>3. AllWork'
  BY <1>1, <1>2 DEF RangeInv, AllWork, WorksOn
<1> QED BY <1>1, <1>3 DEF RangeInv

LEMMA InitRange ==
  ASSUME Init
  PROVE  RangeInv
<1>1. Made = {} /\ SplitUp = {} /\ Batches = {}
  BY DEF Init, Made, SplitUp, Batches
<1>2. \A r \in Ranges : ~Used(r)
  BY DEF Init, Used, Owned, Op
<1>3. RangesOrdered /\ TwoHalves
  BY <1>1, <1>2 DEF RangesOrdered, RangesDisjoint, TwoHalves, Used
<1>4. CursorKnown
  BY <1>2 DEF Init, CursorKnown, Unfinished, NoResult
<1>5. AllWork
  BY DEF Init, AllWork, WorksOn, Start
<1> QED BY <1>3, <1>4, <1>5 DEF RangeInv, RangeTables

LEMMA StepRange ==
  ASSUME OneAtATime, Inv, RangeInv, [Next]_vars
  PROVE  RangeInv'
<1>1. ASSUME NEW w \in Worker, Step(w) \/ Crash(w) \/ Fault(w) PROVE RangeInv'
  <2>1. CASE QuietWork(w)
    BY <2>1, QuietWorkRange
  <2>2. CASE Poll(w) \/ QueueAfterBatch(w)
    BY <2>2, QueueIfReadyRange DEF Poll, QueueAfterBatch
  <2>3. ASSUME NEW at \in Event, Split(w, at) PROVE RangeInv'
    BY <2>3, SplitRange
  <2>4. CASE \/ Finalize(w) \/ IngestBatch(w) \/ AdvanceCursor(w) \/ Load(w) \/ Consolidate(w)
             \/ Checkpoint(w) \/ IngestPages(w) \/ Finish(w) \/ Assign(w)
    BY <2>4, FinalizeRange, IngestBatchRange, AdvanceCursorRange, LoadRange, PagesRange,
       CheckpointRange, FinishRange, AssignRange
  <2> QED BY <1>1, <2>1, <2>2, <2>3, <2>4 DEF Step, QuietWork
<1>2. ASSUME NEW e \in Event, NEW kind \in {"content", "end"}, NEW turn \in Turn,
             Capture(e, kind, turn)
      PROVE  RangeInv'
  BY <1>2, CalmStore, OutsideRange DEF Capture
<1>3. ASSUME NEW o \in Op, TimePasses(o) \/ Retry(o) PROVE RangeInv'
  BY <1>3, TimePassesIsCalm, OutsideRange DEF TimePasses, Retry
<1>4. CASE UNCHANGED vars
  BY <1>4, CalmStore, OutsideRange DEF vars
<1> QED BY <1>1, <1>2, <1>3, <1>4 DEF Next

(***************************************************************************)
(* The ranges of a session with one Worker: they are made in order, the      *)
(* cursor stands at the end of one, and the unfinished one follows it.      *)
(***************************************************************************)
THEOREM RangeInvariant == ASSUME OneAtATime PROVE Spec => [](Inv /\ RangeInv)
<1>1. Init => Inv /\ RangeInv
  BY InitKeeps, InitRange
<1>2. Inv /\ RangeInv /\ [Next]_vars => (Inv /\ RangeInv)'
  BY NextKeeps, StepRange
<1> QED BY <1>1, <1>2, PTL DEF Spec

(***************************************************************************)
(* With one Worker no range overlaps another, so that no idempotency key is  *)
(* used twice (queueConsolidationIfReady, distillation.ts:837), whatever     *)
(* dies, fails, is split or retried.                                        *)
(***************************************************************************)
THEOREM RangesDisjointAlways == ASSUME OneAtATime PROVE Spec => []RangesDisjoint
<1>1. Inv /\ RangeInv => RangesDisjoint
  BY DEF RangeInv, RangeTables, RangesOrdered
<1> QED BY <1>1, RangeInvariant, PTL



-----------------------------------------------------------------------------
(***************************************************************************)
(* The cursor moves when a range is finished, or the only Batch is.         *)
(***************************************************************************)
CursorForward == cursor' # cursor => cursor'.gen > cursor.gen /\ cursor'.through >= cursor.through

LEMMA OthersKeepCursor ==
  ASSUME [Next]_vars, \A w \in Worker : ~AdvanceCursor(w) /\ ~Finish(w)
  PROVE  UNCHANGED cursor
<1>1. ASSUME NEW w \in Worker, Step(w) PROVE UNCHANGED cursor
  <2>1. CASE Recover(w) \/ Select(w) \/ Assign(w) \/ Claim(w) \/ Bind(w) \/ Mark(w)
    BY <2>1 DEF Recover, Select, Assign, Claim, Bind, Mark, store
  <2>2. CASE Poll(w) \/ QueueAfterBatch(w)
    BY <2>2 DEF Poll, QueueAfterBatch, QueueIfReady, QueueRange, store
  <2>3. CASE Distill(w) \/ Persist(w) \/ Finalize(w) \/ IngestBatch(w) \/ Load(w) \/ Consolidate(w)
    BY <2>3 DEF Distill, Persist, Finalize, IngestBatch, Load, Consolidate, store
  <2>4. CASE \/ Checkpoint(w) \/ IngestPages(w) \/ Complete(w) \/ FailOperation(w) \/ Mirror(w)
             \/ NotSplit(w)
    BY <2>4 DEF Checkpoint, IngestPages, Complete, FailOperation, Mirror, NotSplit, store
  <2>5. CASE \/ \E category \in {"model", "schema_invalid"} : ModelFails(w, category)
             \/ \E at \in Event : Split(w, at)
    BY <2>5 DEF ModelFails, Split, store
  <2> QED BY <1>1, <2>1, <2>2, <2>3, <2>4, <2>5 DEF Step
<1>2. ASSUME NEW w \in Worker, Crash(w) \/ Fault(w) PROVE UNCHANGED cursor
  BY <1>2 DEF Crash, Fault
<1>3. ASSUME NEW e \in Event, NEW kind, NEW turn, Capture(e, kind, turn) PROVE UNCHANGED cursor
  BY <1>3 DEF Capture
<1>4. ASSUME NEW o \in Op, TimePasses(o) \/ Retry(o) PROVE UNCHANGED cursor
  BY <1>4 DEF TimePasses, Retry
<1>5. CASE UNCHANGED vars
  BY <1>5 DEF vars
<1> QED BY <1>1, <1>2, <1>3, <1>4, <1>5 DEF Next

LEMMA AdvanceCursorForward ==
  ASSUME Inv, RangeInv, NEW w \in Worker, AdvanceCursor(w)
  PROVE  CursorForward
<1>1. cursor.gen \in Nat /\ cursor.through \in Nat
  BY NumbersOfRanges
<1>2. worker[w].op = 1
  BY FirstBatch DEF AdvanceCursor
<1>3. CASE cursor.through < 1 /\ cursor' = [gen |-> cursor.gen + 1, through |-> 1]
  BY <1>1, <1>3 DEF CursorForward
<1> QED BY <1>2, <1>3 DEF AdvanceCursor, CursorForward

LEMMA FinishForward ==
  ASSUME Inv, RangeInv, NEW w \in Worker, Finish(w)
  PROVE  CursorForward
<1> DEFINE r == worker[w].op
<1>1. Unfinished /\ cons.op = r /\ r \in Ranges
  BY DEF RangeInv, AllWork, WorksOn, Finish, Inv, InPlace, AtPlace, RangePlaces
<1>2. /\ range[r].from <= range[r].through
      /\ Follows(r) \/ Reached(r)
  BY <1>1 DEF RangeInv, RangeTables, RangesOrdered, CursorKnown, Unfinished
<1>3. /\ cursor.gen \in Nat /\ cursor.through \in Nat
      /\ range[r].gen \in Nat /\ range[r].through \in Nat /\ range[r].from \in Nat
  BY <1>1, NumbersOfRanges
<1>4. cursor' = [gen |-> range[r].gen, through |-> range[r].through]
  BY DEF Finish
<1>5. CASE Follows(r)
  BY <1>2, <1>3, <1>4, <1>5 DEF Follows, CursorForward
<1>6. CASE Reached(r)
  <2>1. cursor = [gen |-> cursor.gen, through |-> cursor.through]
    BY DEF Inv, StoreInv, Tables, CursorRow
  <2>2. cursor' = cursor
    BY <1>4, <1>6, <2>1 DEF Reached
  <2> QED BY <2>2 DEF CursorForward
<1> QED BY <1>2, <1>5, <1>6

(***************************************************************************)
(* With one Worker the cursor never moves back: the transaction that writes  *)
(* it whatever it holds (distillation.ts:1466) finds the cursor where its    *)
(* range begins, or already where it ends.                                  *)
(***************************************************************************)
THEOREM CursorAdvancesAlways == ASSUME OneAtATime PROVE Spec => CursorAdvances
<1>1. Inv /\ RangeInv /\ [Next]_vars => CursorForward
  BY OthersKeepCursor, AdvanceCursorForward, FinishForward DEF CursorForward
<1>2. Inv /\ RangeInv /\ [Next]_vars =>
        [cursor' # cursor => cursor'.gen > cursor.gen /\ cursor'.through >= cursor.through]_vars
  BY <1>1 DEF CursorForward
<1> QED BY <1>2, RangeInvariant, PTL DEF Spec, CursorAdvances



-----------------------------------------------------------------------------
(***************************************************************************)
(* With one Worker nobody takes an operation over before it is done with.   *)
(***************************************************************************)
IdlePlaces == {"recover", "prepare", "assign", "queue", "claim"}
OwnPlaces == {"bind", "mark", "complete", "fail", "distill", "persist", "finalize",
              "queueBatch", "ingest", "cursor", "load", "consolidate", "checkpoint", "pages",
              "finish"}

OwnAt(v) == /\ worker[v].at \in OwnPlaces => Owns(v)
            /\ worker[v].at \in IdlePlaces => ~worker[v].try
OwnInv == \A v \in Worker : OwnAt(v)

LEMMA OwnStarts ==
  ASSUME OneAtATime, InPlace, NEW w \in Worker, worker' = [worker EXCEPT ![w] = Start]
  PROVE  OwnInv'
<1>1. worker'[w] = Start
  BY DEF InPlace
<1> QED BY <1>1 DEF OneAtATime, OwnInv, OwnAt, Start, OwnPlaces

LEMMA OwnIdles ==
  ASSUME OneAtATime, InPlace, OwnInv, NEW w \in Worker, worker[w].at \in IdlePlaces,
         worker'[w].at \in IdlePlaces, worker'[w].try = worker[w].try
  PROVE  OwnInv'
BY DEF OneAtATime, OwnInv, OwnAt, OwnPlaces, IdlePlaces

LEMMA OwnWorks ==
  ASSUME OneAtATime, Inv, OwnInv, NEW w \in Worker, worker[w].at \in OwnPlaces,
         worker'[w].at \in OwnPlaces, worker'[w].op = worker[w].op,
         \A o \in Op : op[o].state = "processing" => op'[o].state = "processing" /\ op'[o].by = op[o].by
  PROVE  OwnInv'
<1>1. Owns(w) /\ worker[w].op \in Op
  BY OwnedOperation DEF OwnInv, OwnAt
<1>2. Owns(w)'
  BY <1>1 DEF Owns
<1> QED BY <1>2 DEF OneAtATime, OwnInv, OwnAt, OwnPlaces, IdlePlaces

LEMMA OwnThrows ==
  ASSUME OneAtATime, Inv, OwnInv, NEW w \in Worker, UNCHANGED op, Throw(w),
         worker[w].at \in OwnPlaces \cup IdlePlaces
  PROVE  OwnInv'
<1>1. InPlace
  BY DEF Inv
<1>2. CASE worker'[w] = Start
  BY <1>2 DEF OneAtATime, OwnInv, OwnAt, Start, OwnPlaces
<1>3. CASE worker[w].try /\ worker'[w].at = "fail" /\ worker'[w].op = worker[w].op
  <2>1. worker[w].at \in OwnPlaces
    BY <1>3 DEF OwnInv, OwnAt
  <2> QED BY <1>3, <2>1, OwnWorks DEF OwnPlaces
<1> QED BY <1>1, <1>2, <1>3, ThrowsTo

LEMMA IdleSteps ==
  ASSUME OneAtATime, Inv, OwnInv, NEW w \in Worker,
         Recover(w) \/ Select(w) \/ Assign(w)
  PROVE  OwnInv'
<1>1. worker \in [Worker -> WorkerRow] /\ InPlace
  BY DEF Inv, InPlace
<1>2. CASE Goto(w, "prepare") \/ Goto(w, "queue")
  <2>1. worker'[w].at \in IdlePlaces /\ worker'[w].try = worker[w].try
    BY <1>1, <1>2, GoesTo DEF IdlePlaces
  <2> QED BY <1>1, <2>1, OwnIdles DEF Recover, Select, Assign, IdlePlaces
<1>3. ASSUME NEW s, NEW at \in {"assign", "queue"},
             worker' = [worker EXCEPT ![w].at = at, ![w].selected = s]
      PROVE  OwnInv'
  <2>1. worker'[w].at \in IdlePlaces /\ worker'[w].try = worker[w].try
    BY <1>1, <1>3 DEF IdlePlaces, WorkerRow
  <2> QED BY <1>1, <2>1, OwnIdles DEF Recover, Select, Assign, IdlePlaces
<1> QED BY <1>2, <1>3 DEF Recover, Select, Assign

LEMMA QueueSteps ==
  ASSUME OneAtATime, Inv, OwnInv, NEW w \in Worker, Poll(w) \/ QueueAfterBatch(w)
  PROVE  OwnInv'
<1>1. InPlace /\ op \in [Op -> OpRow]
  BY DEF Inv, InPlace, StoreInv, Tables
<1>2. \A o \in Op : op[o].state = "processing" => op'[o] = op[o]
  <2>1. CASE UNCHANGED op
    BY <2>1
  <2>2. CASE Ready /\ Unused # {} /\ QueueRange
    <3>1. op' = [op EXCEPT ![NextRange] = Owned] /\ op[NextRange].state = "absent"
      BY <2>2, RangeIsNew DEF QueueRange, Inv
    <3> QED BY <1>1, <3>1
  <2> QED BY <2>1, <2>2 DEF Poll, QueueAfterBatch, QueueIfReady, store
<1>3. CASE Throw(w) /\ UNCHANGED store
  BY <1>3, OwnThrows DEF Poll, QueueAfterBatch, OwnPlaces, IdlePlaces, store
<1>4. CASE worker[w].at = "queue" /\ Goto(w, "claim")
  <2>1. worker'[w].at = "claim" /\ worker'[w].try = worker[w].try
    BY <1>1, <1>4, GoesTo
  <2> QED BY <1>1, <1>4, <2>1, OwnIdles DEF IdlePlaces
<1>5. CASE worker[w].at = "queueBatch" /\ Goto(w, "complete")
  <2>1. worker'[w].at = "complete" /\ worker'[w].op = worker[w].op
    BY <1>1, <1>5, GoesTo
  <2> QED BY <1>2, <1>5, <2>1, OwnWorks DEF OwnPlaces
<1> QED BY <1>3, <1>4, <1>5 DEF Poll, QueueAfterBatch, QueueIfReady

LEMMA ClaimOwns ==
  ASSUME OneAtATime, Inv, OwnInv, NEW w \in Worker, Claim(w)
  PROVE  OwnInv'
<1>1. InPlace /\ op \in [Op -> OpRow] /\ worker \in [Worker -> WorkerRow] /\ 0 \notin Op
  BY Constants DEF Inv, InPlace, StoreInv, Tables
<1>2. CASE Goto(w, "recover")
  <2>1. worker'[w].at = "recover" /\ worker'[w].try = worker[w].try
    BY <1>1, <1>2, GoesTo
  <2> QED BY <1>1, <2>1, OwnIdles DEF IdlePlaces, Claim
<1>3. CASE \E o \in Op :
          /\ op' = [op EXCEPT ![o].state = "processing", ![o].by = w, ![o].due = FALSE,
                               ![o].tries = IF @ > FastRetries THEN @ ELSE @ + 1]
          /\ worker' = [worker EXCEPT ![w].at = "bind", ![w].op = o]
  <2>1. PICK o \in Op :
          /\ op' = [op EXCEPT ![o].state = "processing", ![o].by = w, ![o].due = FALSE,
                               ![o].tries = IF @ > FastRetries THEN @ ELSE @ + 1]
          /\ worker' = [worker EXCEPT ![w].at = "bind", ![w].op = o]
    BY <1>3
  <2>2. worker'[w].at = "bind" /\ worker'[w].op = o
    BY <1>1, <2>1 DEF WorkerRow
  <2>3. op'[o].state = "processing" /\ op'[o].by = w
    BY <1>1, <2>1 DEF OpRow
  <2>4. Owns(w)'
    BY <1>1, <2>2, <2>3 DEF Owns
  <2> QED BY <2>2, <2>4 DEF OneAtATime, OwnInv, OwnAt, IdlePlaces
<1> QED BY <1>2, <1>3 DEF Claim

LEMMA WorkSteps ==
  ASSUME OneAtATime, Inv, OwnInv, NEW w \in Worker,
         \/ Bind(w) \/ Mark(w) \/ Distill(w) \/ Persist(w) \/ Finalize(w) \/ IngestBatch(w)
         \/ AdvanceCursor(w) \/ Load(w) \/ Consolidate(w) \/ Checkpoint(w) \/ IngestPages(w)
         \/ Finish(w) \/ \E category \in {"model", "schema_invalid"} : ModelFails(w, category)
  PROVE  OwnInv'
<1>1. worker \in [Worker -> WorkerRow] /\ InPlace
  BY DEF Inv, InPlace
<1>2. UNCHANGED op /\ worker[w].at \in OwnPlaces
  BY DEF Bind, Mark, Distill, Persist, Finalize, IngestBatch, AdvanceCursor, Load, Consolidate,
         Checkpoint, IngestPages, Finish, ModelFails, store, OwnPlaces
<1>3. CASE Throw(w)
  BY <1>2, <1>3, OwnThrows
<1>4. CASE \E at \in OwnPlaces : Goto(w, at)
  <2>1. worker'[w].at \in OwnPlaces /\ worker'[w].op = worker[w].op
    BY <1>1, <1>4, GoesTo
  <2> QED BY <1>2, <2>1, OwnWorks
<1>5. CASE Mark(w)
  <2>1. worker'[w].at \in OwnPlaces /\ worker'[w].op = worker[w].op
    BY <1>1, <1>5 DEF Mark, WorkerRow, OwnPlaces
  <2> QED BY <1>2, <2>1, OwnWorks
<1>6. CASE Load(w) /\ ~Throw(w)
  <2>1. worker'[w].at \in OwnPlaces /\ worker'[w].op = worker[w].op
    BY <1>1, <1>6 DEF Load, WorkerRow, OwnPlaces
  <2> QED BY <1>2, <2>1, OwnWorks
<1>7. CASE \E category \in {"model", "schema_invalid"} : ModelFails(w, category)
  <2>1. worker'[w].at \in OwnPlaces /\ worker'[w].op = worker[w].op
    BY <1>1, <1>7 DEF ModelFails, WorkerRow, OwnPlaces
  <2> QED BY <1>2, <2>1, OwnWorks
<1>8. CASE Bind(w) \/ Distill(w) \/ Persist(w) \/ Finalize(w)
  BY <1>3, <1>4, <1>8 DEF Bind, Distill, Persist, Finalize, OwnPlaces
<1>9. CASE \/ IngestBatch(w) \/ AdvanceCursor(w) \/ Consolidate(w) \/ Checkpoint(w)
           \/ IngestPages(w) \/ Finish(w)
  BY <1>3, <1>4, <1>9
     DEF IngestBatch, AdvanceCursor, Consolidate, Checkpoint, IngestPages, Finish, OwnPlaces
<1> QED BY <1>5, <1>3, <1>6, <1>7, <1>8, <1>9

LEMMA EndSteps ==
  ASSUME OneAtATime, Inv, OwnInv, NEW w \in Worker,
         \/ Complete(w) \/ FailOperation(w) \/ Mirror(w) \/ NotSplit(w) \/ Crash(w) \/ Fault(w)
         \/ \E at \in Event : Split(w, at)
  PROVE  OwnInv'
<1>1. worker \in [Worker -> WorkerRow] /\ InPlace
  BY DEF Inv, InPlace
<1>2. CASE worker' = [worker EXCEPT ![w] = Start]
  BY <1>1, <1>2, OwnStarts
<1>3. CASE (Complete(w) \/ Fault(w)) /\ Throw(w) /\ UNCHANGED op
  BY <1>3, OwnThrows DEF Complete, Fault, OwnPlaces
<1>4. CASE \E s : worker' = [worker EXCEPT ![w].at = "mirror", ![w].failed = s]
  <2>1. worker'[w].at = "mirror"
    BY <1>1, <1>4 DEF WorkerRow
  <2> QED BY <2>1 DEF OneAtATime, OwnInv, OwnAt, OwnPlaces, IdlePlaces
<1>5. CASE worker' = [worker EXCEPT ![w] = [worker[w] EXCEPT !.at = "split"]]
  <2>1. worker'[w].at = "split"
    BY <1>1, <1>5 DEF WorkerRow
  <2> QED BY <2>1 DEF OneAtATime, OwnInv, OwnAt, OwnPlaces, IdlePlaces
<1>6. CASE Complete(w) \/ Fault(w)
  BY <1>2, <1>3, <1>6 DEF Complete, Fault
<1>7. CASE FailOperation(w) \/ Mirror(w)
  BY <1>2, <1>4, <1>5, <1>7 DEF FailOperation, Mirror
<1> QED BY <1>2, <1>6, <1>7 DEF NotSplit, Crash, Split

LEMMA StepOwns ==
  ASSUME OneAtATime, Inv, OwnInv, [Next]_vars
  PROVE  OwnInv'
<1>1. ASSUME NEW w \in Worker, Step(w) \/ Crash(w) \/ Fault(w) PROVE OwnInv'
  <2>1. CASE \/ Recover(w) \/ Select(w) \/ Assign(w) \/ Poll(w) \/ Claim(w) \/ QueueAfterBatch(w)
    BY <2>1, IdleSteps, QueueSteps, ClaimOwns
  <2>2. CASE \/ Complete(w) \/ FailOperation(w) \/ Mirror(w) \/ NotSplit(w) \/ Crash(w) \/ Fault(w)
             \/ \E at \in Event : Split(w, at)
    BY <2>2, EndSteps
  <2>3. CASE \/ Bind(w) \/ Mark(w) \/ Distill(w) \/ Persist(w) \/ Finalize(w) \/ IngestBatch(w)
             \/ AdvanceCursor(w) \/ Load(w) \/ Consolidate(w) \/ Checkpoint(w) \/ IngestPages(w)
             \/ Finish(w) \/ \E category \in {"model", "schema_invalid"} : ModelFails(w, category)
    BY <2>3, WorkSteps
  <2> QED BY <1>1, <2>1, <2>2, <2>3 DEF Step
<1>2. ASSUME UNCHANGED worker,
             \A o \in Op : op[o].state = "processing" =>
               op'[o].state = "processing" /\ op'[o].by = op[o].by
      PROVE  OwnInv'
  <2>1. ASSUME NEW v \in Worker, Owns(v) PROVE Owns(v)'
    BY <1>2, <2>1, OwnedOperation DEF Owns
  <2> QED BY <1>2, <2>1 DEF OwnInv, OwnAt
<1>3. ASSUME NEW e \in Event, NEW kind, NEW turn, Capture(e, kind, turn) PROVE OwnInv'
  BY <1>2, <1>3 DEF Capture
<1>4. ASSUME NEW o \in Op, TimePasses(o) \/ Retry(o) PROVE OwnInv'
  <2>1. op \in [Op -> OpRow]
    BY DEF Inv, StoreInv, Tables
  <2>2. \A p \in Op : op[p].state = "processing" =>
           op'[p].state = "processing" /\ op'[p].by = op[p].by
    BY <1>4, <2>1 DEF TimePasses, Retry, OpRow
  <2> QED BY <1>2, <1>4, <2>2 DEF TimePasses, Retry
<1>5. CASE UNCHANGED vars
  BY <1>2, <1>5 DEF vars
<1> QED BY <1>1, <1>3, <1>4, <1>5 DEF Next

LEMMA InitOwns ==
  ASSUME Init
  PROVE  OwnInv
BY DEF Init, OwnInv, OwnAt, Start, OwnPlaces



-----------------------------------------------------------------------------
(***************************************************************************)
(* A Worker that does not die closes the operation of a consolidation soon   *)
(* after its row is completed, before anybody makes another range.          *)
(***************************************************************************)
ClosePlaces == {"complete", "fail", "mirror"}

ClosingSoon ==
  cons.op # 0 /\ cons.state = "completed" /\ op[cons.op].state \in Live =>
    \A v \in Worker : worker[v].at \in ClosePlaces /\ worker[v].op = cons.op

BoundInv == ConsolidationBound /\ ClosingSoon
CloseInv == RangeInv /\ OwnInv /\ BoundInv

\* No range comes to life, and the row does not become completed.
NoneRevived ==
  /\ cons'.op = cons.op /\ (cons'.state = "completed" => cons.state = "completed")
  /\ \A r \in Ranges : op'[r].state \in Live => op[r].state \in Live

LEMMA BoundStays ==
  ASSUME Inv, BoundInv, NoneRevived
  PROVE  /\ ConsolidationBound'
         /\ UNCHANGED worker => ClosingSoon'
         /\ \A w \in Worker : worker[w].at \notin ClosePlaces => ClosingSoon'
<1>1. cons.op \in Ranges \cup {0}
  BY DEF Inv, StoreInv, Tables, ConsRow
<1> QED BY <1>1 DEF BoundInv, NoneRevived, ConsolidationBound, ClosingSoon

LEMMA CalmRevivesNone ==
  ASSUME Calm, \A r \in Ranges : op'[r].state \in Live => op[r].state \in Live
  PROVE  NoneRevived
BY DEF Calm, NoneRevived

LEMMA LiveClaims ==
  ASSUME Inv, NEW r \in Op, Claimable(r)
  PROVE  op[r].state \in Live
BY DEF Claimable, Live

LEMMA QuietRevivesNone ==
  ASSUME Inv, NEW w \in Worker, QuietWork(w)
  PROVE  NoneRevived
<1>1. op \in [Op -> OpRow] /\ Batch \cap Ranges = {} /\ Ranges \subseteq Op
  BY Constants DEF Inv, StoreInv, Tables, Op
<1>2. \A r \in Ranges : op'[r].state \in Live => op[r].state \in Live
  <2>1. CASE UNCHANGED op
    BY <2>1
  <2>2. CASE Recover(w) /\ ~UNCHANGED op
    <3>1. PICK b \in Batch : op' = Finished(b)
      BY <2>2 DEF Recover, store
    <3> QED BY <1>1, <3>1 DEF Finished, Op
  <2>3. CASE Claim(w) /\ ~UNCHANGED op
    <3>1. PICK o \in Op :
            /\ Selected(o)
            /\ op' = [op EXCEPT ![o].state = "processing", ![o].by = w, ![o].due = FALSE,
                               ![o].tries = IF @ > FastRetries THEN @ ELSE @ + 1]
      BY <2>3 DEF Claim
    <3>2. op[o].state \in Live
      BY <3>1, LiveClaims DEF Selected
    <3> QED BY <1>1, <3>1, <3>2 DEF OpRow
  <2>4. CASE (Complete(w) \/ FailOperation(w)) /\ ~UNCHANGED op
    <3>1. worker[w].op \in Op /\ op[worker[w].op].state = "processing"
      BY <2>4, OwnedOperation DEF Complete, FailOperation
    <3>2. \A r \in Ranges : r # worker[w].op => op'[r] = op[r]
      BY <1>1, <2>4 DEF Complete, FailOperation, Finished
    <3> QED BY <3>1, <3>2 DEF Live
  <2>5. CASE Select(w) \/ Bind(w) \/ Mark(w) \/ Distill(w) \/ Persist(w) \/ Mirror(w)
    BY <2>5 DEF Select, Bind, Mark, Distill, Persist, Mirror, store
  <2>6. CASE \/ NotSplit(w) \/ Crash(w) \/ Fault(w)
             \/ \E category \in {"model", "schema_invalid"} : ModelFails(w, category)
    BY <2>6 DEF NotSplit, Crash, Fault, ModelFails, store
  <2> QED BY <2>1, <2>2, <2>3, <2>4, <2>5, <2>6 DEF QuietWork
<1> QED BY <1>2, QuietWorkIsCalm, CalmRevivesNone

\* Nothing is being closed while the Worker is elsewhere.
LEMMA BusySteps ==
  ASSUME Inv, BoundInv, NEW w \in Worker,
         \/ Recover(w) \/ Select(w) \/ Claim(w) \/ Bind(w) \/ Mark(w) \/ Distill(w) \/ Persist(w)
         \/ NotSplit(w) \/ \E category \in {"model", "schema_invalid"} : ModelFails(w, category)
         \/ Fault(w) /\ worker[w].at # "complete"
  PROVE  BoundInv'
<1>1. worker[w].at \notin ClosePlaces
  BY DEF Recover, Select, Claim, Bind, Mark, Distill, Persist, NotSplit, ModelFails, Fault,
         ClosePlaces
<1>2. NoneRevived
  BY QuietRevivesNone DEF QuietWork
<1> QED BY <1>1, <1>2, BoundStays DEF BoundInv

LEMMA OtherBusySteps ==
  ASSUME Inv, BoundInv, NEW w \in Worker,
         \/ Finalize(w) \/ IngestBatch(w) \/ AdvanceCursor(w) \/ Load(w) \/ Consolidate(w)
         \/ Checkpoint(w) \/ IngestPages(w) \/ Assign(w) \/ \E at \in Event : Split(w, at)
  PROVE  BoundInv'
<1>1. worker[w].at \notin ClosePlaces
  BY DEF Finalize, IngestBatch, AdvanceCursor, Load, Consolidate, Checkpoint, IngestPages,
         Assign, Split, ClosePlaces
<1>2. \A r \in Ranges : op'[r] = op[r]
  BY AssignMakes, SplitMakes
     DEF Finalize, IngestBatch, AdvanceCursor, Load, Consolidate, Checkpoint, IngestPages, store
<1>3. cons'.op = cons.op /\ cons'.state = cons.state
  BY DEF Finalize, IngestBatch, AdvanceCursor, Load, Consolidate, Checkpoint, IngestPages,
         Assign, Split, store, Inv, StoreInv, Tables, ConsRow
<1>4. NoneRevived
  BY <1>2, <1>3 DEF NoneRevived
<1> QED BY <1>1, <1>4, BoundStays DEF BoundInv

LEMMA QueueBound ==
  ASSUME Inv, CloseInv, NEW w \in Worker, Poll(w) \/ QueueAfterBatch(w)
  PROVE  BoundInv'
<1>1. worker[w].at \notin ClosePlaces
  BY DEF Poll, QueueAfterBatch, ClosePlaces
<1>2. CASE UNCHANGED store
  <2>1. NoneRevived
    BY <1>2 DEF NoneRevived, store
  <2> QED BY <1>1, <2>1, BoundStays DEF CloseInv, BoundInv
<1>3. CASE Ready /\ Unused # {} /\ QueueRange
  <2>1. /\ op \in [Op -> OpRow] /\ NextRange \in Ranges /\ op' = [op EXCEPT ![NextRange] = Owned]
        /\ cons' = [op |-> NextRange, state |-> "queued", result |-> NoResult]
    BY <1>3, RangeIsNew DEF QueueRange, Inv, StoreInv, Tables
  <2>2. cons.op \in Ranges \cup {0}
    BY DEF Inv, StoreInv, Tables, ConsRow
  <2>3. ASSUME NEW r \in Ranges, op[r].state \in Live PROVE FALSE
    <3>1. cons.op = r /\ r # 0
      BY <2>3, Constants DEF CloseInv, BoundInv, ConsolidationBound
    <3>2. cons.state = "completed"
      BY <1>3, <3>1 DEF Ready
    <3> QED BY <1>1, <2>3, <3>1, <3>2 DEF CloseInv, BoundInv, ClosingSoon
  <2>4. \A r \in Ranges : op'[r].state \in Live => r = NextRange
    BY <2>1, <2>3 DEF Op
  <2>5. ConsolidationBound'
    BY <2>1, <2>4 DEF ConsolidationBound
  <2>6. ClosingSoon'
    BY <2>1 DEF ClosingSoon
  <2> QED BY <2>5, <2>6 DEF BoundInv
<1> QED BY <1>2, <1>3 DEF Poll, QueueAfterBatch, QueueIfReady

LEMMA FinishBound ==
  ASSUME OneAtATime, Inv, CloseInv, NEW w \in Worker, Finish(w)
  PROVE  BoundInv'
<1>1. cons.op = worker[w].op
  BY DEF CloseInv, RangeInv, AllWork, WorksOn, Finish
<1>2. UNCHANGED op /\ cons'.op = cons.op
  BY DEF Finish, Inv, StoreInv, Tables, ConsRow
<1>3. worker'[w].at = "complete" /\ worker'[w].op = cons.op
  BY <1>1, GoesTo DEF Finish, Inv
<1>4. ConsolidationBound'
  BY <1>2 DEF CloseInv, BoundInv, ConsolidationBound
<1>5. ClosingSoon'
  BY <1>2, <1>3 DEF OneAtATime, ClosingSoon, ClosePlaces
<1> QED BY <1>4, <1>5 DEF BoundInv

LEMMA CompleteBound ==
  ASSUME Inv, CloseInv, NEW w \in Worker, Complete(w)
  PROVE  BoundInv'
<1>1. NoneRevived
  BY QuietRevivesNone DEF QuietWork
<1>2. Owns(w) /\ worker[w].op \in Op
  BY OwnedOperation DEF CloseInv, OwnInv, OwnAt, Complete, OwnPlaces
<1>3. op'[worker[w].op].state = "completed"
  BY <1>2 DEF Complete, Finished, Inv, StoreInv, Tables, OpRow
<1>4. ASSUME cons'.op # 0, cons'.state = "completed", op'[cons'.op].state \in Live PROVE FALSE
  <2>1. cons.op \in Ranges /\ op[cons.op].state \in Live /\ cons.op # 0
    BY <1>1, <1>4 DEF NoneRevived, Inv, StoreInv, Tables, ConsRow
  <2>2. worker[w].op = cons.op
    BY <1>1, <1>4, <2>1 DEF NoneRevived, CloseInv, BoundInv, ClosingSoon
  <2> QED BY <1>1, <1>3, <1>4, <2>2 DEF NoneRevived, Live
<1>5. ClosingSoon'
  BY <1>4 DEF ClosingSoon
<1> QED BY <1>1, <1>5, BoundStays DEF BoundInv, CloseInv

LEMMA FailOperationBound ==
  ASSUME OneAtATime, Inv, CloseInv, NEW w \in Worker, FailOperation(w)
  PROVE  BoundInv'
<1>1. NoneRevived
  BY QuietRevivesNone DEF QuietWork
<1>2. Owns(w)
  BY DEF CloseInv, OwnInv, OwnAt, FailOperation, OwnPlaces
<1>3. worker'[w].at = "mirror" /\ worker'[w].op = worker[w].op
  BY <1>2 DEF FailOperation, Inv, InPlace, WorkerRow
<1>4. ASSUME cons'.op # 0, cons'.state = "completed", op'[cons'.op].state \in Live
      PROVE  worker[w].op = cons'.op
  <2>1. cons.op \in Ranges /\ op[cons.op].state \in Live /\ cons.op # 0
    BY <1>1, <1>4 DEF NoneRevived, Inv, StoreInv, Tables, ConsRow
  <2> QED BY <1>1, <1>4, <2>1 DEF NoneRevived, CloseInv, BoundInv, ClosingSoon
<1>5. ClosingSoon'
  BY <1>3, <1>4 DEF OneAtATime, ClosingSoon, ClosePlaces
<1> QED BY <1>1, <1>5, BoundStays DEF BoundInv, CloseInv

LEMMA MirrorBound ==
  ASSUME Inv, CloseInv, NEW w \in Worker, Mirror(w)
  PROVE  BoundInv'
<1>1. NoneRevived
  BY QuietRevivesNone DEF QuietWork
<1>2. UNCHANGED op /\ cons \in ConsRow /\ worker[w].failed \in {"retrying", "blocked"}
  BY DEF Mirror, Inv, StoreInv, Tables, InPlace, AtPlace, WorkerRow
<1>3. ASSUME cons'.op # 0, cons'.state = "completed", op'[cons'.op].state \in Live PROVE FALSE
  <2>1. cons.op \in Ranges /\ worker[w].op = cons.op /\ worker[w].op \notin Batch
    BY <1>1, <1>2, <1>3, Constants
       DEF NoneRevived, ConsRow, CloseInv, BoundInv, ClosingSoon
  <2>2. cons' = [cons EXCEPT !.state = worker[w].failed]
    BY <2>1 DEF Mirror
  <2> QED BY <1>2, <1>3, <2>2 DEF ConsRow
<1>4. ClosingSoon'
  BY <1>3 DEF ClosingSoon
<1> QED BY <1>1, <1>4, BoundStays DEF BoundInv, CloseInv

LEMMA FaultBound ==
  ASSUME OneAtATime, Inv, CloseInv, NEW w \in Worker, Fault(w)
  PROVE  BoundInv'
<1>1. CASE worker[w].at # "complete"
  BY <1>1, BusySteps DEF CloseInv
<1>2. CASE worker[w].at = "complete"
  <2>1. UNCHANGED <<op, cons>>
    BY DEF Fault
  <2>2. worker'[w].at = "fail" /\ worker'[w].op = worker[w].op
    BY ThrowsTo DEF Fault, Inv
  <2>3. ClosingSoon'
    BY <2>1, <2>2 DEF OneAtATime, CloseInv, BoundInv, ClosingSoon, ClosePlaces
  <2>4. ConsolidationBound'
    BY <2>1 DEF CloseInv, BoundInv, ConsolidationBound
  <2> QED BY <2>3, <2>4 DEF BoundInv
<1> QED BY <1>1, <1>2

LEMMA OutsideBound ==
  ASSUME Inv, BoundInv,
         \/ \E e \in Event, kind \in {"content", "end"}, turn \in Turn : Capture(e, kind, turn)
         \/ \E o \in Op : TimePasses(o) \/ Retry(o)
  PROVE  BoundInv'
<1>1. op \in [Op -> OpRow] /\ Ranges \subseteq Op
  BY DEF Inv, StoreInv, Tables, Op
<1>2. UNCHANGED <<cons, worker>>
  BY DEF Capture, TimePasses, Retry
<1>3. \A r \in Ranges : op'[r].state \in Live => op[r].state \in Live
  BY <1>1 DEF Capture, TimePasses, Retry, OpRow, Live
<1>4. NoneRevived
  BY <1>2, <1>3 DEF NoneRevived
<1> QED BY <1>2, <1>4, BoundStays DEF BoundInv

LEMMA StepBound ==
  ASSUME OneAtATime, MaxCrashes = 0, Inv, CloseInv, [Next]_vars
  PROVE  CloseInv'
<1>1. RangeInv' /\ OwnInv'
  BY StepRange, StepOwns DEF CloseInv
<1> SUFFICES BoundInv'
  BY <1>1 DEF CloseInv
<1>2. ASSUME NEW w \in Worker, Step(w) \/ Crash(w) \/ Fault(w) PROVE BoundInv'
  <2>1. ~Crash(w)
    BY DEF Crash, Inv, StoreInv, Tables, SpentRow
  <2>2. CASE \/ Recover(w) \/ Select(w) \/ Claim(w) \/ Bind(w) \/ Mark(w) \/ Distill(w)
             \/ Persist(w) \/ NotSplit(w)
             \/ \E category \in {"model", "schema_invalid"} : ModelFails(w, category)
    BY <2>2, BusySteps DEF CloseInv
  <2>3. CASE \/ Finalize(w) \/ IngestBatch(w) \/ AdvanceCursor(w) \/ Load(w) \/ Consolidate(w)
             \/ Checkpoint(w) \/ IngestPages(w) \/ Assign(w) \/ \E at \in Event : Split(w, at)
    BY <2>3, OtherBusySteps DEF CloseInv
  <2>4. CASE \/ Poll(w) \/ QueueAfterBatch(w) \/ Finish(w) \/ Complete(w) \/ FailOperation(w)
             \/ Mirror(w) \/ Fault(w)
    BY <2>4, QueueBound, FinishBound, CompleteBound, FailOperationBound, MirrorBound, FaultBound
  <2> QED BY <1>2, <2>1, <2>2, <2>3, <2>4 DEF Step
<1>3. ASSUME NEW e \in Event, NEW kind \in {"content", "end"}, NEW turn \in Turn,
             Capture(e, kind, turn)
      PROVE  BoundInv'
  BY <1>3, OutsideBound DEF CloseInv
<1>4. ASSUME NEW o \in Op, TimePasses(o) \/ Retry(o) PROVE BoundInv'
  BY <1>4, OutsideBound DEF CloseInv
<1>5. CASE UNCHANGED vars
  <2>1. NoneRevived /\ UNCHANGED worker
    BY <1>5 DEF vars, NoneRevived
  <2> QED BY <2>1, BoundStays DEF CloseInv, BoundInv
<1> QED BY <1>2, <1>3, <1>4, <1>5 DEF Next

(***************************************************************************)
(* One Worker that does not die never leaves a consolidation that may still  *)
(* be claimed behind: its operation is closed, or failed and the row with    *)
(* it, before another range is made (distillation.ts:1232).                 *)
(***************************************************************************)
THEOREM ConsolidationBoundAlways ==
  ASSUME OneAtATime, MaxCrashes = 0 PROVE Spec => []ConsolidationBound
<1>1. Init => Inv /\ CloseInv
  <2>1. Init => BoundInv
    BY DEF Init, BoundInv, ConsolidationBound, ClosingSoon, Op, Owned, Live
  <2> QED BY <2>1, InitKeeps, InitRange, InitOwns DEF CloseInv
<1>2. Inv /\ CloseInv /\ [Next]_vars => (Inv /\ CloseInv)'
  BY NextKeeps, StepBound
<1>3. CloseInv => ConsolidationBound
  BY DEF CloseInv, BoundInv
<1> QED BY <1>1, <1>2, <1>3, PTL DEF Spec



-----------------------------------------------------------------------------
(***************************************************************************)
(* Without database errors a Batch that is distilled stays so, and what is   *)
(* consolidated is what was distilled.                                      *)
(***************************************************************************)
Distilled(b) == batch[b].state = "completed"
Within(r) == InRange(range[r].from, range[r].through)
DoneRange(r) == \A b \in Within(r) : Distilled(b)

ConsInv ==
  /\ NoBatchSkipped /\ CheckpointReusable
  /\ cons.op # 0 /\ cons.state # "completed" => DoneRange(cons.op)

OpsDone ==
  /\ CompletedIsDone
  /\ \A e \in Event : event[e].done => event[e].batch # 0
  /\ \A b \in Batch : Distilled(b) => op[b].state \in {"processing", "completed"}

BeforeResult == {"mark", "distill", "persist", "fail", "mirror", "split"}
AfterResult == {"finalize", "queueBatch", "ingest", "cursor", "complete"}
InRangePlaces == {"mark", "load", "consolidate", "checkpoint", "pages", "finish", "fail", "mirror"}
WithInput == {"consolidate", "checkpoint", "pages", "finish"}

HasDone(v) == LET m == worker[v] IN
  /\ m.op \in Batch /\ m.at \in BeforeResult => ~Distilled(m.op)
  /\ m.op \in Batch /\ m.at \in AfterResult => Distilled(m.op)
  /\ m.op \in Ranges /\ m.at = "complete" => range[m.op].through <= cursor.through
  /\ m.op \in Ranges /\ m.at \in InRangePlaces => cons.op = m.op /\ cons.state # "completed"
  /\ m.at \in WithInput => m.input = Results(m.op)
  /\ m.at = "finish" => \A b \in Within(m.op) : b \in ingested
  /\ m.at = "cursor" => m.op \in ingested
  /\ m.at = "bind" => ~m.try

WorkDone == \A v \in Worker : HasDone(v)
ResultInv == ConsInv /\ OpsDone /\ WorkDone
DoneInv == RangeInv /\ OwnInv /\ ResultInv

\* A distilled Batch is left alone, and a Batch that appears comes after all others.
Steady ==
  /\ \A b \in Batches : Distilled(b) => batch'[b] = batch[b]
  /\ \A b \in Batches' : b \in Batches \/ b \notin Made

LEMMA NewBatchesLast ==
  ASSUME Inv, Steady, NEW b \in Batches', NEW t \in Made \cup {0}, b <= t
  PROVE  b \in Batches
<1>1. NextBatch \in Nat \ {0} /\ Made = 1..(NextBatch - 1)
  BY NextIsNew DEF Inv
<1>2. b \in Nat /\ b >= 1
  BY DistillationAssumption DEF Batches, Batch
<1> QED BY <1>1, <1>2 DEF Steady

LEMMA SteadyRange ==
  ASSUME Inv, RangeInv, Steady, NEW r \in Ranges, Used(r), DoneRange(r), range'[r] = range[r]
  PROVE  Within(r)' = Within(r) /\ DoneRange(r)' /\ Results(r)' = Results(r)
<1>1. range[r].through \in Made \cup {0}
  BY DEF RangeInv, RangeTables, RangesOrdered
<1>2. \A b \in Within(r) : b \in Batches /\ batch[b].state = "completed" /\ batch'[b] = batch[b]
  BY DEF Steady, DoneRange, Within, InRange, Distilled
<1>3. Within(r)' \subseteq Within(r)
  BY <1>1, NewBatchesLast DEF Within, InRange
<1>4. Within(r) \subseteq Within(r)'
  BY <1>2 DEF Within, InRange, Batches
<1>5. Within(r)' = Within(r)
  BY <1>3, <1>4
<1>6. DoneRange(r)'
  BY <1>2, <1>5 DEF DoneRange, Distilled
<1>7. Results(r) = {<<b, batch[b].version>> : b \in Within(r)}
  BY <1>2 DEF Results, Within
<1>8. Results(r)' = {<<b, batch'[b].version>> : b \in Within(r)'}
  BY <1>2, <1>5 DEF Results, Within
<1> QED BY <1>2, <1>5, <1>6, <1>7, <1>8

LEMMA SteadyCons ==
  ASSUME Inv, RangeInv, ConsInv, Steady, UNCHANGED <<range, cursor>>, ingested \subseteq ingested',
         cons'.op = cons.op, cons'.result = cons.result,
         cons'.state # "completed" => cons.state # "completed"
  PROVE  /\ ConsInv'
         /\ cons.op # 0 /\ cons.state # "completed" =>
              /\ Within(cons.op)' = Within(cons.op) /\ Results(cons.op)' = Results(cons.op)
              /\ \A r \in Ranges : r = cons.op => Within(r)' = Within(r) /\ Results(r)' = Results(r)
<1>1. cursor.through \in Made \cup {0} /\ cons.op \in Ranges \cup {0}
  BY DEF RangeInv, RangeTables, CursorKnown, Inv, StoreInv, Tables, ConsRow
<1>2. NoBatchSkipped'
  BY <1>1, NewBatchesLast DEF NoBatchSkipped, ConsInv
<1>3. ASSUME cons.op # 0, cons.state # "completed"
      PROVE  /\ Within(cons.op)' = Within(cons.op) /\ Results(cons.op)' = Results(cons.op)
             /\ DoneRange(cons.op)'
             /\ \A r \in Ranges : r = cons.op => Within(r)' = Within(r) /\ Results(r)' = Results(r)
  <2>1. PICK r \in Ranges : r = cons.op
    BY <1>1, <1>3
  <2>2. Used(r) /\ DoneRange(r)
    <3>1. Used(cons.op) /\ DoneRange(cons.op)
      BY <1>3 DEF RangeInv, RangeTables, CursorKnown, ConsInv
    <3> QED BY <2>1, <3>1
  <2>3. Within(r)' = Within(r) /\ DoneRange(r)' /\ Results(r)' = Results(r)
    BY <2>2, SteadyRange
  <2>4. r = cons'.op
    BY <2>1
  <2>5. Within(cons.op)' = Within(r)' /\ Results(cons.op)' = Results(r)'
    BY <2>4 DEF Within, Results
  <2>6. Within(cons.op) = Within(r) /\ Results(cons.op) = Results(r)
    BY <2>1
  <2>7. DoneRange(cons.op)'
    BY <2>3, <2>5 DEF DoneRange
  <2> QED BY <2>1, <2>3, <2>5, <2>6, <2>7
<1>4. CheckpointReusable'
  BY <1>3 DEF CheckpointReusable, ConsInv
<1> QED BY <1>2, <1>3, <1>4 DEF ConsInv

LEMMA DoneByOne ==
  ASSUME OneAtATime, NEW w \in Worker, HasDone(w)'
  PROVE  WorkDone'
BY DEF OneAtATime, WorkDone, HasDone

LEMMA DoneAtStart ==
  ASSUME OneAtATime, InPlace, NEW w \in Worker,
         \/ worker' = [worker EXCEPT ![w] = Start]
         \/ worker'[w].at \in IdlePlaces
  PROVE  WorkDone'
<1>1. worker'[w].at \in IdlePlaces
  BY DEF InPlace, Start, IdlePlaces
<1>2. HasDone(w)'
  BY <1>1 DEF HasDone, IdlePlaces, BeforeResult, AfterResult, InRangePlaces, WithInput
<1> QED BY <1>2, DoneByOne


LEMMA SameStoreDone ==
  ASSUME Inv, DoneInv, UNCHANGED <<event, batch, op, range, cons, cursor, ingested>>
  PROVE  ConsInv' /\ OpsDone'
<1>1. Steady
  BY DEF Steady, Batches
<1>2. ConsInv'
  BY <1>1, SteadyCons DEF DoneInv, ResultInv
<1>3. OpsDone'
  BY DEF DoneInv, ResultInv, OpsDone, CompletedIsDone, Distilled
<1> QED BY <1>2, <1>3

\* The values a Worker's next steps depend on, in a step that writes none of them.
LEMMA SameStoreReads ==
  ASSUME UNCHANGED <<batch, range, cons, cursor, ingested>>
  PROVE  /\ \A b \in Batch : Distilled(b)' <=> Distilled(b)
         /\ \A r \in Ranges : Within(r)' = Within(r) /\ Results(r)' = Results(r)
BY DEF Distilled, Within, Results, InRange, Batches

LEMMA KeysFree ==
  ASSUME Inv, RangeInv, Ready
  PROVE  ~KeyTaken
<1>1. \A r \in Ranges : Used(r) => Passed(r)
  BY DEF RangeInv, RangeTables, CursorKnown, Ready, Unfinished
<1>2. cursor.gen \in Nat /\ \A r \in Ranges : range[r].gen \in Nat
  BY NumbersOfRanges
<1>3. ASSUME NEW r \in Ranges, Used(r), range[r] = NewRange PROVE FALSE
  <2>1. range[r].gen = cursor.gen + 1
    BY <1>3 DEF NewRange
  <2> QED BY <1>1, <1>2, <1>3, <2>1 DEF Passed
<1> QED BY <1>3 DEF KeyTaken, Used

LEMMA RestartDone ==
  ASSUME OneAtATime, Inv, DoneInv, NEW w \in Worker, Select(w) \/ NotSplit(w) \/ Crash(w)
  PROVE  ResultInv'
<1>1. ConsInv' /\ OpsDone'
  BY SameStoreDone DEF Select, NotSplit, Crash, store
<1>2. worker \in [Worker -> WorkerRow] /\ InPlace
  BY DEF Inv, InPlace
<1>3. CASE Select(w)
  <2>1. worker'[w].at \in IdlePlaces
    BY <1>2, <1>3 DEF Select, Goto, WorkerRow, IdlePlaces
  <2> QED BY <1>1, <1>2, <2>1, DoneAtStart DEF ResultInv
<1>4. CASE NotSplit(w) \/ Crash(w)
  BY <1>1, <1>2, <1>4, DoneAtStart DEF ResultInv, NotSplit, Crash
<1> QED BY <1>3, <1>4

LEMMA BindDone ==
  ASSUME OneAtATime, Inv, DoneInv, NEW w \in Worker, Bind(w)
  PROVE  ResultInv'
<1> DEFINE o == worker[w].op
<1>1. ConsInv' /\ OpsDone' /\ InPlace /\ Batch \cap Ranges = {}
  BY SameStoreDone, Constants DEF Bind, store, Inv
<1>2. /\ \A b \in Batch : Distilled(b)' <=> Distilled(b)
      /\ UNCHANGED <<cons, cursor, range>>
  BY SameStoreReads DEF Bind, store
<1>3. CASE Throw(w)
  <2>1. ~worker[w].try
    BY DEF DoneInv, ResultInv, WorkDone, HasDone, Bind
  <2>2. worker'[w] = Start
    BY <1>1, <1>3, <2>1, ThrowsTo
  <2> QED BY <1>1, <2>2, DoneAtStart DEF ResultInv, Start, IdlePlaces
<1>4. CASE o \in Batch /\ Distilled(o) /\ Goto(w, "finalize")
  <2>1. worker'[w].at = "finalize" /\ worker'[w].op = o
    BY <1>1, <1>4, GoesTo
  <2>2. HasDone(w)'
    BY <1>1, <1>2, <1>4, <2>1 DEF HasDone, BeforeResult, AfterResult, InRangePlaces, WithInput
  <2> QED BY <1>1, <2>2, DoneByOne DEF ResultInv
<1>5. CASE o \in Batch /\ ~Distilled(o) /\ Goto(w, "mark")
  <2>1. worker'[w].at = "mark" /\ worker'[w].op = o
    BY <1>1, <1>5, GoesTo
  <2>2. HasDone(w)'
    BY <1>1, <1>2, <1>5, <2>1 DEF HasDone, BeforeResult, AfterResult, InRangePlaces, WithInput
  <2> QED BY <1>1, <2>2, DoneByOne DEF ResultInv
<1>6. CASE o \in Ranges /\ cons.op = o /\ cons.state = "completed" /\ Goto(w, "complete")
  <2>1. worker'[w].at = "complete" /\ worker'[w].op = o
    BY <1>1, <1>6, GoesTo
  <2>2. range[o].through <= cursor.through
    BY <1>6, Constants
       DEF DoneInv, RangeInv, RangeTables, CursorKnown, Unfinished, Passed
  <2>3. HasDone(w)'
    BY <1>1, <1>2, <1>6, <2>1, <2>2 DEF HasDone, BeforeResult, AfterResult, InRangePlaces, WithInput
  <2> QED BY <1>1, <2>3, DoneByOne DEF ResultInv
<1>7. CASE o \in Ranges /\ cons.op = o /\ cons.state # "completed" /\ Goto(w, "mark")
  <2>1. worker'[w].at = "mark" /\ worker'[w].op = o
    BY <1>1, <1>7, GoesTo
  <2>2. HasDone(w)'
    BY <1>1, <1>2, <1>7, <2>1 DEF HasDone, BeforeResult, AfterResult, InRangePlaces, WithInput
  <2> QED BY <1>1, <2>2, DoneByOne DEF ResultInv
<1> QED BY <1>3, <1>4, <1>5, <1>6, <1>7 DEF Bind, Distilled

LEMMA DistillDone ==
  ASSUME OneAtATime, Inv, DoneInv, NEW w \in Worker,
         Distill(w) \/ Consolidate(w)
           \/ \E category \in {"model", "schema_invalid"} : ModelFails(w, category)
  PROVE  ResultInv'
<1> DEFINE o == worker[w].op
<1>1. /\ ConsInv' /\ OpsDone' /\ InPlace /\ Batch \cap Ranges = {}
      /\ worker \in [Worker -> WorkerRow] /\ o \in Op \cup {0} /\ AtPlace(worker[w])
  BY SameStoreDone, Constants DEF Distill, Consolidate, ModelFails, store, Inv, InPlace, WorkerRow
<1>2. /\ \A b \in Batch : Distilled(b)' <=> Distilled(b)
      /\ \A r \in Ranges : Results(r)' = Results(r)
      /\ UNCHANGED <<cons, cursor, range>>
  BY SameStoreReads DEF Distill, Consolidate, ModelFails, store
<1>3. HasDone(w)
  BY DEF DoneInv, ResultInv, WorkDone
<1>4. CASE Distill(w)
  <2>1. worker'[w].at = "persist" /\ worker'[w].op = o /\ o \in Batch /\ ~Distilled(o)
    BY <1>1, <1>3, <1>4, GoesTo DEF Distill, AtPlace, BatchPlaces, HasDone, BeforeResult
  <2>2. HasDone(w)'
    BY <1>1, <1>2, <2>1 DEF HasDone, BeforeResult, AfterResult, InRangePlaces, WithInput
  <2> QED BY <1>1, <2>2, DoneByOne DEF ResultInv
<1>5. CASE Consolidate(w)
  <2>1. /\ worker'[w].at = "checkpoint" /\ worker'[w].op = o /\ o \in Ranges
        /\ worker'[w].input = worker[w].input
    BY <1>1, <1>5, GoesTo DEF Consolidate, AtPlace, RangePlaces
  <2>2. cons.op = o /\ cons.state # "completed" /\ worker[w].input = Results(o)
    BY <1>3, <1>5, <2>1 DEF Consolidate, HasDone, InRangePlaces, WithInput
  <2>3. Results(o)' = Results(o)
    BY <1>2, <2>1
  <2>4. Results(worker[w].op)' = Results(o)'
    BY <2>1 DEF Results
  <2>5. HasDone(w)'
    BY <1>1, <1>2, <2>1, <2>2, <2>3, <2>4 DEF HasDone, BeforeResult, AfterResult, InRangePlaces
  <2> QED BY <1>1, <2>5, DoneByOne DEF ResultInv
<1>6. CASE \E category \in {"model", "schema_invalid"} : ModelFails(w, category)
  <2>1. worker'[w].at = "fail" /\ worker'[w].op = o /\ worker[w].at \in {"distill", "consolidate"}
    BY <1>1, <1>6 DEF ModelFails, WorkerRow
  <2>2. /\ o \in Batch => ~Distilled(o)
        /\ o \in Ranges => cons.op = o /\ cons.state # "completed"
    BY <1>1, <1>3, <2>1 DEF HasDone, BeforeResult, InRangePlaces, AtPlace, BatchPlaces, RangePlaces
  <2>3. HasDone(w)'
    BY <1>1, <1>2, <2>1, <2>2 DEF HasDone, BeforeResult, AfterResult, InRangePlaces, WithInput
  <2> QED BY <1>1, <2>3, DoneByOne DEF ResultInv
<1> QED BY <1>4, <1>5, <1>6


LEMMA FinalizeDone ==
  ASSUME OneAtATime, Inv, DoneInv, NEW w \in Worker, Finalize(w)
  PROVE  ResultInv'
<1> DEFINE o == worker[w].op
<1>1. /\ ConsInv' /\ OpsDone' /\ InPlace /\ Batch \cap Ranges = {} /\ o \in Batch
  BY SameStoreDone, Constants DEF Finalize, store, Inv, InPlace, AtPlace, BatchPlaces
<1>2. \A b \in Batch : Distilled(b)' <=> Distilled(b)
  BY SameStoreReads DEF Finalize, store
<1>3. Distilled(o)
  BY <1>1 DEF DoneInv, ResultInv, WorkDone, HasDone, Finalize, AfterResult
<1>4. worker'[w].at \in {"complete", "ingest", "queueBatch"} /\ worker'[w].op = o
  BY <1>1, <1>3, GoesTo DEF Finalize, Distilled
<1>5. HasDone(w)'
  BY <1>1, <1>2, <1>3, <1>4 DEF HasDone, BeforeResult, AfterResult, InRangePlaces, WithInput
<1> QED BY <1>1, <1>5, DoneByOne DEF ResultInv

LEMMA LoadDone ==
  ASSUME OneAtATime, Inv, DoneInv, NEW w \in Worker, Load(w)
  PROVE  ResultInv'
<1> DEFINE o == worker[w].op
<1>1. /\ ConsInv' /\ OpsDone' /\ InPlace /\ Batch \cap Ranges = {} /\ o \in Ranges /\ o # 0
      /\ worker \in [Worker -> WorkerRow]
  BY SameStoreDone, Constants DEF Load, store, Inv, InPlace, AtPlace, RangePlaces
<1>2. (\A r \in Ranges : Results(r)' = Results(r)) /\ UNCHANGED cons
  BY SameStoreReads DEF Load, store
<1>3. cons.op = o /\ cons.state # "completed"
  BY <1>1 DEF DoneInv, ResultInv, WorkDone, HasDone, Load, InRangePlaces
<1>4. cons.result \in {NoResult, [kind |-> "checkpoint", input |-> Results(o)]}
  BY <1>1, <1>3 DEF DoneInv, ResultInv, ConsInv, CheckpointReusable
<1>5. worker' = [worker EXCEPT ![w].input = Results(o),
                    ![w].at = IF cons.result.kind = "null" THEN "consolidate" ELSE "pages"]
  BY <1>3, <1>4 DEF Load, NoResult
<1>6. /\ worker'[w].at \in {"consolidate", "pages"} /\ worker'[w].op = o
      /\ worker'[w].input = Results(o)
  BY <1>1, <1>5 DEF WorkerRow
<1>7. Results(worker[w].op)' = Results(o)
  <2>1. PICK r \in Ranges : r = o /\ r = worker'[w].op
    BY <1>1, <1>6
  <2>2. Results(worker[w].op)' = Results(r)'
    BY <2>1 DEF Results
  <2> QED BY <1>2, <2>1, <2>2
<1>8. HasDone(w)'
  BY <1>1, <1>2, <1>3, <1>6, <1>7 DEF HasDone, BeforeResult, AfterResult, InRangePlaces
<1> QED BY <1>1, <1>8, DoneByOne DEF ResultInv

LEMMA CheckpointDone ==
  ASSUME OneAtATime, Inv, DoneInv, NEW w \in Worker, Checkpoint(w)
  PROVE  ResultInv'
<1> DEFINE o == worker[w].op
<1>1. /\ InPlace /\ Batch \cap Ranges = {} /\ o \in Ranges /\ o # 0 /\ cons \in ConsRow
      /\ worker \in [Worker -> WorkerRow]
      /\ UNCHANGED <<event, batch, op, range, cursor, ingested>>
  BY Constants DEF Checkpoint, Inv, InPlace, AtPlace, RangePlaces, StoreInv, Tables
<1>2. cons.op = o /\ cons.state # "completed" /\ worker[w].input = Results(o)
  BY <1>1 DEF DoneInv, ResultInv, WorkDone, HasDone, Checkpoint, InRangePlaces, WithInput
<1>3. Owns(w)
  BY DEF DoneInv, OwnInv, OwnAt, Checkpoint, OwnPlaces
<1>4. cons' = [cons EXCEPT !.result = [kind |-> "checkpoint", input |-> Results(o)]] /\ Goto(w, "pages")
  BY <1>2, <1>3 DEF Checkpoint
<1>5. /\ cons'.op = o /\ cons'.state = cons.state
      /\ cons'.result = [kind |-> "checkpoint", input |-> Results(o)]
  BY <1>1, <1>2, <1>4 DEF ConsRow
<1>6. /\ Results(cons.op)' = Results(o) /\ Within(cons.op)' = Within(o)
      /\ Results(worker[w].op)' = Results(o)
      /\ worker'[w].at = "pages" /\ worker'[w].op = o /\ worker'[w].input = Results(o)
  <2>1. worker'[w].at = "pages" /\ worker'[w].op = o /\ worker'[w].input = Results(o)
    BY <1>1, <1>2, <1>4, GoesTo
  <2> QED BY <1>1, <1>5, <2>1 DEF Results, Within, InRange, Batches
<1>7. CheckpointReusable'
  BY <1>5, <1>6 DEF CheckpointReusable
<1>8. DoneRange(cons.op)'
  <2>1. DoneRange(o)
    BY <1>1, <1>2 DEF DoneInv, ResultInv, ConsInv
  <2> QED BY <1>1, <1>6, <2>1 DEF DoneRange, Distilled
<1>9. ConsInv'
  BY <1>1, <1>7, <1>8 DEF ConsInv, DoneInv, ResultInv, NoBatchSkipped, Batches
<1>10. OpsDone'
  BY <1>1 DEF DoneInv, ResultInv, OpsDone, CompletedIsDone, Distilled
<1>11. HasDone(w)'
  BY <1>1, <1>2, <1>5, <1>6 DEF HasDone, BeforeResult, AfterResult, InRangePlaces
<1> QED BY <1>9, <1>10, <1>11, DoneByOne DEF ResultInv

LEMMA IngestPagesDone ==
  ASSUME OneAtATime, Inv, DoneInv, NEW w \in Worker, IngestPages(w)
  PROVE  ResultInv'
<1> DEFINE o == worker[w].op
<1>1. /\ InPlace /\ Batch \cap Ranges = {} /\ o \in Ranges /\ o # 0
      /\ UNCHANGED <<event, batch, op, range, cursor, cons>>
      /\ ingested' = ingested \cup {result[1] : result \in worker[w].input}
  BY Constants DEF IngestPages, Inv, InPlace, AtPlace, RangePlaces
<1>2. cons.op = o /\ cons.state # "completed" /\ worker[w].input = Results(o)
  BY <1>1 DEF DoneInv, ResultInv, WorkDone, HasDone, IngestPages, InRangePlaces, WithInput
<1>3. Steady
  BY <1>1 DEF Steady, Batches
<1>4. ConsInv'
  BY <1>1, <1>3, SteadyCons DEF DoneInv, ResultInv
<1>5. OpsDone'
  BY <1>1 DEF DoneInv, ResultInv, OpsDone, CompletedIsDone, Distilled
<1>6. /\ worker'[w].at = "finish" /\ worker'[w].op = o
      /\ worker'[w].input = worker[w].input
  BY <1>1, GoesTo DEF IngestPages
<1>7. Results(worker[w].op)' = Results(o) /\ Within(worker[w].op)' = Within(o)
  BY <1>1, <1>6 DEF Results, Within, InRange, Batches
<1>8. \A b \in Within(o) : b \in ingested'
  <2>1. DoneRange(o)
    BY <1>1, <1>2 DEF DoneInv, ResultInv, ConsInv
  <2>2. ASSUME NEW b \in Within(o) PROVE b \in ingested'
    <3>1. <<b, batch[b].version>> \in Results(o)
      BY <2>1 DEF DoneRange, Distilled, Results, Within
    <3>2. <<b, batch[b].version>>[1] = b
      OBVIOUS
    <3> QED BY <1>1, <1>2, <3>1, <3>2
  <2> QED BY <2>2
<1>9. HasDone(w)'
  BY <1>1, <1>2, <1>6, <1>7, <1>8 DEF HasDone, BeforeResult, AfterResult, InRangePlaces
<1> QED BY <1>4, <1>5, <1>9, DoneByOne DEF ResultInv

LEMMA FinishDone ==
  ASSUME OneAtATime, Inv, DoneInv, NEW w \in Worker, Finish(w)
  PROVE  ResultInv'
<1> DEFINE o == worker[w].op
<1>1. /\ InPlace /\ Batch \cap Ranges = {} /\ o \in Ranges /\ o # 0 /\ cons \in ConsRow
      /\ UNCHANGED <<event, batch, op, range, ingested>>
  BY Constants DEF Finish, Inv, InPlace, AtPlace, RangePlaces, StoreInv, Tables
<1>2. cons.op = o /\ \A b \in Within(o) : b \in ingested
  BY <1>1 DEF DoneInv, ResultInv, WorkDone, HasDone, Finish, InRangePlaces
<1>3. /\ cons'.state = "completed" /\ cursor'.through = range[o].through
  BY <1>1, <1>2 DEF Finish, ConsRow
<1>4. /\ worker'[w].at = "complete" /\ worker'[w].op = o
  BY <1>1, GoesTo DEF Finish
<1>5. /\ range[o].from = cursor.through + 1 \/ range[o].through = cursor.through
      /\ range[o].through \in Batch /\ Used(o)
  BY <1>1, <1>2 DEF DoneInv, RangeInv, AllWork, WorksOn, Finish, RangeTables, CursorKnown,
                    RangesOrdered, Follows, Reached, Unfinished, Made
<1>6. /\ cursor.through \in Nat /\ range[o].through \in Nat /\ range[o].from \in Nat
      /\ \A r \in Ranges : range[r].through \in Nat
  BY <1>1, NumbersOfRanges
<1>7. NoBatchSkipped'
  <2>1. ASSUME NEW b \in Batches, b <= range[o].through PROVE b \in ingested
    <3>1. b \in Nat
      BY Constants DEF Batches
    <3>2. CASE b <= cursor.through
      BY <3>2 DEF DoneInv, ResultInv, ConsInv, NoBatchSkipped
    <3>3. CASE ~(b <= cursor.through)
      <4>1. range[o].from <= b
        BY <1>5, <1>6, <2>1, <3>1, <3>3
      <4>2. b \in Within(o)
        BY <2>1, <4>1 DEF Within, InRange
      <4> QED BY <1>2, <4>2
    <3> QED BY <3>2, <3>3
  <2> QED BY <1>1, <1>3, <2>1 DEF NoBatchSkipped, Batches
<1>8. ConsInv'
  BY <1>3, <1>7 DEF ConsInv, CheckpointReusable
<1>9. OpsDone'
  <2>1. cursor'.through >= cursor.through
    <3>1. CursorForward
      BY FinishForward DEF DoneInv
    <3> QED BY <1>6, <3>1 DEF CursorForward
  <2>2. \A r \in Ranges : op[r].state = "completed" => range[r].through <= cursor'.through
    <3>1. cursor'.through \in Nat
      BY <1>3, <1>6
    <3> QED BY <1>6, <2>1, <3>1 DEF DoneInv, ResultInv, OpsDone, CompletedIsDone
  <2> QED BY <1>1, <2>2 DEF DoneInv, ResultInv, OpsDone, CompletedIsDone, Distilled
<1>10. HasDone(w)'
  BY <1>1, <1>3, <1>4, <1>6 DEF HasDone, BeforeResult, InRangePlaces, WithInput
<1> QED BY <1>8, <1>9, <1>10, DoneByOne DEF ResultInv

LEMMA IngestBatchDone ==
  ASSUME OneAtATime, Inv, DoneInv, NEW w \in Worker, IngestBatch(w)
  PROVE  ResultInv'
<1> DEFINE o == worker[w].op
<1>1. /\ InPlace /\ Batch \cap Ranges = {} /\ o \in Batch /\ Distilled(o)
      /\ UNCHANGED <<event, batch, op, range, cursor, cons>>
      /\ ingested' = ingested \cup {o}
  BY Constants
     DEF IngestBatch, Inv, InPlace, AtPlace, BatchPlaces, DoneInv, ResultInv, WorkDone, HasDone,
         AfterResult
<1>2. Steady
  BY <1>1 DEF Steady, Batches
<1>3. ConsInv'
  BY <1>1, <1>2, SteadyCons DEF DoneInv, ResultInv
<1>4. OpsDone'
  BY <1>1 DEF DoneInv, ResultInv, OpsDone, CompletedIsDone, Distilled
<1>5. worker'[w].at = "cursor" /\ worker'[w].op = o
  BY <1>1, GoesTo DEF IngestBatch
<1>6. HasDone(w)'
  BY <1>1, <1>5 DEF HasDone, BeforeResult, AfterResult, InRangePlaces, WithInput, Distilled
<1> QED BY <1>3, <1>4, <1>6, DoneByOne DEF ResultInv

LEMMA AdvanceCursorDone ==
  ASSUME OneAtATime, Inv, DoneInv, NEW w \in Worker, AdvanceCursor(w)
  PROVE  ResultInv'
<1> DEFINE o == worker[w].op
<1>1. /\ InPlace /\ Batch \cap Ranges = {} /\ o \in Batch /\ Distilled(o) /\ o \in ingested
      /\ UNCHANGED <<event, batch, op, range, ingested, cons>>
  BY Constants
     DEF AdvanceCursor, Inv, InPlace, AtPlace, BatchPlaces, DoneInv, ResultInv, WorkDone, HasDone,
         AfterResult
<1>2. Batches = {o}
  BY DEF DoneInv, RangeInv, AllWork, WorksOn, AdvanceCursor
<1>3. CursorForward
  BY AdvanceCursorForward DEF DoneInv
<1>4. cursor.through \in Nat /\ cursor'.through \in Nat /\ cursor'.through >= cursor.through
  <2>1. o \in Nat /\ cursor.through \in Nat /\ \A r \in Ranges : range[r].through \in Nat
    BY <1>1, NumbersOfRanges, Constants
  <2> QED BY <1>3, <2>1 DEF AdvanceCursor, CursorForward
<1>5. NoBatchSkipped'
  BY <1>1, <1>2 DEF NoBatchSkipped, Batches
<1>6. ConsInv'
  <2>1. \A r \in Ranges : Within(r)' = Within(r) /\ Results(r)' = Results(r)
    BY <1>1 DEF Within, Results, InRange, Batches
  <2>2. cons.op \in Ranges \cup {0}
    BY DEF Inv, StoreInv, Tables, ConsRow
  <2>3. cons.op # 0 /\ cons.state # "completed" => DoneRange(cons.op)' /\ Results(cons.op)' = Results(cons.op)
    <3>1. ASSUME cons.op # 0, cons.state # "completed"
          PROVE  DoneRange(cons.op)' /\ Results(cons.op)' = Results(cons.op)
      <4>1. PICK r \in Ranges : r = cons.op /\ r = cons'.op
        BY <1>1, <2>2, <3>1
      <4>2. DoneRange(cons.op)
        BY <3>1 DEF DoneInv, ResultInv, ConsInv
      <4>3. Within(cons.op)' = Within(r)' /\ Results(cons.op)' = Results(r)'
        BY <4>1 DEF Within, Results
      <4>4. Within(cons.op)' = Within(cons.op) /\ Results(cons.op)' = Results(cons.op)
        BY <2>1, <4>1, <4>3
      <4> QED BY <1>1, <4>2, <4>4 DEF DoneRange, Distilled
    <3> QED BY <3>1
  <2> QED BY <1>1, <1>5, <2>3 DEF ConsInv, DoneInv, ResultInv, CheckpointReusable
<1>7. OpsDone'
  <2>1. \A r \in Ranges : op[r].state = "completed" => range[r].through <= cursor'.through
    BY <1>4, NumbersOfRanges DEF DoneInv, ResultInv, OpsDone, CompletedIsDone
  <2> QED BY <1>1, <2>1 DEF DoneInv, ResultInv, OpsDone, CompletedIsDone, Distilled
<1>8. worker'[w].at = "complete" /\ worker'[w].op = o
  BY <1>1, GoesTo DEF AdvanceCursor
<1>9. HasDone(w)'
  BY <1>1, <1>8 DEF HasDone, BeforeResult, AfterResult, InRangePlaces, WithInput, Distilled
<1> QED BY <1>6, <1>7, <1>9, DoneByOne DEF ResultInv


\* Steps that only rewrite an operation.
LEMMA OpsRewrittenDone ==
  ASSUME Inv, DoneInv, UNCHANGED <<event, batch, range, cons, cursor, ingested>>,
         \A b \in Batch : op'[b].state = "completed" => Distilled(b),
         \A r \in Ranges : op'[r].state = "completed" => range[r].through <= cursor.through,
         \A b \in Batch : Distilled(b) => op'[b].state \in {"processing", "completed"}
  PROVE  ConsInv' /\ OpsDone'
<1>1. Steady
  BY DEF Steady, Batches
<1>2. ConsInv'
  BY <1>1, SteadyCons DEF DoneInv, ResultInv
<1>3. OpsDone'
  BY DEF DoneInv, ResultInv, OpsDone, CompletedIsDone, Distilled
<1> QED BY <1>2, <1>3

LEMMA ClaimDone ==
  ASSUME OneAtATime, Inv, DoneInv, NEW w \in Worker, Claim(w)
  PROVE  ResultInv'
<1>1. InPlace /\ op \in [Op -> OpRow] /\ worker \in [Worker -> WorkerRow] /\ Op = Batch \cup Ranges
  BY DEF Inv, InPlace, StoreInv, Tables, Op
<1>2. CASE Goto(w, "recover") /\ UNCHANGED op
  <2>1. ConsInv' /\ OpsDone'
    BY <1>2, SameStoreDone DEF Claim
  <2>2. worker'[w].at \in IdlePlaces
    BY <1>1, <1>2, GoesTo DEF IdlePlaces
  <2> QED BY <1>1, <2>1, <2>2, DoneAtStart DEF ResultInv
<1>3. CASE \E o \in Op :
          /\ Selected(o)
          /\ op' = [op EXCEPT ![o].state = "processing", ![o].by = w, ![o].due = FALSE,
                               ![o].tries = IF @ > FastRetries THEN @ ELSE @ + 1]
          /\ worker' = [worker EXCEPT ![w].at = "bind", ![w].op = o]
  <2>1. PICK o \in Op :
          /\ Selected(o)
          /\ op' = [op EXCEPT ![o].state = "processing", ![o].by = w, ![o].due = FALSE,
                               ![o].tries = IF @ > FastRetries THEN @ ELSE @ + 1]
          /\ worker' = [worker EXCEPT ![w].at = "bind", ![w].op = o]
    BY <1>3
  <2>2. \A p \in Op : op'[p].state = IF p = o THEN "processing" ELSE op[p].state
    BY <1>1, <2>1 DEF OpRow
  <2>3. ConsInv' /\ OpsDone'
    BY <1>1, <2>2, OpsRewrittenDone DEF Claim, DoneInv, ResultInv, OpsDone, CompletedIsDone, Distilled
  <2>4. worker'[w].at = "bind" /\ worker'[w].try = worker[w].try
    BY <1>1, <2>1 DEF WorkerRow
  <2>5. ~worker[w].try
    BY DEF Claim, DoneInv, OwnInv, OwnAt, IdlePlaces
  <2>6. HasDone(w)'
    BY <2>4, <2>5 DEF HasDone, BeforeResult, AfterResult, InRangePlaces, WithInput
  <2> QED BY <2>3, <2>6, DoneByOne DEF ResultInv
<1> QED BY <1>2, <1>3 DEF Claim

LEMMA CompleteDone ==
  ASSUME OneAtATime, Inv, DoneInv, NEW w \in Worker, Complete(w)
  PROVE  ResultInv'
<1> DEFINE o == worker[w].op
<1>1. Owns(w) /\ o \in Op /\ InPlace /\ op \in [Op -> OpRow] /\ Op = Batch \cup Ranges
  BY OwnedOperation
     DEF DoneInv, OwnInv, OwnAt, Complete, OwnPlaces, Inv, StoreInv, Tables, Op
<1>2. op' = Finished(o) /\ worker' = [worker EXCEPT ![w] = Start]
  BY <1>1 DEF Complete
<1>3. \A p \in Op : op'[p].state = IF p = o THEN "completed" ELSE op[p].state
  BY <1>1, <1>2 DEF Finished, OpRow
<1>4. /\ o \in Batch => Distilled(o)
      /\ o \in Ranges => range[o].through <= cursor.through
  BY DEF DoneInv, ResultInv, WorkDone, HasDone, Complete, AfterResult
<1>5. ConsInv' /\ OpsDone'
  BY <1>1, <1>3, <1>4, OpsRewrittenDone
     DEF Complete, DoneInv, ResultInv, OpsDone, CompletedIsDone, Distilled
<1> QED BY <1>1, <1>2, <1>5, DoneAtStart DEF ResultInv

LEMMA FailOperationDone ==
  ASSUME OneAtATime, Inv, DoneInv, NEW w \in Worker, FailOperation(w)
  PROVE  ResultInv'
<1> DEFINE o == worker[w].op
<1>1. /\ Owns(w) /\ o \in Op /\ InPlace /\ op \in [Op -> OpRow] /\ Op = Batch \cup Ranges
      /\ worker \in [Worker -> WorkerRow] /\ Batch \cap Ranges = {}
  BY OwnedOperation, Constants
     DEF DoneInv, OwnInv, OwnAt, FailOperation, OwnPlaces, Inv, StoreInv, Tables, InPlace, Op
<1>2. PICK s \in {"retrying", "blocked"} :
        /\ op' = [op EXCEPT ![o].state = s, ![o].by = NoWorker, ![o].due = FALSE,
                            ![o].local = (worker[w].category = "local")]
        /\ worker' = [worker EXCEPT ![w].at = "mirror", ![w].failed = s]
  BY <1>1 DEF FailOperation
<1>3. \A p \in Op : op'[p].state = IF p = o THEN s ELSE op[p].state
  BY <1>1, <1>2 DEF OpRow
<1>4. HasDone(w) /\ worker[w].at = "fail"
  BY DEF DoneInv, ResultInv, WorkDone, FailOperation
<1>5. /\ o \in Batch => ~Distilled(o)
      /\ o \in Ranges => cons.op = o /\ cons.state # "completed"
  BY <1>4 DEF HasDone, BeforeResult, InRangePlaces
<1>6. ConsInv' /\ OpsDone'
  BY <1>1, <1>3, <1>5, OpsRewrittenDone
     DEF FailOperation, DoneInv, ResultInv, OpsDone, CompletedIsDone, Distilled
<1>7. worker'[w].at = "mirror" /\ worker'[w].op = o
  BY <1>1, <1>2 DEF WorkerRow
<1>8. UNCHANGED <<cons, batch>>
  BY DEF FailOperation
<1>9. HasDone(w)'
  BY <1>1, <1>5, <1>7, <1>8
     DEF HasDone, BeforeResult, AfterResult, InRangePlaces, WithInput, Distilled
<1> QED BY <1>6, <1>9, DoneByOne DEF ResultInv

\* Steps that write the state of a Batch that is not distilled.
LEMMA BatchWrittenDone ==
  ASSUME Inv, DoneInv, UNCHANGED <<event, op, range, cons, cursor, ingested>>, NEW b \in Batch,
         ~Distilled(b), NEW s \in BatchState \ {"absent", "completed"},
         batch' = [batch EXCEPT ![b].state = s], batch[b].state # "absent"
  PROVE  ConsInv' /\ OpsDone' /\ ~Distilled(b)'
<1>1. batch \in [Batch -> BatchRow]
  BY DEF Inv, StoreInv, Tables
<1>2. /\ \A c \in Batch : c # b => batch'[c] = batch[c]
      /\ batch'[b].state = s /\ batch'[b].split = batch[b].split
  BY <1>1 DEF BatchRow
<1>3. Steady
  BY <1>2 DEF Steady, Batches, Distilled
<1>4. ConsInv'
  BY <1>3, SteadyCons DEF DoneInv, ResultInv
<1>5. \A c \in Batch : Distilled(c)' <=> Distilled(c)
  BY <1>2 DEF Distilled
<1>6. OpsDone'
  BY <1>5 DEF DoneInv, ResultInv, OpsDone, CompletedIsDone, Distilled, Inv, StoreInv, Tables, EventRow
<1> QED BY <1>4, <1>5, <1>6

LEMMA MarkDone ==
  ASSUME OneAtATime, Inv, DoneInv, NEW w \in Worker, Mark(w)
  PROVE  ResultInv'
<1> DEFINE o == worker[w].op
<1>1. /\ InPlace /\ Batch \cap Ranges = {} /\ cons \in ConsRow
      /\ worker \in [Worker -> WorkerRow] /\ o \in Batch \cup Ranges
      /\ o # 0 /\ op[o].state # "absent"
  BY Constants DEF Mark, Inv, InPlace, AtPlace, StoreInv, Tables, WorkerRow, Op
<1>2. /\ worker'[w].at = (IF o \in Batch THEN "distill" ELSE "load") /\ worker'[w].op = o
  BY <1>1 DEF Mark, WorkerRow
<1>3. /\ o \in Batch => ~Distilled(o)
      /\ o \in Ranges => cons.op = o /\ cons.state # "completed"
  BY DEF DoneInv, ResultInv, WorkDone, HasDone, Mark, BeforeResult, InRangePlaces
<1>4. CASE o \in Batch
  <2>1. batch' = [batch EXCEPT ![o].state = "processing"] /\ batch[o].state # "absent"
    BY <1>1, <1>4 DEF Mark, Inv, StoreInv, OpsAgree
  <2>2. PICK b \in Batch : b = o
    BY <1>4
  <2>3. ConsInv' /\ OpsDone' /\ ~Distilled(b)'
    BY <1>3, <1>4, <2>1, <2>2, BatchWrittenDone DEF Mark, BatchState
  <2>4. HasDone(w)'
    BY <1>1, <1>2, <1>4, <2>2, <2>3
       DEF HasDone, BeforeResult, AfterResult, InRangePlaces, WithInput, Distilled
  <2> QED BY <2>3, <2>4, DoneByOne DEF ResultInv
<1>5. CASE o \in Ranges
  <2>1. cons' = [cons EXCEPT !.state = "processing"] /\ UNCHANGED batch
    BY <1>1, <1>3, <1>5 DEF Mark
  <2>2. cons'.op = cons.op /\ cons'.result = cons.result /\ cons'.state = "processing"
    BY <1>1, <2>1 DEF ConsRow
  <2>3. Steady
    BY <2>1 DEF Steady, Batches
  <2>4. ConsInv'
    BY <1>3, <1>5, <2>2, <2>3, SteadyCons DEF DoneInv, ResultInv, Mark
  <2>5. OpsDone'
    BY <2>1 DEF Mark, DoneInv, ResultInv, OpsDone, CompletedIsDone, Distilled
  <2>6. HasDone(w)'
    BY <1>1, <1>2, <1>3, <1>5, <2>2 DEF HasDone, BeforeResult, AfterResult, InRangePlaces, WithInput
  <2> QED BY <2>4, <2>5, <2>6, DoneByOne DEF ResultInv
<1> QED BY <1>1, <1>4, <1>5

LEMMA MirrorDone ==
  ASSUME OneAtATime, Inv, DoneInv, NEW w \in Worker, Mirror(w)
  PROVE  ResultInv'
<1> DEFINE o == worker[w].op
<1>1. /\ InPlace /\ Batch \cap Ranges = {} /\ cons \in ConsRow
      /\ worker \in [Worker -> WorkerRow] /\ o \in Batch \cup Ranges
      /\ o # 0 /\ op[o].state # "absent" /\ worker[w].failed \in {"retrying", "blocked"}
  BY Constants DEF Mirror, Inv, InPlace, AtPlace, StoreInv, Tables, WorkerRow, Op
<1>2. /\ o \in Batch => ~Distilled(o)
      /\ o \in Ranges => cons.op = o /\ cons.state # "completed"
  BY DEF DoneInv, ResultInv, WorkDone, HasDone, Mirror, BeforeResult, InRangePlaces
<1>3. \/ worker' = [worker EXCEPT ![w] = Start]
      \/ /\ worker' = [worker EXCEPT ![w] = [worker[w] EXCEPT !.at = "split"]]
         /\ o \in Batch
  BY DEF Mirror
<1>4. CASE o \in Batch
  <2>1. batch' = [batch EXCEPT ![o].state = worker[w].failed] /\ batch[o].state # "absent"
    BY <1>1, <1>4 DEF Mirror, Inv, StoreInv, OpsAgree
  <2>2. PICK b \in Batch, s \in {"retrying", "blocked"} : b = o /\ s = worker[w].failed
    BY <1>1, <1>4
  <2>3. ConsInv' /\ OpsDone' /\ ~Distilled(b)'
    BY <1>2, <1>4, <2>1, <2>2, BatchWrittenDone DEF Mirror, BatchState
  <2>4. CASE worker' = [worker EXCEPT ![w] = Start]
    BY <1>1, <2>3, <2>4, DoneAtStart DEF ResultInv
  <2>5. CASE worker' = [worker EXCEPT ![w] = [worker[w] EXCEPT !.at = "split"]]
    <3>1. worker'[w].at = "split" /\ worker'[w].op = b
      BY <1>1, <2>2, <2>5 DEF WorkerRow
    <3>2. HasDone(w)'
      BY <1>1, <2>3, <3>1
         DEF HasDone, BeforeResult, AfterResult, InRangePlaces, WithInput, Distilled
    <3> QED BY <2>3, <3>2, DoneByOne DEF ResultInv
  <2> QED BY <1>3, <2>4, <2>5
<1>5. CASE o \in Ranges
  <2>1. cons' = [cons EXCEPT !.state = worker[w].failed] /\ UNCHANGED batch
    BY <1>1, <1>2, <1>5 DEF Mirror
  <2>2. cons'.op = cons.op /\ cons'.result = cons.result
    BY <1>1, <2>1 DEF ConsRow
  <2>3. Steady
    BY <2>1 DEF Steady, Batches
  <2>4. ConsInv'
    BY <1>2, <1>5, <2>2, <2>3, SteadyCons DEF DoneInv, ResultInv, Mirror
  <2>5. OpsDone'
    BY <2>1 DEF Mirror, DoneInv, ResultInv, OpsDone, CompletedIsDone, Distilled
  <2> QED BY <1>1, <1>3, <1>5, <2>4, <2>5, DoneAtStart DEF ResultInv
<1> QED BY <1>1, <1>4, <1>5


\* Steps that store the result of a Batch.
LEMMA BatchDistilledDone ==
  ASSUME Inv, DoneInv, UNCHANGED <<range, cons, cursor, ingested>>, NEW b \in Made, ~Distilled(b),
         batch' = [batch EXCEPT ![b].state = "completed", ![b].version = @ + 1],
         event' = [e \in Event |-> [event[e] EXCEPT !.done = @ \/ event[e].batch = b]],
         \A o \in Op : o # b => op'[o].state = op[o].state,
         op'[b].state \in {"processing", "completed"}
  PROVE  ConsInv' /\ OpsDone' /\ Distilled(b)'
<1>1. /\ batch \in [Batch -> BatchRow] /\ event \in [Event -> EventRow]
      /\ 0 \notin Batch /\ b \in Batch /\ b \notin Ranges
  BY Constants DEF Inv, StoreInv, Tables, Made
<1>2. /\ \A c \in Batch : c # b => batch'[c] = batch[c]
      /\ batch'[b].state = "completed" /\ batch'[b].split = batch[b].split
  BY <1>1 DEF BatchRow
<1>3. Steady
  BY <1>2 DEF Steady, Batches, Distilled, Made
<1>4. ConsInv'
  BY <1>3, SteadyCons DEF DoneInv, ResultInv
<1>5. \A c \in Batch : Distilled(c)' <=> Distilled(c) \/ c = b
  BY <1>2 DEF Distilled
<1>6. \A e \in Event : /\ event'[e].batch = event[e].batch
                       /\ event'[e].done => event[e].done \/ event[e].batch = b
  BY <1>1 DEF EventRow
<1>7. ASSUME NEW e \in Event, event'[e].done
      PROVE  event'[e].batch # 0 /\ batch'[event'[e].batch].state = "completed"
  <2>1. CASE event[e].batch = b
    <3>1. event'[e].batch = b /\ b # 0
      BY <1>1, <1>6, <2>1
    <3> QED BY <1>2, <3>1
  <2>2. CASE event[e].done
    <3>1. event[e].batch # 0 /\ batch[event[e].batch].state = "completed" /\ event[e].batch \in Batch
      BY <1>1, <2>2 DEF DoneInv, ResultInv, OpsDone, CompletedIsDone, EventRow
    <3> QED BY <1>2, <1>6, <3>1
  <2>3. event[e].done \/ event[e].batch = b
    BY <1>6, <1>7
  <2> QED BY <2>1, <2>2, <2>3
<1>8. OpsDone'
  <2>1. \A c \in Batch : op'[c].state = "completed" => Distilled(c)'
    BY <1>5 DEF DoneInv, ResultInv, OpsDone, CompletedIsDone, Distilled, Op
  <2>2. \A r \in Ranges : op'[r].state = "completed" => range[r].through <= cursor.through
    BY <1>1 DEF DoneInv, ResultInv, OpsDone, CompletedIsDone, Op
  <2>3. \A c \in Batch : Distilled(c)' => op'[c].state \in {"processing", "completed"}
    BY <1>5 DEF DoneInv, ResultInv, OpsDone, Op
  <2> QED BY <1>7, <2>1, <2>2, <2>3 DEF OpsDone, CompletedIsDone, Distilled
<1> QED BY <1>1, <1>4, <1>5, <1>8

LEMMA PersistDone ==
  ASSUME OneAtATime, Inv, DoneInv, NEW w \in Worker, Persist(w)
  PROVE  ResultInv'
<1> DEFINE o == worker[w].op
<1>1. InPlace /\ Batch \cap Ranges = {} /\ o \in Batch /\ o \in Made
  BY Constants DEF Persist, Inv, InPlace, AtPlace, BatchPlaces, StoreInv, OpsAgree, Made
<1>2. ~Distilled(o) /\ Owns(w)
  BY <1>1 DEF DoneInv, ResultInv, WorkDone, HasDone, Persist, BeforeResult, OwnInv, OwnAt, OwnPlaces
<1>3. PICK b \in Made : b = o
  BY <1>1
<1>4. ConsInv' /\ OpsDone' /\ Distilled(b)'
  BY <1>2, <1>3, BatchDistilledDone DEF Persist, Owns
<1>5. worker'[w].at = "finalize" /\ worker'[w].op = b
  BY <1>1, <1>3, GoesTo DEF Persist
<1>6. HasDone(w)'
  BY <1>1, <1>3, <1>4, <1>5
     DEF HasDone, BeforeResult, AfterResult, InRangePlaces, WithInput, Distilled
<1> QED BY <1>4, <1>6, DoneByOne DEF ResultInv

LEMMA RecoverDone ==
  ASSUME OneAtATime, Inv, DoneInv, NEW w \in Worker, Recover(w)
  PROVE  ResultInv'
<1>1. InPlace /\ op \in [Op -> OpRow]
  BY DEF Inv, StoreInv, Tables
<1>2. WorkDone'
  <2>1. worker'[w].at = "prepare"
    BY <1>1, GoesTo DEF Recover
  <2> QED BY <1>1, <2>1, DoneAtStart DEF IdlePlaces
<1>3. CASE UNCHANGED store
  BY <1>2, <1>3, SameStoreDone DEF ResultInv, store
<1>4. ASSUME NEW b \in Batch, BlockedLifecycleOnly(b), op' = Finished(b),
             batch' = [batch EXCEPT ![b].state = "completed", ![b].version = @ + 1],
             event' = [e \in Event |-> [event[e] EXCEPT !.done = @ \/ event[e].batch = b]],
             UNCHANGED <<range, cons, cursor, ingested, spent>>
      PROVE  ResultInv'
  <2>1. b \in Op /\ op[b].state = "blocked" /\ ~Distilled(b)
    BY <1>4 DEF BlockedLifecycleOnly, DoneInv, ResultInv, OpsDone, Op
  <2>2. b \in Made
    BY <2>1 DEF Inv, StoreInv, OpsAgree, Made
  <2>3. op'[b].state = "completed" /\ \A o \in Op : o # b => op'[o].state = op[o].state
    BY <1>1, <1>4, <2>1 DEF Finished, OpRow
  <2>4. ConsInv' /\ OpsDone'
    BY <1>4, <2>1, <2>2, <2>3, BatchDistilledDone
  <2> QED BY <1>2, <2>4 DEF ResultInv
<1> QED BY <1>3, <1>4 DEF Recover

LEMMA QueueRangeDone ==
  ASSUME Inv, DoneInv, Ready, Unused # {}, QueueRange
  PROVE  ConsInv' /\ OpsDone'
<1> DEFINE n == NextRange
<1>1. /\ UNCHANGED <<event, batch, cursor, ingested, spent>>
      /\ op \in [Op -> OpRow] /\ range \in [Ranges -> RangeRow] /\ Op = Batch \cup Ranges
      /\ Batch \cap Ranges = {}
  BY Constants DEF QueueRange, Inv, StoreInv, Tables, Op
<1>2. n \in Ranges /\ op[n].state = "absent" /\ n # 0
  BY RangeIsNew, Constants DEF Inv
<1>3. /\ op' = [op EXCEPT ![n] = Owned] /\ range' = [range EXCEPT ![n] = NewRange]
      /\ cons' = [op |-> n, state |-> "queued", result |-> NoResult]
  BY DEF QueueRange
<1>4. /\ range'[n].from = cursor.through + 1 /\ range'[n].through = Cutoff
      /\ \A r \in Ranges : r # n => range'[r] = range[r]
  BY <1>1, <1>2, <1>3 DEF NewRange
<1>5. \A o \in Op : op'[o].state = IF o = n THEN "pending" ELSE op[o].state
  BY <1>1, <1>2, <1>3 DEF Owned
<1>6. DoneRange(cons.op)'
  <2>1. \A b \in InRange(cursor.through + 1, Cutoff) : batch[b].state = "completed"
    BY DEF Ready
  <2>2. Within(cons.op)' = InRange(cursor.through + 1, Cutoff)
    BY <1>1, <1>3, <1>4 DEF Within, InRange, Batches
  <2> QED BY <1>1, <2>1, <2>2 DEF DoneRange, Distilled
<1>7. ConsInv'
  BY <1>1, <1>3, <1>6 DEF ConsInv, DoneInv, ResultInv, NoBatchSkipped, CheckpointReusable, Batches
<1>8. OpsDone'
  BY <1>1, <1>2, <1>4, <1>5 DEF DoneInv, ResultInv, OpsDone, CompletedIsDone, Distilled
<1> QED BY <1>7, <1>8

LEMMA QueueDone ==
  ASSUME OneAtATime, Inv, DoneInv, NEW w \in Worker, Poll(w) \/ QueueAfterBatch(w)
  PROVE  ResultInv'
<1> DEFINE o == worker[w].op
<1>1. InPlace /\ Batch \cap Ranges = {} /\ UNCHANGED <<batch, cursor>>
  BY Constants DEF Inv, Poll, QueueAfterBatch, QueueIfReady, QueueRange, store
<1>2. ConsInv' /\ OpsDone'
  BY KeysFree, QueueRangeDone, SameStoreDone
     DEF DoneInv, Poll, QueueAfterBatch, QueueIfReady, store
<1>3. CASE worker[w].at = "queue" /\ Goto(w, "claim")
  <2>1. worker'[w].at = "claim"
    BY <1>1, <1>3, GoesTo
  <2> QED BY <1>1, <1>2, <2>1, DoneAtStart DEF ResultInv, IdlePlaces
<1>4. CASE worker[w].at = "queueBatch" /\ Goto(w, "complete")
  <2>1. worker'[w].at = "complete" /\ worker'[w].op = o
    BY <1>1, <1>4, GoesTo
  <2>2. o \in Batch /\ Distilled(o)
    BY <1>4 DEF Inv, InPlace, AtPlace, BatchPlaces, DoneInv, ResultInv, WorkDone, HasDone, AfterResult
  <2>3. HasDone(w)'
    BY <1>1, <2>1, <2>2
       DEF HasDone, BeforeResult, AfterResult, InRangePlaces, WithInput, Distilled
  <2> QED BY <1>2, <2>3, DoneByOne DEF ResultInv
<1> QED BY <1>3, <1>4, KeysFree DEF DoneInv, Poll, QueueAfterBatch, QueueIfReady


LEMMA AssignDone ==
  ASSUME OneAtATime, Inv, DoneInv, NEW w \in Worker, Assign(w)
  PROVE  ResultInv'
<1> DEFINE s == worker[w].selected
           n == NextBatch
           all == LifecycleOnly(s)
<1>1. /\ InPlace /\ UNCHANGED <<range, cons, cursor, ingested, spent>> /\ Batch \cap Ranges = {}
      /\ batch \in [Batch -> BatchRow] /\ op \in [Op -> OpRow] /\ event \in [Event -> EventRow]
      /\ Op = Batch \cup Ranges /\ worker \in [Worker -> WorkerRow]
  BY Constants DEF Assign, Inv, InPlace, StoreInv, Tables, Op
<1>2. WorkDone'
  <2>1. worker'[w].at = "queue"
    BY DEF Assign, Inv, InPlace, WorkerRow
  <2> QED BY <1>1, <2>1, DoneAtStart DEF IdlePlaces
<1>3. CASE UNCHANGED <<event, batch, op>>
  BY <1>1, <1>2, <1>3, SameStoreDone DEF ResultInv
<1>4. CASE /\ StillAvailable(s)
           /\ event' = [e \in Event |-> IF e \in s
                THEN [event[e] EXCEPT !.batch = n, !.done = all] ELSE event[e]]
           /\ batch' = [batch EXCEPT ![n].state = IF all THEN "completed" ELSE "queued"]
           /\ op' = [op EXCEPT ![n].state = IF all THEN "completed" ELSE "pending"]
  <2>1. n \in Batch /\ n # 0 /\ n \notin Made /\ n \in Op
    BY <1>1, <1>4, AssignsNewBatch DEF Assign, Made
  <2> HIDE DEF n, all, s
  <2>2. /\ \A b \in Batch : b # n => batch'[b] = batch[b]
        /\ batch'[n].state = IF all THEN "completed" ELSE "queued"
    BY <1>1, <1>4, <2>1 DEF BatchRow
  <2>3. \A o \in Op : op'[o].state = IF o = n THEN (IF all THEN "completed" ELSE "pending")
                                              ELSE op[o].state
    BY <1>1, <1>4, <2>1 DEF OpRow
  <2>4. \A b \in Batch : Distilled(b)' <=> IF b = n THEN all ELSE Distilled(b)
    BY <2>1, <2>2 DEF Distilled
  <2>5. ~Distilled(n)
    BY <2>1 DEF Distilled, Made
  <2>6. Steady
    BY <2>1, <2>2 DEF Steady, Batches, Made
  <2>7. ConsInv'
    BY <1>1, <2>6, SteadyCons DEF DoneInv, ResultInv
  <2>8. \A e \in Event : /\ e \in s => event'[e].batch = n /\ event'[e].done = all
                         /\ e \notin s => event'[e] = event[e]
    BY <1>1, <1>4 DEF EventRow
  <2>9. ASSUME NEW e \in Event, event'[e].done
        PROVE  event'[e].batch # 0 /\ batch'[event'[e].batch].state = "completed"
    <3>1. CASE e \in s
      BY <2>1, <2>2, <2>8, <2>9, <3>1
    <3>2. CASE e \notin s
      <4>1. event'[e] = event[e] /\ event[e].done
        BY <2>8, <2>9, <3>2
      <4>2. event[e].batch \in Batch /\ event[e].batch # 0 /\ batch[event[e].batch].state = "completed"
        BY <1>1, <4>1 DEF DoneInv, ResultInv, OpsDone, CompletedIsDone, EventRow
      <4>3. event[e].batch # n
        BY <2>5, <4>2 DEF Distilled
      <4> QED BY <2>2, <4>1, <4>2, <4>3
    <3> QED BY <3>1, <3>2
  <2>10. \A b \in Batch : op'[b].state = "completed" => Distilled(b)'
    BY <1>1, <2>3, <2>4 DEF DoneInv, ResultInv, OpsDone, CompletedIsDone, Distilled
  <2>11. \A r \in Ranges : op'[r].state = "completed" => range[r].through <= cursor.through
    BY <1>1, <2>1, <2>3 DEF DoneInv, ResultInv, OpsDone, CompletedIsDone
  <2>12. \A b \in Batch : Distilled(b)' => op'[b].state \in {"processing", "completed"}
    BY <1>1, <2>3, <2>4 DEF DoneInv, ResultInv, OpsDone
  <2>13. OpsDone'
    BY <1>1, <2>9, <2>10, <2>11, <2>12 DEF OpsDone, CompletedIsDone, Distilled
  <2> QED BY <1>2, <2>7, <2>13 DEF ResultInv
<1> QED BY <1>3, <1>4 DEF Assign

LEMMA SplitDone ==
  ASSUME OneAtATime, Inv, DoneInv, NEW w \in Worker, NEW at \in Event, Split(w, at)
  PROVE  ResultInv'
<1> DEFINE b == worker[w].op
           p == NextBatch
           q == NextBatch + 1
<1>1. /\ InPlace /\ UNCHANGED <<range, cons, cursor, ingested>> /\ Batch \cap Ranges = {}
      /\ batch \in [Batch -> BatchRow] /\ op \in [Op -> OpRow] /\ event \in [Event -> EventRow]
      /\ Op = Batch \cup Ranges /\ 0 \notin Batch
  BY Constants DEF Split, Inv, StoreInv, Tables, Op
<1>2. WorkDone'
  BY <1>1, DoneAtStart DEF Split
<1>3. b \in Batches /\ p \in Batch /\ q \in Batch /\ \A c \in {p, q} : c \notin Made
  BY SplitsNewBatches DEF Made
<1>4. ~Distilled(b)
  BY <1>3 DEF DoneInv, ResultInv, WorkDone, HasDone, Split, BeforeResult, Batches
<1>5. /\ \A c \in Batch : c # b /\ c \notin {p, q} => batch'[c] = batch[c]
      /\ \A c \in {p, q} : batch'[c].state = "queued"
      /\ Batches' = (Batches \ {b}) \cup {p, q}
  BY SplitMakes
<1>6. batch'[b].state = "blocked"
  BY <1>1, <1>3 DEF Split, Batches, BatchRow
<1>7. event' = [e \in Event |-> IF event[e].batch = b
                  THEN [event[e] EXCEPT !.batch = ChildOf(b, at, e)] ELSE event[e]]
  BY DEF Split
<1>8. op' = [o \in Op |-> IF o = b /\ GivenUp(b)
                          THEN [op[b] EXCEPT !.state = "dead_letter", !.due = FALSE]
                          ELSE IF o \in {p, q} THEN Owned ELSE op[o]]
  BY DEF Split
<1>9. \A e \in Event : ChildOf(b, at, e) \in {p, q}
  BY DEF ChildOf
<1> HIDE DEF b, p, q
<1>10. b \in Batch /\ \A c \in {p, q} : ~Distilled(c)
  BY <1>3 DEF Batches, Distilled, Made
<1>11. \A c \in Batch : Distilled(c) => batch'[c] = batch[c] /\ c # b /\ c \notin {p, q}
  BY <1>4, <1>5, <1>10
<1>12. Steady
  BY <1>3, <1>5, <1>11 DEF Steady, Batches
<1>13. ConsInv'
  BY <1>1, <1>12, SteadyCons DEF DoneInv, ResultInv
<1>14. \A c \in Batch : Distilled(c)' <=> Distilled(c)
  BY <1>5, <1>6, <1>11 DEF Distilled
<1>15. \A e \in Event : event'[e].done = event[e].done
  BY <1>1, <1>7 DEF EventRow
<1>16. ASSUME NEW e \in Event, event'[e].done
       PROVE  event'[e].batch # 0 /\ batch'[event'[e].batch].state = "completed"
  <2>1. event[e].done
    BY <1>15, <1>16
  <2>2. event[e].batch \in Batch /\ event[e].batch # 0 /\ Distilled(event[e].batch)
    BY <1>1, <2>1 DEF DoneInv, ResultInv, OpsDone, CompletedIsDone, EventRow, Distilled
  <2>3. event[e].batch # b
    BY <1>4, <2>2
  <2>4. event'[e] = event[e]
    BY <1>7, <2>3
  <2> QED BY <1>11, <2>2, <2>4 DEF Distilled
<1>17. /\ \A o \in Op : op'[o].state = "completed" => op[o].state = "completed"
       /\ \A c \in Batch : Distilled(c) => op'[c] = op[c]
  <2>1. \A o \in Op : op'[o] = op[o] \/ op'[o].state \in {"dead_letter", "pending"}
    BY <1>1, <1>8 DEF Owned, OpRow
  <2> QED BY <1>1, <1>8, <1>11, <2>1
<1>18. OpsDone'
  <2>1. \A c \in Batch : op'[c].state = "completed" => Distilled(c)'
    BY <1>1, <1>14, <1>17 DEF DoneInv, ResultInv, OpsDone, CompletedIsDone, Distilled
  <2>2. \A r \in Ranges : op'[r].state = "completed" => range[r].through <= cursor.through
    BY <1>1, <1>17 DEF DoneInv, ResultInv, OpsDone, CompletedIsDone
  <2>3. \A c \in Batch : Distilled(c)' => op'[c].state \in {"processing", "completed"}
    BY <1>14, <1>17 DEF DoneInv, ResultInv, OpsDone
  <2> QED BY <1>1, <1>16, <2>1, <2>2, <2>3 DEF OpsDone, CompletedIsDone, Distilled
<1> QED BY <1>2, <1>13, <1>18 DEF ResultInv

LEMMA OutsideDone ==
  ASSUME Inv, DoneInv,
         \/ \E e \in Event, kind \in {"content", "end"}, turn \in Turn : Capture(e, kind, turn)
         \/ \E o \in Op : TimePasses(o) \/ Retry(o)
  PROVE  ResultInv'
<1>1. /\ op \in [Op -> OpRow] /\ event \in [Event -> EventRow] /\ Op = Batch \cup Ranges
      /\ UNCHANGED <<batch, range, cons, cursor, ingested, worker>>
  BY DEF Inv, StoreInv, Tables, Op, Capture, TimePasses, Retry
<1>2. ConsInv' /\ OpsDone'
  <2>1. CASE \E e \in Event, kind \in {"content", "end"}, turn \in Turn : Capture(e, kind, turn)
    <3>1. Steady /\ UNCHANGED op
      BY <1>1, <2>1 DEF Steady, Batches, Capture
    <3>2. ConsInv'
      BY <1>1, <3>1, SteadyCons DEF DoneInv, ResultInv
    <3>3. \A e \in Event : event'[e].batch = event[e].batch /\ event'[e].done = event[e].done
      <4>1. PICK d \in Event, kind \in {"content", "end"}, turn \in Turn :
              event' = [event EXCEPT ![d].kind = kind, ![d].turn = turn]
        BY <2>1 DEF Capture
      <4> QED BY <1>1, <4>1 DEF EventRow
    <3>4. OpsDone'
      BY <1>1, <3>1, <3>3 DEF DoneInv, ResultInv, OpsDone, CompletedIsDone, Distilled
    <3> QED BY <3>2, <3>4
  <2>2. CASE \E o \in Op : TimePasses(o) \/ Retry(o)
    <3>1. UNCHANGED event
      BY <2>2 DEF TimePasses, Retry
    <3>2. \A o \in Op : /\ op'[o].state = "completed" => op[o].state = "completed"
                        /\ op[o].state \in {"processing", "completed"} => op'[o].state = op[o].state
      <4>1. PICK o \in Op : TimePasses(o) \/ Retry(o)
        BY <2>2
      <4>2. CASE TimePasses(o)
        BY <1>1, <4>2 DEF TimePasses, OpRow
      <4>3. CASE Retry(o)
        <5>1. op \in [Op -> OpRow]
          BY <1>1
        <5>2. op' = [op EXCEPT ![o].state = "pending", ![o].due = FALSE, ![o].tries = 0]
          BY <4>3 DEF Retry
        <5>3. \A p \in Op : op'[p].state = IF p = o THEN "pending" ELSE op[p].state
          BY <5>1, <5>2 DEF OpRow
        <5>4. op[o].state \in {"blocked", "retrying"}
          BY <4>3 DEF Retry
        <5> QED BY <5>3, <5>4
      <4> QED BY <4>1, <4>2, <4>3
    <3> QED BY <1>1, <3>1, <3>2, OpsRewrittenDone
            DEF DoneInv, ResultInv, OpsDone, CompletedIsDone, Distilled
  <2> QED BY <2>1, <2>2
<1>3. WorkDone'
  BY <1>1 DEF DoneInv, ResultInv, WorkDone, HasDone, Distilled, Results, Within, InRange, Batches
<1> QED BY <1>2, <1>3 DEF ResultInv

LEMMA StepDone ==
  ASSUME OneAtATime, MaxFaults = 0, Inv, DoneInv, [Next]_vars
  PROVE  DoneInv'
<1>1. RangeInv' /\ OwnInv'
  BY StepRange, StepOwns DEF DoneInv
<1> SUFFICES ResultInv'
  BY <1>1 DEF DoneInv
<1>2. ASSUME NEW w \in Worker, Step(w) \/ Crash(w) \/ Fault(w) PROVE ResultInv'
  <2>1. ~Fault(w)
    BY DEF Fault, Inv, StoreInv, Tables, SpentRow
  <2>2. CASE \/ Recover(w) \/ Select(w) \/ Assign(w) \/ Poll(w) \/ Claim(w) \/ Bind(w) \/ Mark(w)
             \/ Distill(w) \/ Persist(w) \/ Finalize(w) \/ QueueAfterBatch(w)
    BY <2>2, RecoverDone, RestartDone, AssignDone, QueueDone, ClaimDone, BindDone, MarkDone,
       DistillDone, PersistDone, FinalizeDone
  <2>3. CASE \/ IngestBatch(w) \/ AdvanceCursor(w) \/ Load(w) \/ Consolidate(w) \/ Checkpoint(w)
             \/ IngestPages(w) \/ Finish(w) \/ Complete(w) \/ Crash(w)
    BY <2>3, IngestBatchDone, AdvanceCursorDone, LoadDone, DistillDone, CheckpointDone,
       IngestPagesDone, FinishDone, CompleteDone, RestartDone
  <2>4. CASE \/ \E category \in {"model", "schema_invalid"} : ModelFails(w, category)
             \/ FailOperation(w) \/ Mirror(w) \/ NotSplit(w) \/ \E at \in Event : Split(w, at)
    BY <2>4, DistillDone, FailOperationDone, MirrorDone, RestartDone, SplitDone
  <2> QED BY <1>2, <2>1, <2>2, <2>3, <2>4 DEF Step
<1>3. ASSUME NEW e \in Event, NEW kind \in {"content", "end"}, NEW turn \in Turn,
             Capture(e, kind, turn)
      PROVE  ResultInv'
  BY <1>3, OutsideDone
<1>4. ASSUME NEW o \in Op, TimePasses(o) \/ Retry(o) PROVE ResultInv'
  BY <1>4, OutsideDone
<1>5. CASE UNCHANGED vars
  <2>1. ConsInv' /\ OpsDone'
    BY <1>5, SameStoreDone DEF vars
  <2>2. WorkDone'
    BY <1>5 DEF vars, DoneInv, ResultInv, WorkDone, HasDone, Distilled, Results, Within, InRange, Batches
  <2> QED BY <2>1, <2>2 DEF ResultInv
<1> QED BY <1>2, <1>3, <1>4, <1>5 DEF Next

LEMMA InitDone ==
  ASSUME Init
  PROVE  ResultInv
<1>1. Batches = {}
  BY DEF Init, Batches
<1>2. ConsInv
  BY <1>1 DEF Init, ConsInv, NoBatchSkipped, CheckpointReusable
<1>3. OpsDone
  BY DEF Init, OpsDone, CompletedIsDone, Distilled, Owned, Op
<1>4. WorkDone
  BY DEF Init, WorkDone, HasDone, Start, BeforeResult, AfterResult, InRangePlaces, WithInput
<1> QED BY <1>2, <1>3, <1>4 DEF ResultInv

(***************************************************************************)
(* With one Worker and a database that answers, the invariant of what is     *)
(* finished: it holds through crashes, splits, leases that run out, model    *)
(* calls that fail and retries.                                             *)
(***************************************************************************)
THEOREM ResultInvariant == ASSUME OneAtATime, MaxFaults = 0 PROVE Spec => [](Inv /\ DoneInv)
<1>1. Init => Inv /\ DoneInv
  BY InitKeeps, InitRange, InitOwns, InitDone DEF DoneInv
<1>2. Inv /\ DoneInv /\ [Next]_vars => (Inv /\ DoneInv)'
  BY NextKeeps, StepDone
<1> QED BY <1>1, <1>2, PTL DEF Spec

(***************************************************************************)
(* The cursor never passes a Batch whose candidates were not ingested        *)
(* (distillation.ts:1356).                                                  *)
(***************************************************************************)
THEOREM NoBatchSkippedAlways == ASSUME OneAtATime, MaxFaults = 0 PROVE Spec => []NoBatchSkipped
<1>1. Inv /\ DoneInv => NoBatchSkipped
  BY DEF DoneInv, ResultInv, ConsInv
<1> QED BY <1>1, ResultInvariant, PTL

(***************************************************************************)
(* Nothing is marked completed before it is: events only with their Batch,   *)
(* operations only with their result or behind the cursor.                  *)
(***************************************************************************)
THEOREM CompletedIsDoneAlways == ASSUME OneAtATime, MaxFaults = 0 PROVE Spec => []CompletedIsDone
<1>1. Inv /\ DoneInv => CompletedIsDone
  BY DEF DoneInv, ResultInv, OpsDone
<1> QED BY <1>1, ResultInvariant, PTL

(***************************************************************************)
(* An unfinished consolidation finds in its row nothing, or the answer to    *)
(* just the Batch results it will read (distillation.ts:1356).              *)
(***************************************************************************)
THEOREM CheckpointReusableAlways ==
  ASSUME OneAtATime, MaxFaults = 0 PROVE Spec => []CheckpointReusable
<1>1. Inv /\ DoneInv => CheckpointReusable
  BY DEF DoneInv, ResultInv, ConsInv
<1> QED BY <1>1, ResultInvariant, PTL



-----------------------------------------------------------------------------
(***************************************************************************)
(* While no Batch is split, a SessionEnd is in no earlier Batch than what    *)
(* precedes it.                                                             *)
(***************************************************************************)
EventsInOrder ==
  /\ \A d, e \in Event : d < e /\ event[e].kind # "absent" => event[d].kind # "absent"
  /\ \A e \in Event : event[e].batch # 0 => event[e].kind # "absent"
  /\ \A d, e \in Event : d < e /\ event[e].kind = "end" /\ event[e].batch # 0 =>
       event[d].batch # 0 /\ event[d].batch <= event[e].batch

\* What a Worker is about to put into a Batch leaves nothing before a SessionEnd behind.
Takes(v) == worker[v].at = "assign" =>
  /\ \A e \in worker[v].selected : event[e].kind # "absent"
  /\ \A d, e \in Event : e \in worker[v].selected /\ event[e].kind = "end" /\ d < e =>
       event[d].batch # 0 \/ d \in worker[v].selected

AllTake == \A v \in Worker : Takes(v)
OrderInv == EventsInOrder /\ AllTake

LEMMA SelectionsTake ==
  ASSUME Inv, EventsInOrder, NEW s \in Selections
  PROVE  /\ \A e \in s : event[e].kind # "absent"
         /\ \A d, e \in Event : e \in s /\ event[e].kind = "end" /\ d < e =>
              event[d].batch # 0 \/ d \in s
<1>1. PICK f \in Event : FirstEligible(f) /\ \E last \in Rows(f) : s = {e \in Rows(f) : e <= last}
  BY DEF Selections
<1>2. PICK last \in Rows(f) : s = {e \in Rows(f) : e <= last}
  BY <1>1
<1>3. Rows(f) \subseteq Unassigned /\ Event \subseteq Nat
  BY Constants DEF Rows
<1>4. \A e \in s : event[e].kind # "absent"
  BY <1>2, <1>3 DEF Unassigned
<1>5. ASSUME NEW d \in Event, NEW e \in Event, e \in s, event[e].kind = "end", d < e,
             event[d].batch = 0
      PROVE  d \in s
  <2>1. d \in Unassigned
    BY <1>4, <1>5 DEF EventsInOrder, Unassigned
  <2>2. e \in Rows(f) /\ e <= last /\ last \in Nat /\ d \in Nat /\ e \in Nat /\ e \in Unassigned
    BY <1>2, <1>3, <1>5 DEF Unassigned
  <2>3. EndingsFrom(f) # {}
    <3>1. ASSUME EndingsFrom(f) = {} PROVE FALSE
      <4>1. e < f
        BY <1>3, <1>5, <3>1 DEF EndingsFrom
      <4>2. EndingsFrom(e) = {}
        BY <1>1, <2>2, <4>1 DEF FirstEligible
      <4>3. e \in EndingsFrom(e)
        BY <1>5, <2>2 DEF EndingsFrom
      <4> QED BY <4>2, <4>3
    <3> QED BY <3>1
  <2>4. e <= Min(EndingsFrom(f)) /\ Min(EndingsFrom(f)) \in Nat
    <3>1. EndingsFrom(f) \subseteq Nat
      BY <1>3 DEF EndingsFrom
    <3>2. Min(EndingsFrom(f)) \in EndingsFrom(f)
      BY <2>3, <3>1, LeastNumber
    <3> QED BY <2>2, <2>3, <3>1, <3>2 DEF Rows
  <2>5. d \in Rows(f)
    BY <1>5, <2>1, <2>2, <2>3, <2>4 DEF Rows
  <2> QED BY <1>2, <1>5, <2>2, <2>5
<1> QED BY <1>4, <1>5

LEMMA TakesByOne ==
  ASSUME OneAtATime, NEW w \in Worker, worker'[w].at # "assign"
  PROVE  AllTake'
BY DEF OneAtATime, AllTake, Takes

LEMMA OnlySelectGoesToAssign ==
  ASSUME Inv, NEW w \in Worker, Step(w) \/ Crash(w) \/ Fault(w), ~Select(w)
  PROVE  worker'[w].at # "assign"
<1>1. worker \in [Worker -> WorkerRow] /\ InPlace
  BY DEF Inv, InPlace
<1>2. ASSUME NEW at \in Place \ {"assign"}, Goto(w, at) PROVE worker'[w].at # "assign"
  BY <1>1, <1>2, GoesTo
<1>3. CASE worker' = [worker EXCEPT ![w] = Start]
  BY <1>1, <1>3 DEF Start
<1>4. CASE Throw(w)
  BY <1>1, <1>4, ThrowsTo DEF Start
<1>5. CASE \/ Recover(w) \/ Poll(w) \/ QueueAfterBatch(w) \/ Bind(w) \/ Distill(w) \/ Persist(w)
           \/ Finalize(w) \/ IngestBatch(w)
  BY <1>2, <1>4, <1>5
     DEF Recover, Poll, QueueAfterBatch, QueueIfReady, Bind, Distill, Persist, Finalize,
         IngestBatch, Place
<1>6. CASE \/ AdvanceCursor(w) \/ Consolidate(w) \/ Checkpoint(w) \/ IngestPages(w) \/ Finish(w)
  BY <1>2, <1>4, <1>6 DEF AdvanceCursor, Consolidate, Checkpoint, IngestPages, Finish, Place
<1>7. CASE Complete(w) \/ NotSplit(w) \/ Crash(w) \/ Fault(w) \/ \E at \in Event : Split(w, at)
  BY <1>3, <1>4, <1>7 DEF Complete, NotSplit, Crash, Fault, Split
<1>8. CASE Assign(w) \/ Mark(w) \/ \E category \in {"model", "schema_invalid"} : ModelFails(w, category)
  BY <1>1, <1>8 DEF Assign, Mark, ModelFails, WorkerRow
<1>9. CASE Load(w)
  BY <1>1, <1>4, <1>9 DEF Load, WorkerRow
<1>10. CASE Claim(w)
  <2>1. CASE Goto(w, "recover")
    BY <1>1, <2>1, GoesTo
  <2>2. CASE \E o \in Op : worker' = [worker EXCEPT ![w].at = "bind", ![w].op = o]
    BY <1>1, <2>2 DEF WorkerRow
  <2> QED BY <1>10, <2>1, <2>2 DEF Claim
<1>11. CASE FailOperation(w)
  <2>1. CASE \E s : worker' = [worker EXCEPT ![w].at = "mirror", ![w].failed = s]
    BY <1>1, <2>1 DEF WorkerRow
  <2> QED BY <1>3, <1>11, <2>1 DEF FailOperation
<1>12. CASE Mirror(w)
  <2>1. CASE worker' = [worker EXCEPT ![w] = [worker[w] EXCEPT !.at = "split"]]
    BY <1>1, <2>1 DEF WorkerRow
  <2> QED BY <1>3, <1>12, <2>1 DEF Mirror
<1> QED BY <1>5, <1>6, <1>7, <1>8, <1>9, <1>10, <1>11, <1>12 DEF Step

\* Events keep their Batch and kind but for Assign, Split and Capture.
EventsKept ==
  \A e \in Event : event'[e].batch = event[e].batch /\ event'[e].kind = event[e].kind

LEMMA KeptInOrder ==
  ASSUME EventsInOrder, EventsKept
  PROVE  EventsInOrder'
BY DEF EventsInOrder, EventsKept

LEMMA WorkKeepsEvents ==
  ASSUME Inv, NEW w \in Worker, Step(w) \/ Crash(w) \/ Fault(w),
         ~Assign(w), \A at \in Event : ~Split(w, at)
  PROVE  EventsKept
<1>1. event \in [Event -> EventRow]
  BY DEF Inv, StoreInv, Tables
<1>2. CASE UNCHANGED event
  BY <1>2 DEF EventsKept
<1>3. CASE \E b : event' = [e \in Event |-> [event[e] EXCEPT !.done = @ \/ event[e].batch = b]]
  BY <1>1, <1>3 DEF EventsKept, EventRow
<1>4. CASE Recover(w) \/ Persist(w)
  BY <1>2, <1>3, <1>4 DEF Recover, Persist, store
<1>5. CASE \/ Select(w) \/ Poll(w) \/ Claim(w) \/ Bind(w) \/ Mark(w) \/ Distill(w) \/ Finalize(w)
           \/ QueueAfterBatch(w)
  BY <1>2, <1>5 DEF Select, Poll, Claim, Bind, Mark, Distill, Finalize, QueueAfterBatch,
                    QueueIfReady, QueueRange, store
<1>6. CASE \/ IngestBatch(w) \/ AdvanceCursor(w) \/ Load(w) \/ Consolidate(w) \/ Checkpoint(w)
           \/ IngestPages(w) \/ Finish(w) \/ Complete(w) \/ FailOperation(w) \/ Mirror(w)
  BY <1>2, <1>6 DEF IngestBatch, AdvanceCursor, Load, Consolidate, Checkpoint, IngestPages, Finish,
                    Complete, FailOperation, Mirror, store
<1>7. CASE \/ NotSplit(w) \/ Crash(w) \/ Fault(w)
           \/ \E category \in {"model", "schema_invalid"} : ModelFails(w, category)
  BY <1>2, <1>7 DEF NotSplit, Crash, Fault, ModelFails, store
<1> QED BY <1>4, <1>5, <1>6, <1>7 DEF Step

LEMMA AssignInOrder ==
  ASSUME Inv, OrderInv, NEW w \in Worker, Assign(w)
  PROVE  EventsInOrder'
<1> DEFINE s == worker[w].selected
           n == NextBatch
<1>1. event \in [Event -> EventRow]
  BY DEF Inv, StoreInv, Tables
<1>2. CASE UNCHANGED event
  BY <1>2, KeptInOrder DEF OrderInv, EventsKept
<1>3. CASE StillAvailable(s) /\ event' = [e \in Event |-> IF e \in s
             THEN [event[e] EXCEPT !.batch = n, !.done = LifecycleOnly(s)] ELSE event[e]]
  <2>1. \A e \in Event : /\ event'[e].kind = event[e].kind
                         /\ event'[e].batch = IF e \in s THEN n ELSE event[e].batch
    BY <1>1, <1>3 DEF EventRow
  <2>2. /\ \A e \in Event : e \in s => event[e].batch = 0 /\ event[e].kind # "absent"
        /\ n \in Nat /\ n # 0
    BY <1>3, AssignsNewBatch, Constants DEF StillAvailable, Unassigned, Assign
  <2>3. \A e \in Event : event[e].batch # 0 => event[e].batch <= n
    <3>1. Made = 1..(n - 1)
      BY NextIsNew DEF Inv
    <3>2. \A e \in Event : event[e].batch # 0 => event[e].batch \in Made
      BY DEF Inv, StoreInv, Filled, Batches, Made
    <3> HIDE DEF n
    <3> QED BY <2>2, <3>1, <3>2
  <2>4. \A d, e \in Event : e \in s /\ event[e].kind = "end" /\ d < e => event[d].batch # 0 \/ d \in s
    BY DEF OrderInv, AllTake, Takes, Assign
  <2> HIDE DEF n, s
  <2>5. ASSUME NEW d \in Event, NEW e \in Event, d < e, event'[e].kind = "end", event'[e].batch # 0
        PROVE  event'[d].batch # 0 /\ event'[d].batch <= event'[e].batch
    <3>1. CASE e \in s
      <4>1. event'[e].batch = n
        BY <2>1, <3>1
      <4>2. event'[d].batch # 0 /\ event'[d].batch <= n
        BY <2>1, <2>2, <2>3, <2>4, <2>5, <3>1
      <4> QED BY <4>1, <4>2
    <3>2. CASE e \notin s
      <4>1. event[d].batch # 0 /\ event[d].batch <= event[e].batch /\ d \notin s
        BY <2>1, <2>2, <2>5, <3>2 DEF OrderInv, EventsInOrder
      <4> QED BY <2>1, <3>2, <4>1
    <3> QED BY <3>1, <3>2
  <2> QED BY <2>1, <2>2, <2>5 DEF OrderInv, EventsInOrder
<1> QED BY <1>2, <1>3 DEF Assign

LEMMA StepOrder ==
  ASSUME OneAtATime, MaxSplits = 0, Inv, OrderInv, [Next]_vars
  PROVE  OrderInv'
<1>1. ASSUME NEW w \in Worker, Step(w) \/ Crash(w) \/ Fault(w) PROVE OrderInv'
  <2>1. \A at \in Event : ~Split(w, at)
    BY DEF Split, Inv, StoreInv, Tables, SpentRow
  <2>2. CASE Select(w)
    <3>1. EventsKept /\ UNCHANGED event
      BY <2>2 DEF Select, store, EventsKept
    <3>2. CASE Goto(w, "queue")
      <4>1. worker'[w].at # "assign"
        BY <3>2, GoesTo DEF Inv
      <4> QED BY <3>1, <4>1, KeptInOrder, TakesByOne DEF OrderInv
    <3>3. ASSUME NEW s \in Selections,
                 worker' = [worker EXCEPT ![w].at = "assign", ![w].selected = s]
          PROVE  OrderInv'
      <4>1. worker'[w].selected = s
        BY <3>3 DEF Inv, InPlace, WorkerRow
      <4>2. AllTake'
        BY <3>1, <4>1, SelectionsTake DEF OneAtATime, AllTake, Takes, OrderInv
      <4> QED BY <3>1, <4>2, KeptInOrder DEF OrderInv
    <3> QED BY <2>2, <3>2, <3>3 DEF Select
  <2>3. CASE ~Select(w)
    <3>1. AllTake'
      BY <1>1, <2>3, OnlySelectGoesToAssign, TakesByOne
    <3>2. EventsInOrder'
      BY <1>1, <2>1, AssignInOrder, WorkKeepsEvents, KeptInOrder DEF OrderInv
    <3> QED BY <3>1, <3>2 DEF OrderInv
  <2> QED BY <2>2, <2>3
<1>2. ASSUME NEW x \in Event, NEW kind \in {"content", "end"}, NEW turn \in Turn,
             Capture(x, kind, turn)
      PROVE  OrderInv'
  <2>1. event \in [Event -> EventRow] /\ Event \subseteq Nat
    BY Constants DEF Inv, StoreInv, Tables
  <2>2. /\ event[x].kind = "absent" /\ \A d \in Event : d < x => event[d].kind # "absent"
        /\ event' = [event EXCEPT ![x].kind = kind, ![x].turn = turn] /\ UNCHANGED worker
    BY <1>2 DEF Capture
  <2>3. \A e \in Event : /\ event'[e].batch = event[e].batch
                         /\ event'[e].kind = IF e = x THEN kind ELSE event[e].kind
    BY <2>1, <2>2 DEF EventRow
  <2>4. event[x].batch = 0
    BY <2>2 DEF OrderInv, EventsInOrder
  <2>5. EventsInOrder'
    BY <2>1, <2>2, <2>3, <2>4 DEF OrderInv, EventsInOrder
  <2>6. ASSUME NEW v \in Worker, worker[v].at = "assign"
        PROVE  /\ \A e \in worker[v].selected : event'[e].kind # "absent"
               /\ \A d, e \in Event : e \in worker[v].selected /\ event'[e].kind = "end" /\ d < e =>
                    event'[d].batch # 0 \/ d \in worker[v].selected
    <3>1. worker[v].selected \subseteq Event
      BY DEF Inv, InPlace, WorkerRow
    <3>2. /\ \A e \in worker[v].selected : event[e].kind # "absent"
          /\ \A d, e \in Event : e \in worker[v].selected /\ event[e].kind = "end" /\ d < e =>
               event[d].batch # 0 \/ d \in worker[v].selected
      BY <2>6 DEF OrderInv, AllTake, Takes
    <3>3. \A e \in worker[v].selected : event'[e].kind = event[e].kind
      BY <2>2, <2>3, <3>1, <3>2
    <3> QED BY <2>3, <3>1, <3>2, <3>3
  <2>7. AllTake'
    BY <2>2, <2>6 DEF AllTake, Takes
  <2> QED BY <2>5, <2>7 DEF OrderInv
<1>3. ASSUME UNCHANGED <<event, worker>> PROVE OrderInv'
  BY <1>3 DEF OrderInv, EventsInOrder, AllTake, Takes
<1>4. ASSUME NEW o \in Op, TimePasses(o) \/ Retry(o) PROVE OrderInv'
  BY <1>3, <1>4 DEF TimePasses, Retry
<1>5. CASE UNCHANGED vars
  BY <1>3, <1>5 DEF vars
<1> QED BY <1>1, <1>2, <1>4, <1>5 DEF Next

(***************************************************************************)
(* With one Worker, a database that answers and no split, what a session     *)
(* said before a SessionEnd that the cursor has passed is ingested: the      *)
(* events are put into Batches in order (selectFirstEligibleDistillationEvent)*)
(* and no Batch is passed before it is ingested.                            *)
(***************************************************************************)
THEOREM SessionEndCoveredAlways ==
  ASSUME OneAtATime, MaxFaults = 0, MaxSplits = 0 PROVE Spec => []SessionEndCovered
<1>1. Init => OrderInv
  BY DEF Init, OrderInv, EventsInOrder, AllTake, Takes, Start
<1>2. Inv /\ OrderInv /\ [Next]_vars => OrderInv'
  BY StepOrder
<1>3. Inv /\ DoneInv /\ OrderInv => SessionEndCovered
  <2>1. ASSUME Inv, DoneInv, OrderInv, NEW e \in Event, NEW d \in Event,
               event[e].kind = "end", event[e].batch \in 1..cursor.through, d < e
        PROVE  event[d].batch \in ingested
    <3>1. cursor.through \in Nat
      BY <2>1, NumbersOfRanges
    <3>2. event[e].batch # 0 /\ event[e].batch <= cursor.through /\ event[e].batch \in Nat
      BY <2>1, <3>1
    <3>3. event[d].batch # 0 /\ event[d].batch <= event[e].batch
      BY <2>1, <3>2 DEF OrderInv, EventsInOrder
    <3>4. event[d].batch \in Batches
      BY <2>1, <3>3 DEF Inv, StoreInv, Filled
    <3>5. event[d].batch \in Nat
      BY <3>4, Constants DEF Batches
    <3>6. event[d].batch <= cursor.through
      BY <3>1, <3>2, <3>3, <3>5
    <3> QED BY <2>1, <3>4, <3>6 DEF DoneInv, ResultInv, ConsInv, NoBatchSkipped
  <2> QED BY <2>1 DEF SessionEndCovered
<1> QED BY <1>1, <1>2, <1>3, ResultInvariant, PTL DEF Spec
=============================================================================
