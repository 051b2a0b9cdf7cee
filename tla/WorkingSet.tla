--------------------------------- MODULE WorkingSet ---------------------------------
(***************************************************************************)
(* The working set of one Memory Space (src/src/capacity/index.ts and the      *)
(* triggers of migration 0057). When a space holds more active memories than  *)
(* its target, the Worker computes which cold ones the automatic ranking      *)
(* leaves out. It reads rows and files without a lock and commits only if the *)
(* rows are still the ones it read; protections set by other processes remove *)
(* exclusions by trigger.                                                     *)
(***************************************************************************)
EXTENDS Integers, FiniteSets

CONSTANTS
    Members,           \* memories of the space
    SpaceTarget,       \* high water
    SpaceLowWater,     \* what a rebalance fills up to
    MaxMemberRevision  \* bound on the revisions of a Memory

ASSUME WorkingSetAssumption ==
    /\ IsFiniteSet(Members)
    /\ SpaceTarget \in Nat /\ SpaceLowWater \in Nat /\ SpaceLowWater <= SpaceTarget
    /\ MaxMemberRevision \in Nat

VARIABLES
    member,        \* memory_catalog with what protects each Memory
    excluded,      \* memory_ranking_exclusions: the revision left out, 0 for none
    obligation,    \* memory_capacity_obligations
    rebalancer     \* the pass over the space that the Worker runs

workingSetVars == <<member, excluded, obligation, rebalancer>>

\* protected: a pinned candidate, an open review, verification or conflict (rows);
\* fixed: pinned, retained, startup always or a risk category (in the file);
\* recent: revised or selected within the cold days.
MemberRecord == [active: BOOLEAN, revision: 0..MaxMemberRevision, protected: BOOLEAN,
                 fixed: BOOLEAN, recent: BOOLEAN]
NoInputs == [m \in Members |-> [active |-> FALSE, revision |-> 0, protected |-> FALSE,
                                fixed |-> FALSE, recent |-> FALSE]]

WorkingSetTypeOK ==
    /\ member \in [Members -> MemberRecord]
    /\ excluded \in [Members -> 0..MaxMemberRevision]
    /\ obligation \in [state: {"none", "pending", "satisfied"}, unreachable: BOOLEAN,
                       failed: BOOLEAN]
    /\ rebalancer \in [pc: {"idle", "observed", "reconciled", "loaded", "rebalanced"},
                       pressured: BOOLEAN, closing: BOOLEAN, inputs: [Members -> MemberRecord]]

WorkingSetInit ==
    /\ member = NoInputs
    /\ excluded = [m \in Members |-> 0]
    /\ obligation = [state |-> "none", unreachable |-> FALSE, failed |-> FALSE]
    /\ rebalancer = [pc |-> "idle", pressured |-> FALSE, closing |-> FALSE,
                     inputs |-> NoInputs]

ActiveOf(rows) == {m \in Members : rows[m].active}
Effective(m) == member[m].active /\ excluded[m] = member[m].revision
Ranked == {m \in ActiveOf(member) : ~Effective(m)}
Pressured == Cardinality(Ranked) > SpaceTarget
Moved(pc) == rebalancer' = [rebalancer EXCEPT !.pc = pc]

-----------------------------------------------------------------------------
(* What other processes do to the memories of the space                     *)

\* A promotion, a revision or a restore: a new revision with the file it writes.
WriteMember(m) ==
    /\ member[m].revision < MaxMemberRevision
    /\ \E fixed \in BOOLEAN :
         member' = [member EXCEPT ![m].active = TRUE, ![m].revision = @ + 1,
                                  ![m].fixed = fixed, ![m].recent = TRUE]
    /\ UNCHANGED <<excluded, obligation, rebalancer>>

ArchiveMember(m) ==
    /\ member[m].active
    /\ member' = [member EXCEPT ![m].active = FALSE]
    /\ UNCHANGED <<excluded, obligation, rebalancer>>

\* The pin, review, verification and conflict triggers delete the exclusion.
ProtectMember(m) ==
    /\ member[m].active /\ ~member[m].protected
    /\ member' = [member EXCEPT ![m].protected = TRUE]
    /\ excluded' = [excluded EXCEPT ![m] = 0]
    /\ UNCHANGED <<obligation, rebalancer>>

UnprotectMember(m) ==
    /\ member[m].protected
    /\ member' = [member EXCEPT ![m].protected = FALSE]
    /\ UNCHANGED <<excluded, obligation, rebalancer>>

\* reactivateExplicitlySelectedMemories, in the transaction of the receipt.
ExplicitRead(m) ==
    /\ member[m].active
    /\ member' = [member EXCEPT ![m].recent = TRUE]
    /\ excluded' = [excluded EXCEPT ![m] = IF Effective(m) THEN 0 ELSE @]
    /\ UNCHANGED <<obligation, rebalancer>>

\* Hooks select from the snapshot they have loaded, so perhaps an excluded Memory.
ForegroundSelect(m) ==
    /\ member[m].active /\ ~member[m].recent
    /\ member' = [member EXCEPT ![m].recent = TRUE]
    /\ UNCHANGED <<excluded, obligation, rebalancer>>

Cool(m) ==
    /\ member[m].recent
    /\ member' = [member EXCEPT ![m].recent = FALSE]
    /\ UNCHANGED <<excluded, obligation, rebalancer>>

-----------------------------------------------------------------------------
(* rebalancePressuredMemorySpaces                                           *)

\* reconcileMemoryCapacity reads the status on one connection ...
Observe ==
    /\ rebalancer.pc \in {"idle", "rebalanced"}
    /\ rebalancer' = [rebalancer EXCEPT !.pc = "observed", !.pressured = Pressured,
                                        !.closing = (rebalancer.pc = "rebalanced")]
    /\ UNCHANGED <<member, excluded, obligation>>

\* ... and writes the obligation in a transaction on another.
Reconcile ==
    /\ rebalancer.pc = "observed"
    /\ obligation' =
         IF rebalancer.pressured THEN [obligation EXCEPT !.state = "pending"]
         ELSE IF obligation.state = "pending" /\ Cardinality(Ranked) <= SpaceTarget
                 /\ ~obligation.unreachable
              THEN [obligation EXCEPT !.state = "satisfied"]
         ELSE obligation
    /\ Moved(IF rebalancer.closing THEN "idle" ELSE "reconciled")
    /\ UNCHANGED <<member, excluded>>

\* The space is pressured, or its next review is due.
SpaceDue == Pressured \/ obligation.unreachable \/ obligation.failed
       \/ \E m \in Members : excluded[m] # 0

LoadInputs ==
    /\ rebalancer.pc = "reconciled" /\ SpaceDue
    /\ rebalancer' = [rebalancer EXCEPT !.pc = "loaded", !.inputs = member]
    /\ UNCHANGED <<member, excluded, obligation>>

\* Not due: available, or waiting for the retry of a failure.
SkipSpace ==
    /\ rebalancer.pc = "reconciled" /\ (Pressured => obligation.failed)
    /\ Moved("rebalanced")
    /\ UNCHANGED <<member, excluded, obligation>>

Mandatory(rows) ==
    {m \in ActiveOf(rows) : rows[m].protected \/ rows[m].fixed \/ rows[m].recent}

\* selectMemoryWorkingSet: nothing is left out up to the target; above it the
\* mandatory ones stay and cold ones, in an order not modelled, fill up to low water.
Excludable(rows) ==
    IF Cardinality(ActiveOf(rows)) <= SpaceTarget THEN {{}}
    ELSE LET cold == ActiveOf(rows) \ Mandatory(rows)
             room == SpaceLowWater - Cardinality(Mandatory(rows))
         IN {cold \ kept : kept \in {k \in SUBSET cold :
                Cardinality(k) = IF room <= 0 THEN 0
                                 ELSE IF room < Cardinality(cold) THEN room
                                 ELSE Cardinality(cold)}}

\* The token over the rows read; that a Memory has grown cold is not in it.
InputsUnchanged ==
    \A m \in Members :
        LET was == rebalancer.inputs[m] IN
        /\ member[m].active = was.active /\ member[m].revision = was.revision
        /\ member[m].protected = was.protected /\ (member[m].recent => was.recent)

CommitRebalance ==
    /\ rebalancer.pc = "loaded" /\ InputsUnchanged
    /\ \E left \in Excludable(rebalancer.inputs) :
         excluded' = [m \in Members |->
                        IF m \in left THEN rebalancer.inputs[m].revision ELSE 0]
    /\ LET above == Cardinality(ActiveOf(rebalancer.inputs)) > SpaceTarget
           unreachable == above /\ Cardinality(Mandatory(rebalancer.inputs)) > SpaceLowWater
       IN obligation' = [state |-> IF unreachable THEN "pending" ELSE "satisfied",
                         unreachable |-> unreachable, failed |-> FALSE]
    /\ rebalancer' = [rebalancer EXCEPT !.pc = "rebalanced", !.inputs = NoInputs]
    /\ UNCHANGED member

\* recordMemoryWorkingSetRebalanceFailure, when the inputs have changed or cannot be read.
RebalanceFails ==
    /\ rebalancer.pc = "loaded"
    /\ obligation' = IF obligation.state = "none" THEN obligation
                     ELSE [obligation EXCEPT !.state = "pending", !.failed = TRUE]
    /\ rebalancer' = [rebalancer EXCEPT !.pc = "rebalanced", !.inputs = NoInputs]
    /\ UNCHANGED <<member, excluded>>

RebalancerDies ==
    /\ rebalancer.pc # "idle"
    /\ rebalancer' = [pc |-> "idle", pressured |-> FALSE, closing |-> FALSE,
                      inputs |-> NoInputs]
    /\ UNCHANGED <<member, excluded, obligation>>

WorkingSetNext ==
    \/ \E m \in Members :
         \/ WriteMember(m) \/ ArchiveMember(m) \/ ProtectMember(m) \/ UnprotectMember(m)
         \/ ExplicitRead(m) \/ ForegroundSelect(m) \/ Cool(m)
    \/ Observe \/ Reconcile \/ LoadInputs \/ SkipSpace \/ CommitRebalance
    \/ RebalanceFails \/ RebalancerDies

WorkingSetSpec == WorkingSetInit /\ [][WorkingSetNext]_workingSetVars

-----------------------------------------------------------------------------
\* What is left out of the ranking is never protected, whatever was protected,
\* revised, restored or read while the Worker computed what to leave out
\* (capacity/index.ts, 135-175 and 388-395, migration 0057).
ProtectedIsRanked ==
    \A m \in Members : Effective(m) => ~member[m].protected /\ ~member[m].fixed

\* A rebalance that changes what is left out leaves the ranking at low water or above, or
\* leaves nothing out, whatever was archived or written while it was computed
\* (capacity/index.ts, 380-412).
LowWaterHeld ==
    [][rebalancer.pc = "loaded" /\ rebalancer'.pc = "rebalanced" /\ excluded' # excluded =>
         \/ Cardinality({m \in ActiveOf(member) : excluded'[m] # member[m].revision})
              >= SpaceLowWater
         \/ \A m \in Members : excluded'[m] = 0]_workingSetVars

=============================================================================
