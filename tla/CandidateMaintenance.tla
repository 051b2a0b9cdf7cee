---------------------------- MODULE CandidateMaintenance ----------------------------
(***************************************************************************)
(* Weekly maintenance (worker/candidate-maintenance.ts) and the high-value    *)
(* anomalies it evaluates (candidates/anomalies.ts). Each completed weekly    *)
(* governance run is a window, numbered in order, and is maintained once; a   *)
(* Worker that dies before it records that evaluates the window again, over   *)
(* candidates that may have changed. What makes a window anomalous for a key  *)
(* (a Session, a Project, a tag) is a choice: the thresholds are not modelled. *)
(***************************************************************************)
EXTENDS Candidates

CONSTANTS
    AnomalyKeys,   \* what an anomaly may be about
    LastWindow     \* bound on the weekly windows

ASSUME MaintenanceAssumption == LastWindow \in Nat

VARIABLES
    windows,      \* weekly governance runs completed
    maintained,   \* windows with a candidate_maintenance_runs row
    maintenance,  \* the window being maintained, 0 for none, and is it evaluated
    anomaly,      \* high_value_anomalies, by key
    anomalous     \* windows each key was found anomalous in, by any evaluation

maintenanceVars == <<windows, maintained, maintenance, anomaly, anomalous>>

NotSeen == [state |-> "absent", last |-> 0, count |-> 0]

MaintenanceTypeOK ==
    /\ windows \in 0..LastWindow
    /\ maintained \subseteq 1..windows
    /\ maintenance \in [window: 0..LastWindow, evaluated: BOOLEAN]
    /\ anomaly \in [AnomalyKeys ->
         [state: {"absent", "provisional", "persistent", "resolved"},
          last: 0..windows, count: 0..windows]]
    /\ anomalous \in [AnomalyKeys -> SUBSET (1..LastWindow)]

MaintenanceInit ==
    /\ windows = 0 /\ maintained = {}
    /\ maintenance = [window |-> 0, evaluated |-> FALSE]
    /\ anomaly = [k \in AnomalyKeys |-> NotSeen]
    /\ anomalous = [k \in AnomalyKeys |-> {}]

CompleteWeekly ==
    /\ windows < LastWindow
    /\ windows' = windows + 1
    /\ UNCHANGED <<maintained, maintenance, anomaly, anomalous>>

\* runNextCandidateMaintenance takes the oldest window that has no row.
BeginMaintenance ==
    /\ maintenance.window = 0
    /\ \E w \in (1..windows) \ maintained :
         /\ \A v \in (1..windows) \ maintained : w <= v
         /\ maintenance' = [window |-> w, evaluated |-> FALSE]
    /\ UNCHANGED <<windows, maintained, anomaly, anomalous>>

\* Faulty variant: an anomaly that is still open counts every evaluation.
CountOfEvaluations(a, w) == IF a.state \in {"absent", "resolved"} THEN 1 ELSE a.count + 1

\* The same window again keeps the count, the next window adds to it unless the
\* anomaly was resolved, and any other starts anew.
CountAfter(a, w) ==
    IF a.state # "absent" /\ a.last = w THEN a.count
    ELSE IF a.state \in {"provisional", "persistent"} /\ a.last = w - 1 THEN a.count + 1
    ELSE 1

\* evaluateHighValueAnomalies: one transaction over all keys. What is open and not
\* found is resolved and keeps its window and its count.
Evaluated(a, w, found) ==
    IF found THEN [state |-> IF CountAfter(a, w) >= 2 THEN "persistent" ELSE "provisional",
                   last |-> w, count |-> CountAfter(a, w)]
    ELSE IF a.state = "absent" THEN a
    ELSE [a EXCEPT !.state = "resolved"]

EvaluateAnomalies ==
    /\ maintenance.window # 0 /\ ~maintenance.evaluated
    /\ LET w == maintenance.window IN
       \E found \in SUBSET AnomalyKeys :
         /\ anomaly' = [k \in AnomalyKeys |-> Evaluated(anomaly[k], w, k \in found)]
         /\ anomalous' = [k \in AnomalyKeys |->
                IF k \in found THEN anomalous[k] \cup {w} ELSE anomalous[k]]
    /\ maintenance' = [maintenance EXCEPT !.evaluated = TRUE]
    /\ UNCHANGED <<windows, maintained>>

RecordMaintenance ==
    /\ maintenance.evaluated
    /\ maintained' = maintained \cup {maintenance.window}
    /\ maintenance' = [window |-> 0, evaluated |-> FALSE]
    /\ UNCHANGED <<windows, anomaly, anomalous>>

MaintenanceDies ==
    /\ maintenance.window # 0
    /\ maintenance' = [window |-> 0, evaluated |-> FALSE]
    /\ UNCHANGED <<windows, maintained, anomaly, anomalous>>

MaintenanceNext ==
    CompleteWeekly \/ BeginMaintenance \/ EvaluateAnomalies \/ RecordMaintenance
    \/ MaintenanceDies

MaintenanceSpec == MaintenanceInit /\ [][MaintenanceNext]_maintenanceVars

-----------------------------------------------------------------------------
\* An anomaly is persistent only if two weekly windows in a row were found anomalous,
\* however often a window was evaluated again after a Worker died
\* (anomalies.ts, 253-266; SPEC.md:87).
PersistentIsTwoWindows ==
    \A k \in AnomalyKeys : anomaly[k].state = "persistent" =>
        anomaly[k].last > 1 /\ {anomaly[k].last - 1, anomaly[k].last} \subseteq anomalous[k]

(* A Memory is promoted only on evidence that was judged, and an anomaly of    *)
(* its space is persistent only after two anomalous windows in a row.           *)
CandidatesSound == PromotionSound /\ PersistentIsTwoWindows
=============================================================================
