------------------------------ MODULE UpkeepProofs ------------------------------
(***************************************************************************)
(* Theorems about what the background Worker does with the model: LunaHealth *)
(* for any thresholds, failures, incidents and dates that reports carry,     *)
(* Quality for any Workers, revisions and rewrites, Governance for any runs, *)
(* memories and revisions, with one Worker at a time where a theorem says   *)
(* so, Dreaming for any Sessions, statements and runs, and what MCUpkeep     *)
(* puts side by side.                                                       *)
(***************************************************************************)
EXTENDS MCUpkeep, FiniteSetTheorems, WellFoundedInduction, TLAPS

HealthRow == [state: {"healthy", "degraded", "unavailable"}, failures: Nat, schema: Nat,
              first: Time \cup {Unknown}, last: Time \cup {Unknown},
              probe: Time \cup {Unknown}, incident: Nat]

Incident == [state: {"degraded", "unavailable", "recovered"}, transitions: Nat,
             pending: BOOLEAN]

(***************************************************************************)
(* Incidents are numbered from one; the others of TypeOK by columns.        *)
(***************************************************************************)
Rows ==
  /\ health \in HealthRow
  /\ \E n \in Nat : incidents \in [1..n -> Incident]
  /\ now \in Time /\ started \in 0..now
  /\ successes \in 0..2

(***************************************************************************)
(* The model is unhealthy exactly while an incident is open, which has its  *)
(* state, and no other incident is.                                         *)
(***************************************************************************)
OpenAgrees ==
  /\ health.state = "healthy" <=> health.incident = NoIncident
  /\ health.state # "healthy" => /\ health.incident \in DOMAIN incidents
                                 /\ incidents[health.incident].state = health.state
  /\ \A i \in DOMAIN incidents : i # health.incident => incidents[i].state = "recovered"

(***************************************************************************)
(* While the model is unhealthy a probe is known exactly since the first    *)
(* success, and only a date before the last failure keeps it waiting.       *)
(***************************************************************************)
ProbeKnown ==
  health.state # "healthy" =>
    /\ health.probe # Unknown <=> successes # 0
    /\ successes = 2 => health.last # Unknown /\ health.probe < health.last

(***************************************************************************)
(* What notices say of an incident: nothing of its current transition while *)
(* it is pending, and nothing newer than it is.                             *)
(***************************************************************************)
NoticesOld ==
  \A d \in notices : \A i, s, t : <<i, s, t>> \in d =>
    /\ i \in DOMAIN incidents
    /\ t \in Nat /\ t <= incidents[i].transitions
    /\ s = "recovered" => incidents[i].state = "recovered"
    /\ incidents[i].pending => s # incidents[i].state \/ t # incidents[i].transitions

Inv == Rows /\ OpenAgrees /\ ProbeKnown /\ NoticesOld

-----------------------------------------------------------------------------
(***************************************************************************)
(* The number of the next incident is not taken.                            *)
(***************************************************************************)
LEMMA NextNumber ==
  ASSUME NEW n \in Nat, incidents \in [1..n -> Incident]
  PROVE  DOMAIN incidents = 1..n /\ NextIncident = n + 1
<1>1. DOMAIN incidents = 1..n
  OBVIOUS
<1>2. Cardinality(1..n) = n
  BY FS_Interval
<1> QED BY <1>1, <1>2 DEF NextIncident

LEMMA TypesFollow == Inv => TypeOK
<1> SUFFICES ASSUME Inv PROVE TypeOK
  OBVIOUS
<1>1. PICK n \in Nat : incidents \in [1..n -> Incident]
  BY DEF Inv, Rows
<1>2. DOMAIN incidents = 1..n /\ Cardinality(DOMAIN incidents) = n
  BY <1>1, FS_Interval
<1>3. health.incident \in DOMAIN incidents \cup {NoIncident}
  BY DEF Inv, OpenAgrees
<1>4. \A i \in DOMAIN incidents :
        incidents[i] \in [state: {"degraded", "unavailable", "recovered"},
                          transitions: Nat, pending: BOOLEAN]
  BY <1>1, <1>2 DEF Incident
<1>5. health \in [state: {"healthy", "degraded", "unavailable"},
                 failures: Nat, schema: Nat, first: Time \cup {Unknown},
                 last: Time \cup {Unknown}, probe: Time \cup {Unknown},
                 incident: DOMAIN incidents \cup {NoIncident}]
  BY <1>3 DEF Inv, Rows, HealthRow
<1> QED BY <1>2, <1>4, <1>5 DEF TypeOK, Inv, Rows

LEMMA NewHealthRow ==
  /\ NewHealth \in HealthRow
  /\ NewHealth.state = "healthy" /\ NewHealth.incident = NoIncident
  BY DEF NewHealth, HealthRow, NoIncident

(***************************************************************************)
(* A failure opens an incident, moves the open one, or leaves all as it is. *)
(***************************************************************************)
LEMMA FailStep ==
  ASSUME Inv, NEW category \in Failure, NEW at \in ReportedAt, Fail(category, at)
  PROVE  /\ Inv'
         /\ \A i \in DOMAIN incidents : incidents[i].pending => incidents'[i].pending
         /\ health'.state = "healthy" => health.state = "healthy"
<1> USE DEF Inv
<1> DEFINE failures == health.failures + 1
           schema == IF category = "schema_invalid" THEN health.schema + 1 ELSE 0
           first == IF health.first = Unknown THEN at ELSE health.first
           next == StateAfter(category, failures, schema, at - first)
           opened == next # "healthy" /\ health.incident = NoIncident
<1>1. PICK n \in Nat : incidents \in [1..n -> Incident]
  BY DEF Rows
<1>2. DOMAIN incidents = 1..n /\ NextIncident = n + 1
  BY <1>1, NextNumber
<1>3. at \in Time /\ health \in HealthRow
  BY LunaHealthAssumption DEF ReportedAt, Rows, Time
<1>4. next \in {"degraded", "unavailable", health.state}
  BY DEF StateAfter
<1>5. failures \in Nat /\ schema \in Nat /\ first \in Time \cup {Unknown}
  BY <1>3 DEF HealthRow
<1>6. /\ health' = [state |-> next, failures |-> failures, schema |-> schema,
                    first |-> first, last |-> at, probe |-> Unknown,
                    incident |-> IF opened THEN NextIncident ELSE health.incident]
      /\ incidents' = IncidentsAfter(next)
      /\ successes' = 0 /\ UNCHANGED <<notices, now, started>>
  BY DEF Fail
<1> HIDE DEF failures, schema, first, next
<1>7. next \in {"healthy", "degraded", "unavailable"}
  BY <1>3, <1>4 DEF HealthRow
<1>8. health.incident \in Nat /\ n + 1 \in Nat
  BY <1>3 DEF HealthRow
<1>9. /\ health' \in HealthRow /\ health'.state = next /\ health'.probe = Unknown
      /\ health'.incident = IF opened THEN n + 1 ELSE health.incident
  BY <1>2, <1>3, <1>5, <1>6, <1>7, <1>8 DEF HealthRow
<1>10. health.state # "healthy" => next # "healthy"
  BY <1>4
<1>11. ProbeKnown'
  BY <1>6, <1>9 DEF ProbeKnown
<1>12. CASE next = "healthy" \/ next = health.state
  <2>1. incidents' = incidents /\ ~opened
    BY <1>3, <1>4, <1>6, <1>10, <1>12 DEF IncidentsAfter, OpenAgrees
  <2>2. health'.state = health.state /\ health'.incident = health.incident
    BY <1>9, <1>10, <1>12, <2>1
  <2>3. Rows' /\ OpenAgrees' /\ NoticesOld'
    BY <1>6, <1>9, <2>1, <2>2 DEF Rows, OpenAgrees, NoticesOld
  <2> QED BY <1>11, <2>1, <2>2, <2>3
<1>13. CASE next # "healthy" /\ next # health.state /\ health.incident = NoIncident
  <2> DEFINE new == [state |-> next, transitions |-> 1, pending |-> TRUE]
  <2>1. incidents' = [i \in DOMAIN incidents \cup {NextIncident} |->
                        IF i = NextIncident THEN new ELSE incidents[i]]
    BY <1>6, <1>13 DEF IncidentsAfter
  <2>2. DOMAIN incidents \cup {NextIncident} = 1..(n + 1)
    BY <1>2
  <2>3. new \in Incident
    BY <1>7, <1>13 DEF Incident
  <2>4. /\ incidents' \in [1..(n + 1) -> Incident] /\ DOMAIN incidents' = 1..(n + 1)
        /\ incidents'[n + 1] = new /\ \A i \in 1..n : incidents'[i] = incidents[i]
    BY <1>1, <1>2, <2>1, <2>2, <2>3
  <2>5. Rows'
    BY <1>6, <1>8, <1>9, <2>4 DEF Rows
  <2>6. new.state = next /\ health.state = "healthy" /\ health'.incident = n + 1
    BY <1>9, <1>13 DEF OpenAgrees
  <2>7. \A i \in 1..n : incidents[i].state = "recovered"
    BY <1>2, <1>13 DEF OpenAgrees, NoIncident
  <2>8. OpenAgrees'
    <3>1. \A i \in DOMAIN incidents' : i # n + 1 => i \in 1..n
      BY <2>4
    <3> QED BY <1>9, <1>13, <2>4, <2>6, <2>7, <3>1 DEF OpenAgrees, NoIncident
  <2>9. NoticesOld'
    BY <1>2, <1>6, <2>4 DEF NoticesOld
  <2> QED BY <1>2, <1>11, <2>4, <2>5, <2>6, <2>8, <2>9
<1>14. CASE next # "healthy" /\ next # health.state /\ health.incident # NoIncident
  <2>1. PICK k \in 1..n : k = health.incident /\ health.state # "healthy"
    BY <1>2, <1>14 DEF OpenAgrees
  <2> DEFINE new == [state |-> next, transitions |-> incidents[k].transitions + 1, pending |-> TRUE]
  <2>2. incidents' = [incidents EXCEPT ![k] = new]
    BY <1>6, <1>14, <2>1 DEF IncidentsAfter
  <2>3. new \in Incident /\ incidents[k] \in Incident
    BY <1>1, <1>7, <1>14 DEF Incident
  <2>4. /\ incidents' \in [1..n -> Incident] /\ DOMAIN incidents' = 1..n
        /\ incidents'[k] = new /\ \A i \in 1..n : i # k => incidents'[i] = incidents[i]
    BY <1>1, <2>2, <2>3
  <2>5. Rows'
    BY <1>6, <1>9, <2>4 DEF Rows
  <2>6. health'.incident = k
    BY <1>9, <1>14, <2>1
  <2>7. OpenAgrees'
    BY <1>2, <1>9, <1>14, <2>1, <2>4, <2>6 DEF OpenAgrees
  <2>8. NoticesOld'
    <3> SUFFICES ASSUME NEW d \in notices, NEW i, NEW s, NEW t, <<i, s, t>> \in d
                 PROVE  /\ i \in DOMAIN incidents' /\ t \in Nat /\ t <= incidents'[i].transitions
                        /\ s = "recovered" => incidents'[i].state = "recovered"
                        /\ incidents'[i].pending => s # incidents'[i].state
                                                    \/ t # incidents'[i].transitions
      BY <1>6 DEF NoticesOld
    <3>1. /\ i \in 1..n /\ t \in Nat /\ t <= incidents[i].transitions
          /\ s = "recovered" => incidents[i].state = "recovered"
          /\ incidents[i].pending => s # incidents[i].state \/ t # incidents[i].transitions
      BY <1>2 DEF NoticesOld
    <3>2. CASE i = k
      <4>1. incidents[k].transitions \in Nat /\ incidents[k].state # "recovered"
        BY <1>3, <2>1, <2>3 DEF Incident, OpenAgrees, HealthRow
      <4> QED BY <2>4, <3>1, <3>2, <4>1
    <3>3. CASE i # k
      BY <2>4, <3>1, <3>3
    <3> QED BY <3>2, <3>3
  <2> QED BY <1>2, <1>9, <1>11, <1>14, <2>4, <2>5, <2>7, <2>8
<1> QED BY <1>12, <1>13, <1>14

(***************************************************************************)
(* A success ends the open incident, once a probe is known; it changes no   *)
(* other, and no flag is cleared by it.                                     *)
(***************************************************************************)
LEMMA SucceedStep ==
  ASSUME Inv, NEW at \in ReportedAt, Succeed(at)
  PROVE  /\ Inv'
         /\ \A i \in DOMAIN incidents : incidents[i].pending => incidents'[i].pending
         /\ health.state # "healthy" /\ health'.state = "healthy" => successes >= 1
<1> USE DEF Inv
<1>1. PICK n \in Nat : incidents \in [1..n -> Incident]
  BY DEF Rows
<1>2. DOMAIN incidents = 1..n
  BY <1>1
<1>3. at \in Time /\ health \in HealthRow /\ successes \in 0..2
  BY LunaHealthAssumption DEF ReportedAt, Rows, Time
<1>4. /\ Recover \/ StayHealthy \/ Probe(at)
      /\ successes' = IF successes = 0 THEN 1 ELSE 2
      /\ UNCHANGED <<notices, now, started>>
  BY DEF Succeed
<1>5. successes' \in 0..2 /\ successes' # 0 /\ (successes' = 2 <=> successes # 0)
  BY <1>3, <1>4
<1>6. CASE Recover
  <2>1. health.state # "healthy" /\ health.probe # Unknown /\ health.incident # NoIncident
    BY <1>6 DEF Recover, CanRecover, OpenAgrees
  <2>2. PICK k \in 1..n : k = health.incident /\ incidents[k].state = health.state
    BY <1>2, <2>1 DEF OpenAgrees
  <2> DEFINE new == [incidents[k] EXCEPT !.state = "recovered", !.pending = TRUE]
  <2>3. incidents' = [incidents EXCEPT ![k] = new]
    BY <1>6, <2>1, <2>2 DEF Recover
  <2>4. /\ incidents[k] \in Incident /\ new \in Incident /\ new.state = "recovered" /\ new.pending
        /\ new.transitions = incidents[k].transitions
    BY <1>1 DEF Incident
  <2>5. /\ incidents' \in [1..n -> Incident] /\ DOMAIN incidents' = 1..n
        /\ incidents'[k] = new /\ \A i \in 1..n : i # k => incidents'[i] = incidents[i]
    BY <1>1, <2>3, <2>4
  <2>6. health' \in HealthRow /\ health'.state = "healthy" /\ health'.incident = NoIncident
    BY <1>3, <1>6 DEF Recover, NewHealth, HealthRow, NoIncident
  <2>7. Rows'
    BY <1>4, <1>5, <2>5, <2>6 DEF Rows
  <2>8. OpenAgrees'
    <3>1. \A i \in 1..n : i # k => incidents[i].state = "recovered"
      BY <1>2, <2>2 DEF OpenAgrees
    <3>2. \A i \in 1..n : incidents'[i].state = "recovered"
      BY <2>4, <2>5, <3>1
    <3> QED BY <2>5, <2>6, <3>2 DEF OpenAgrees
  <2>9. ProbeKnown'
    BY <2>6 DEF ProbeKnown
  <2>10. NoticesOld'
    <3> SUFFICES ASSUME NEW d \in notices, NEW i, NEW s, NEW t, <<i, s, t>> \in d
                 PROVE  /\ i \in DOMAIN incidents' /\ t \in Nat /\ t <= incidents'[i].transitions
                        /\ s = "recovered" => incidents'[i].state = "recovered"
                        /\ incidents'[i].pending => s # incidents'[i].state
                                                    \/ t # incidents'[i].transitions
      BY <1>4 DEF NoticesOld
    <3>1. /\ i \in 1..n /\ t \in Nat /\ t <= incidents[i].transitions
          /\ s = "recovered" => incidents[i].state = "recovered"
          /\ incidents[i].pending => s # incidents[i].state \/ t # incidents[i].transitions
      BY <1>2 DEF NoticesOld
    <3>2. health.state # "recovered"
      BY <1>3 DEF HealthRow
    <3>3. CASE i = k
      BY <2>2, <2>4, <2>5, <3>1, <3>2, <3>3
    <3>4. CASE i # k
      BY <2>5, <3>1, <3>4
    <3> QED BY <3>3, <3>4
  <2>11. successes >= 1
    BY <1>3, <2>1 DEF ProbeKnown
  <2>12. \A i \in DOMAIN incidents : incidents[i].pending => incidents'[i].pending
    BY <1>2, <2>4, <2>5
  <2> QED BY <2>7, <2>8, <2>9, <2>10, <2>11, <2>12
<1>7. CASE StayHealthy
  <2>1. incidents' = incidents /\ health.state = "healthy"
    BY <1>7 DEF StayHealthy
  <2>2. /\ health' \in HealthRow /\ health'.state = "healthy"
        /\ health'.incident = health.incident
    BY <1>3, <1>7 DEF StayHealthy, NewHealth, HealthRow
  <2>3. Rows' /\ OpenAgrees' /\ ProbeKnown' /\ NoticesOld'
    BY <1>4, <1>5, <2>1, <2>2 DEF Rows, OpenAgrees, ProbeKnown, NoticesOld
  <2> QED BY <2>1, <2>3
<1>8. CASE Probe(at)
  <2>1. incidents' = incidents /\ health.state # "healthy" /\ ~CanRecover
    BY <1>8 DEF Probe
  <2>2. /\ health' \in HealthRow /\ health'.state = health.state
        /\ health'.incident = health.incident /\ health'.last = health.last
        /\ health'.probe = IF health.probe = Unknown THEN at ELSE health.probe
    BY <1>3, <1>8 DEF Probe, HealthRow
  <2>3. Rows' /\ OpenAgrees' /\ NoticesOld'
    BY <1>4, <1>5, <2>1, <2>2 DEF Rows, OpenAgrees, NoticesOld
  <2>4. health'.probe # Unknown
    BY <1>3, <2>2 DEF Time, Unknown
  <2>5. successes # 0 => health.probe # Unknown
    BY <2>1 DEF ProbeKnown
  <2>6. health.probe # Unknown => health.last # Unknown /\ ~(health.probe >= health.last)
    BY <2>1 DEF CanRecover
  <2>7. health.probe # Unknown /\ health.last # Unknown
          => health.probe \in Int /\ health.last \in Int
    BY <1>3 DEF HealthRow, Time
  <2>8. ProbeKnown'
    BY <1>5, <2>2, <2>4, <2>5, <2>6, <2>7 DEF ProbeKnown
  <2> QED BY <2>1, <2>2, <2>3, <2>8
<1> QED BY <1>4, <1>6, <1>7, <1>8

(***************************************************************************)
(* A notice tells the current transition of each pending incident, which no *)
(* earlier notice did, and clears the flags.                                *)
(***************************************************************************)
LEMMA PrepareStep ==
  ASSUME Inv, PrepareReminder
  PROVE  Inv' /\ notices' # notices /\ health' = health
<1> USE DEF Inv
<1> DEFINE digest == {<<i, incidents[i].state, incidents[i].transitions>> : i \in Pending}
<1>1. PICK n \in Nat : incidents \in [1..n -> Incident]
  BY DEF Rows
<1>2. DOMAIN incidents = 1..n
  BY <1>1
<1>3. /\ Pending # {} /\ notices' = notices \cup {digest}
      /\ incidents' = [i \in DOMAIN incidents |-> [incidents[i] EXCEPT !.pending = FALSE]]
      /\ UNCHANGED <<health, now, started, successes>>
  BY DEF PrepareReminder
<1>4. \A i \in 1..n : incidents[i] \in Incident
  BY <1>1
<1>5. \A i \in 1..n : /\ [incidents[i] EXCEPT !.pending = FALSE] \in Incident
                      /\ [incidents[i] EXCEPT !.pending = FALSE].state = incidents[i].state
                      /\ [incidents[i] EXCEPT !.pending = FALSE].transitions
                           = incidents[i].transitions
                      /\ ~[incidents[i] EXCEPT !.pending = FALSE].pending
  BY <1>4 DEF Incident
<1>6. /\ incidents' \in [1..n -> Incident] /\ DOMAIN incidents' = 1..n
      /\ \A i \in 1..n : /\ incidents'[i].state = incidents[i].state
                         /\ incidents'[i].transitions = incidents[i].transitions
                         /\ ~incidents'[i].pending
  BY <1>2, <1>3, <1>5
<1>7. Rows'
  BY <1>3, <1>6 DEF Rows
<1>8. OpenAgrees' /\ ProbeKnown'
  BY <1>2, <1>3, <1>6 DEF OpenAgrees, ProbeKnown
<1>9. NoticesOld'
  <2> SUFFICES ASSUME NEW d \in notices', NEW i, NEW s, NEW t, <<i, s, t>> \in d
               PROVE  /\ i \in DOMAIN incidents' /\ t \in Nat /\ t <= incidents'[i].transitions
                      /\ s = "recovered" => incidents'[i].state = "recovered"
                      /\ ~incidents'[i].pending
    BY DEF NoticesOld
  <2>1. CASE d \in notices
    BY <1>2, <1>6, <2>1 DEF NoticesOld
  <2>2. CASE d = digest
    <3>1. PICK k \in Pending : <<i, s, t>> = <<k, incidents[k].state, incidents[k].transitions>>
      BY <2>2
    <3>2. i = k /\ s = incidents[k].state /\ t = incidents[k].transitions /\ k \in 1..n
      BY <1>2, <3>1 DEF Pending
    <3>3. incidents[k].transitions \in Nat
      BY <1>4, <3>2 DEF Incident
    <3> QED BY <1>6, <3>2, <3>3
  <2> QED BY <1>3, <2>1, <2>2
<1>10. notices' # notices
  <2>1. PICK k \in Pending : k \in DOMAIN incidents /\ incidents[k].pending
    BY <1>3 DEF Pending
  <2>2. <<k, incidents[k].state, incidents[k].transitions>> \in digest
    OBVIOUS
  <2>3. digest \notin notices
    BY <2>1, <2>2 DEF NoticesOld
  <2> QED BY <1>3, <2>3
<1> QED BY <1>3, <1>7, <1>8, <1>9, <1>10

LEMMA InvInit == Init => Inv
<1> SUFFICES ASSUME Init PROVE Inv
  OBVIOUS
<1>1. incidents \in [1..0 -> Incident] /\ DOMAIN incidents = {}
  BY DEF Init
<1>2. now \in Time /\ started \in 0..now /\ successes \in 0..2
  BY LunaHealthAssumption DEF Init, Time
<1>3. Rows
  BY <1>1, <1>2, NewHealthRow DEF Init, Rows
<1>4. OpenAgrees /\ ProbeKnown /\ NoticesOld
  BY <1>1, NewHealthRow DEF Init, OpenAgrees, ProbeKnown, NoticesOld
<1> QED BY <1>3, <1>4 DEF Inv

(***************************************************************************)
(* What a step does that the two action properties speak of.                *)
(***************************************************************************)
LucklessStep == health.state # "healthy" /\ health'.state = "healthy" => successes >= 1

NewNoticeStep ==
  (\E i \in DOMAIN incidents : incidents[i].pending /\ ~incidents'[i].pending)
    => notices' # notices

LEMMA InvStep == Inv /\ [Next]_vars => Inv' /\ LucklessStep /\ NewNoticeStep
<1> SUFFICES ASSUME Inv, [Next]_vars PROVE Inv' /\ LucklessStep /\ NewNoticeStep
  OBVIOUS
<1> USE DEF LucklessStep, NewNoticeStep
<1>1. ASSUME NEW at \in ReportedAt, Succeed(at)
      PROVE  Inv' /\ LucklessStep /\ NewNoticeStep
  BY <1>1, SucceedStep
<1>2. ASSUME NEW at \in ReportedAt, NEW category \in Failure, Fail(category, at)
      PROVE  Inv' /\ LucklessStep /\ NewNoticeStep
  BY <1>2, FailStep
<1>3. CASE PrepareReminder
  BY <1>3, PrepareStep
<1>4. CASE StartIteration
  <2>1. started' \in 0..now'
    BY <1>4, LunaHealthAssumption DEF StartIteration, Inv, Rows, Time
  <2> QED BY <1>4, <2>1 DEF StartIteration, Inv, Rows, OpenAgrees, ProbeKnown, NoticesOld
<1>5. CASE Tick
  <2>1. now' \in Time /\ started' \in 0..now'
    BY <1>5, LunaHealthAssumption DEF Tick, Inv, Rows, Time
  <2> QED BY <1>5, <2>1 DEF Tick, Inv, Rows, OpenAgrees, ProbeKnown, NoticesOld
<1>6. CASE UNCHANGED vars
  BY <1>6 DEF vars, Inv, Rows, OpenAgrees, ProbeKnown, NoticesOld
<1> QED BY <1>1, <1>2, <1>3, <1>4, <1>5, <1>6 DEF Next

(***************************************************************************)
(* The invariant above holds in every reachable state.                      *)
(***************************************************************************)
THEOREM HealthInvariant == Spec => []Inv
<1>1. Init => Inv
  BY InvInit
<1>2. Inv /\ [Next]_vars => Inv'
  BY InvStep
<1> QED BY <1>1, <1>2, PTL DEF Spec

(***************************************************************************)
(* Every row of health and incidents is well formed.                        *)
(***************************************************************************)
THEOREM HealthTypes == Spec => []TypeOK
<1>1. Inv => TypeOK
  BY TypesFollow
<1> QED BY <1>1, HealthInvariant, PTL

(***************************************************************************)
(* There is an incident that is not recovered exactly while the model is    *)
(* unhealthy, and it is the one of luna_health_state, with its state.       *)
(***************************************************************************)
THEOREM OneOpenIncidentAlways == Spec => []OneOpenIncident
<1>1. Inv => OneOpenIncident
  <2> SUFFICES ASSUME Inv PROVE OneOpenIncident
    OBVIOUS
  <2>1. health.state \in {"healthy", "degraded", "unavailable"}
    BY DEF Inv, Rows, HealthRow
  <2>2. CASE health.state = "healthy"
    <3>1. \A i \in DOMAIN incidents : i # health.incident
      BY <2>2 DEF Inv, Rows, OpenAgrees, NoIncident
    <3> QED BY <2>2, <3>1 DEF Inv, OpenAgrees, OneOpenIncident
  <2>3. CASE health.state # "healthy"
    BY <2>1, <2>3 DEF Inv, OpenAgrees, OneOpenIncident
  <2> QED BY <2>2, <2>3
<1> QED BY <1>1, HealthInvariant, PTL

(***************************************************************************)
(* Two successes in a row end an incident, unless the probe carries a date  *)
(* before the last failure; a single one never does.                        *)
(***************************************************************************)
THEOREM RecoveryIsExactAlways == Spec => RecoveryIsExact
<1>1. Inv => (successes = 2 /\ health.state # "healthy" =>
                health.probe # Unknown /\ health.probe < health.last)
  BY DEF Inv, ProbeKnown
<1>2. Inv /\ [Next]_vars =>
        [health.state # "healthy" /\ health'.state = "healthy" => successes >= 1]_vars
  BY InvStep DEF LucklessStep
<1> QED BY <1>1, <1>2, HealthInvariant, PTL DEF Spec, RecoveryIsExact

(***************************************************************************)
(* The digest of every notice is new, so that INSERT OR IGNORE stores it.   *)
(***************************************************************************)
THEOREM EveryNoticeIsNewAlways == Spec => EveryNoticeIsNew
<1>1. Inv /\ [Next]_vars =>
        [(\E i \in DOMAIN incidents : incidents[i].pending /\ ~incidents'[i].pending)
           => notices' # notices]_vars
  BY InvStep DEF NewNoticeStep
<1> QED BY <1>1, HealthInvariant, PTL DEF Spec, EveryNoticeIsNew

(***************************************************************************)
(* An incident ends exactly when it should and each of its notices is new,   *)
(* in every behaviour.                                                     *)
(***************************************************************************)
THEOREM IncidentsKeptAlways == Spec => IncidentsKept
  BY RecoveryIsExactAlways, EveryNoticeIsNewAlways DEF IncidentsKept

-----------------------------------------------------------------------------
(***************************************************************************)
(* Quality.  What is published was judged: a Worker that publishes holds a   *)
(* draft the judge preserved, and the vault compares the content of the item *)
(* with the file.  That a human's memory keeps its words needs more: an item  *)
(* was queued for a content of its own revision or an earlier one, and a      *)
(* Worker that took the memory for an agent's while it is now the human's     *)
(* holds a revision older than the body.                                    *)
(***************************************************************************)
Judged == \A w \in QualityWorkers : worker[w].pc = "publishing" => worker[w].draft = "good"

BodyIsOld == memory.body <= memory.rev /\ memory.file \in {memory.body, Edited(memory.body)}

ItemsAreOld == \A r \in Sources : quality[r].source <= r \/ quality[r].source > MaxSource

Outrun == \A w \in QualityWorkers : worker[w].pc # "idle" =>
            /\ worker[w].rev \in Sources /\ worker[w].rev <= memory.rev
            /\ memory.human /\ ~worker[w].human => worker[w].rev < memory.body

QualityInv == QualityTypeOK /\ CompactFits /\ Judged /\ BodyIsOld /\ ItemsAreOld /\ Outrun

Items == [Sources -> QualityItems]
Posts == [pc: {"idle", "asking", "publishing", "published"},
          phase: {"none", "generation", "validation"}, rev: Sources \cup {0},
          draft: {"none", "poor", "good"}, reasons: 0..RewriteLimit, human: BOOLEAN]

\* The numbers of revisions and contents.
LEMMA QualityConstants ==
  /\ MaxSource \in Nat \ {0} /\ RewriteLimit \in Nat
  /\ 1 \in Sources /\ Sources \subseteq Int /\ Contents \subseteq Int
  /\ \A r \in Sources : r \in Contents /\ Edited(r) \in Contents /\ Edited(r) > MaxSource
  /\ \A r \in Sources : 0 < r /\ r <= MaxSource
  BY QualityAssumption DEF Sources, Contents, Edited

\* The first revision, with nothing queued and no Worker, satisfies the invariant.
LEMMA QualityStarts == QualityInit => QualityInv
<1> SUFFICES ASSUME QualityInit PROVE QualityInv
  OBVIOUS
<1>1. PICK human \in BOOLEAN :
        memory = [rev |-> 1, body |-> 1, file |-> 1, human |-> human,
                  active |-> TRUE, compact |-> NoCompact]
  BY DEF QualityInit
<1>2. /\ NoCompact \in Compacts /\ NoQualityItem \in QualityItems /\ QualityIdle \in Posts
      /\ NoQualityItem.source = 0 /\ QualityIdle.pc = "idle"
  BY QualityConstants DEF NoCompact, Compacts, NoQualityItem, QualityItems, QualityIdle, Posts
<1>3. QualityTypeOK
  BY <1>1, <1>2, QualityConstants DEF QualityInit, QualityTypeOK, Posts, Compacts
<1>4. Judged /\ Outrun
  BY <1>2 DEF QualityInit, Judged, Outrun
<1>5. BodyIsOld
  BY <1>1 DEF BodyIsOld
<1>6. ItemsAreOld
  BY <1>2, QualityConstants DEF QualityInit, ItemsAreOld
<1>7. CompactFits
  BY <1>1 DEF CompactFits
<1> QED BY <1>3, <1>4, <1>5, <1>6, <1>7 DEF QualityInv

\* A step that leaves the memory alone, writes an item of the content it had, and
\* moves at most one Worker, to a post that respects the invariant.
LEMMA MemoryStill ==
  ASSUME QualityInv, UNCHANGED <<memory, scan>>, summary' \in [Sources -> Compacts],
         quality' \in Items, \A r \in Sources : quality'[r].source = quality[r].source,
         NEW w \in QualityWorkers, NEW p \in Posts, worker' = [worker EXCEPT ![w] = p],
         p.pc = "publishing" => p.draft = "good",
         p.pc # "idle" => /\ p.rev \in Sources /\ p.rev <= memory.rev
                          /\ memory.human /\ ~p.human => p.rev < memory.body
  PROVE  QualityInv'
<1> USE DEF QualityInv
<1>1. worker \in [QualityWorkers -> Posts]
  BY DEF QualityTypeOK, Posts
<1>2. worker' \in [QualityWorkers -> Posts] /\ \A v \in QualityWorkers :
        worker'[v] = IF v = w THEN p ELSE worker[v]
  BY <1>1
<1>3. QualityTypeOK'
  BY <1>2 DEF QualityTypeOK, Posts, Items
<1>4. Judged'
  BY <1>2 DEF Judged
<1>5. ItemsAreOld'
  BY DEF ItemsAreOld
<1>6. Outrun'
  BY <1>2 DEF Outrun
<1>7. CompactFits' /\ BodyIsOld'
  BY DEF CompactFits, BodyIsOld
<1> QED BY <1>3, <1>4, <1>5, <1>6, <1>7

\* A step of the memory alone, or one that queues its new revision.
LEMMA WorkersStill ==
  ASSUME QualityInv, UNCHANGED <<summary, worker>>, scan' \in BOOLEAN,
         memory' \in [rev: Sources, body: Sources, file: Contents, human: BOOLEAN,
                      active: BOOLEAN, compact: Compacts],
         CompactFits', BodyIsOld', memory.rev <= memory'.rev,
         memory'.human => \/ memory.human /\ memory'.body = memory.body
                          \/ memory.rev < memory'.body,
         quality' = quality \/ \E r \in Sources, c \in Contents :
                                 quality' = QueuedItem(r, c) /\ (c <= r \/ c > MaxSource)
  PROVE  QualityInv'
<1> USE DEF QualityInv
<1>1. quality \in Items /\ worker \in [QualityWorkers -> Posts] /\ memory.rev \in Sources
  BY DEF QualityTypeOK, Posts, Items
<1>2. quality' \in Items /\ ItemsAreOld'
  <2>1. CASE quality' = quality
    BY <2>1, <1>1 DEF ItemsAreOld
  <2>2. ASSUME NEW r \in Sources, NEW c \in Contents,
               quality' = QueuedItem(r, c), c <= r \/ c > MaxSource
        PROVE  quality' \in Items /\ ItemsAreOld'
    <3> DEFINE i == [NoQualityItem EXCEPT !.state = "pending_generation", !.source = c]
    <3>0. NoQualityItem \in QualityItems
      BY QualityConstants DEF NoQualityItem, QualityItems
    <3>1. i \in QualityItems /\ i.source = c
      BY <3>0 DEF QualityItems, AwaitingModel
    <3> HIDE DEF i
    <3>2. CASE quality' = quality
      BY <3>2, <1>1 DEF ItemsAreOld
    <3>3. CASE quality' = [quality EXCEPT ![r] = i]
      BY <3>1, <3>3, <2>2, <1>1 DEF ItemsAreOld, Items
    <3> QED BY <2>2, <3>2, <3>3 DEF QueuedItem, i
  <2> QED BY <2>1, <2>2
<1>3. QualityTypeOK'
  BY <1>1, <1>2 DEF QualityTypeOK, Posts, Items
<1>4. Judged'
  BY DEF Judged
<1>5. Outrun'
  <2> SUFFICES ASSUME NEW w \in QualityWorkers, worker[w].pc # "idle"
               PROVE  /\ worker[w].rev \in Sources /\ worker[w].rev <= memory'.rev
                      /\ memory'.human /\ ~worker[w].human => worker[w].rev < memory'.body
    BY DEF Outrun
  <2>1. /\ worker[w].rev \in Sources /\ worker[w].rev <= memory.rev
        /\ memory.human /\ ~worker[w].human => worker[w].rev < memory.body
    BY DEF Outrun
  <2>2. memory'.rev \in Int /\ memory'.body \in Int /\ memory.body \in Int
        /\ memory.rev \in Int /\ worker[w].rev \in Int
    BY <1>3, <2>1, QualityConstants DEF QualityTypeOK
  <2> QED BY <2>1, <2>2
<1> QED BY <1>2, <1>3, <1>4, <1>5

\* Queueing, revisions and the owner's edits.
LEMMA MemorySteps ==
  ASSUME QualityInv, NEW human \in BOOLEAN,
         EnableScan \/ Backfill \/ ReviseMemory(human) \/ ChangeLife \/ EditFile
  PROVE  /\ QualityInv'
         /\ memory' # memory => memory'.compact \in {memory.compact, NoCompact}
<1> DEFINE MemoryRows == [rev: Sources, body: Sources, file: Contents, human: BOOLEAN,
                          active: BOOLEAN, compact: Compacts]
<1>1. /\ memory \in MemoryRows /\ CompactFits /\ scan \in BOOLEAN
      /\ memory.body <= memory.rev /\ memory.file \in {memory.body, Edited(memory.body)}
  BY DEF QualityInv, QualityTypeOK, BodyIsOld
<1>2. memory.rev \in Int /\ memory.body \in Int /\ memory.rev + 1 > memory.rev
      /\ memory.body \in Contents /\ NoCompact \in Compacts
      /\ (memory.rev < MaxSource => /\ memory.rev + 1 \in Sources /\ memory.rev + 1 \in Contents)
  BY <1>1, QualityConstants DEF Sources, NoCompact, Compacts
<1>3. CASE EnableScan
  <2>1. UNCHANGED <<memory, summary, quality, worker>> /\ scan' \in BOOLEAN
    BY <1>3 DEF EnableScan
  <2> QED BY <1>1, <1>2, <2>1, WorkersStill DEF QualityInv, BodyIsOld, CompactFits
<1>4. CASE Backfill
  <2>1. UNCHANGED <<memory, summary, scan, worker>> /\ quality' = QueuedItem(memory.rev, memory.file)
    BY <1>4 DEF Backfill
  <2>2. memory.file <= memory.rev \/ memory.file > MaxSource
    BY <1>1, <1>2, QualityConstants
  <2> QED BY <1>1, <1>2, <2>1, <2>2, WorkersStill DEF QualityInv, BodyIsOld, CompactFits
<1>5. CASE ReviseMemory(human)
  <2> DEFINE m == [rev |-> memory.rev + 1, body |-> memory.rev + 1, file |-> memory.rev + 1,
                   human |-> human, active |-> memory.active, compact |-> NoCompact]
  <2>1. memory' = m /\ memory.rev < MaxSource /\ UNCHANGED <<summary, scan, worker>>
        /\ (quality' = quality \/ quality' = QueuedItem(memory.rev + 1, memory.rev + 1))
    BY <1>5 DEF ReviseMemory
  <2>2. m \in MemoryRows
    BY <1>1, <1>2, <2>1
  <2>3. CompactFits' /\ BodyIsOld' /\ memory'.compact = NoCompact
    BY <1>2, <2>1 DEF CompactFits, BodyIsOld
  <2>4. memory.rev + 1 <= memory.rev + 1
    BY <1>2
  <2> QED BY <1>1, <1>2, <2>1, <2>2, <2>3, <2>4, WorkersStill
<1>6. CASE ChangeLife
  <2> DEFINE m == [memory EXCEPT !.rev = @ + 1, !.active = ~@]
  <2>1. memory' = m /\ memory.rev < MaxSource /\ UNCHANGED <<summary, scan, worker>>
        /\ (quality' = quality \/ quality' = QueuedItem(memory.rev + 1, memory.body))
    BY <1>6 DEF ChangeLife
  <2>2. m \in MemoryRows /\ m.rev = memory.rev + 1 /\ m.body = memory.body /\ m.file = memory.file
        /\ m.human = memory.human /\ m.compact = memory.compact
    BY <1>1, <1>2, <2>1
  <2>3. CompactFits' /\ BodyIsOld'
    BY <1>1, <1>2, <2>1, <2>2 DEF CompactFits, BodyIsOld
  <2>4. memory.body <= memory.rev + 1
    BY <1>1, <1>2
  <2> QED BY <1>1, <1>2, <2>1, <2>2, <2>3, <2>4, WorkersStill
<1>7. CASE EditFile
  <2> DEFINE f == IF memory.file = memory.body THEN Edited(memory.body) ELSE memory.body
             m == [memory EXCEPT !.file = f]
  <2>1. memory' = m /\ UNCHANGED <<summary, quality, scan, worker>>
    BY <1>1, <1>7 DEF EditFile
  <2>2. f \in Contents /\ f \in {memory.body, Edited(memory.body)}
    BY <1>1, <1>2, QualityConstants
  <2>3. m \in MemoryRows /\ m.rev = memory.rev /\ m.body = memory.body /\ m.file = f
        /\ m.human = memory.human /\ m.compact = memory.compact
    BY <1>1, <2>2
  <2>4. CompactFits' /\ BodyIsOld'
    BY <1>1, <2>1, <2>2, <2>3 DEF CompactFits, BodyIsOld
  <2> QED BY <1>1, <1>2, <2>1, <2>3, <2>4, WorkersStill
<1> QED BY <1>3, <1>4, <1>5, <1>6, <1>7

\* An item whose content stays as it was written in place of another.
LEMMA ItemWritten ==
  ASSUME QualityInv, NEW r \in Sources, NEW i \in QualityItems, i.source = quality[r].source,
         quality' = [quality EXCEPT ![r] = i]
  PROVE  quality' \in Items /\ \A s \in Sources : quality'[s].source = quality[s].source
<1>1. quality \in Items
  BY DEF QualityInv, QualityTypeOK, Items
<1> QED BY <1>1 DEF Items

\* A Worker at work holds an item of the table.
LEMMA AtWork ==
  ASSUME QualityInv, NEW w \in QualityWorkers, worker[w].pc # "idle"
  PROVE  /\ worker[w] \in Posts /\ worker[w].rev \in Sources /\ worker[w].rev <= memory.rev
         /\ memory.human /\ ~worker[w].human => worker[w].rev < memory.body
         /\ quality[worker[w].rev] \in QualityItems
BY DEF QualityInv, QualityTypeOK, Outrun, Posts

LEMMA ItemClosed ==
  ASSUME QualityInv, NEW w \in QualityWorkers, worker[w].pc # "idle",
         NEW state \in {"absent", "blocked", "rejected", "stale", "completed"}
                         \cup AwaitingModel \cup Processing
  PROVE  /\ Closed(w, state) \in QualityItems
         /\ Closed(w, state).source = quality[worker[w].rev].source
<1>1. quality[worker[w].rev] \in QualityItems
  BY AtWork
<1> QED BY <1>1 DEF Closed, QualityItems

\* A Worker that settles its item is idle.
LEMMA Settled ==
  ASSUME QualityInv, NEW w \in QualityWorkers, worker[w].pc # "idle",
         NEW i \in QualityItems, i.source = quality[worker[w].rev].source, Settle(w, i)
  PROVE  QualityInv' /\ UNCHANGED memory
<1>1. /\ UNCHANGED <<memory, summary, scan>> /\ worker' = [worker EXCEPT ![w] = QualityIdle]
      /\ quality' = [quality EXCEPT ![worker[w].rev] = i]
  BY DEF Settle
<1>2. quality' \in Items /\ \A s \in Sources : quality'[s].source = quality[s].source
  BY <1>1, AtWork, ItemWritten
<1>3. QualityIdle \in Posts /\ QualityIdle.pc = "idle"
  BY QualityConstants DEF QualityIdle, Posts
<1>4. summary' \in [Sources -> Compacts]
  BY <1>1 DEF QualityInv, QualityTypeOK
<1> QED BY <1>1, <1>2, <1>3, <1>4, MemoryStill

\* The answers that settle an item.
LEMMA Answers ==
  ASSUME QualityInv, NEW w \in QualityWorkers, NEW d \in {"none", "poor", "good"},
         NEW blocked \in BOOLEAN,
         \/ Generated(w, d) \/ JudgedLossy(w) \/ JudgedUnfit(w) \/ ModelFails(w, blocked)
         \/ PublishConflicts(w) \/ CompletePublished(w)
  PROVE  QualityInv' /\ UNCHANGED memory
<1> DEFINE r == worker[w].rev
           States == {"absent", "blocked", "rejected", "stale", "completed"}
                       \cup AwaitingModel \cup Processing
<1>1. worker[w].pc # "idle"
  BY DEF Generated, JudgedLossy, JudgedUnfit, ModelFails, PublishConflicts, CompletePublished
<1>2. quality[r] \in QualityItems /\ worker[w] \in Posts
  BY <1>1, AtWork
<1>3. \A s \in States : Closed(w, s) \in QualityItems /\ Closed(w, s).source = quality[r].source
  BY <1>1, ItemClosed
<1>4. /\ "rejected" \in States /\ "stale" \in States /\ "completed" \in States
      /\ "blocked" \in States /\ "pending_generation" \in States
      /\ "pending_validation" \in States
  BY DEF AwaitingModel
<1>5. ASSUME NEW s \in States, Settle(w, Closed(w, s))
      PROVE  QualityInv' /\ UNCHANGED memory
  BY <1>1, <1>3, <1>5, Settled
<1>6. CASE Generated(w, d)
  <2> DEFINE drafted == [Closed(w, "pending_validation") EXCEPT !.draft = d]
  <2>1. drafted \in QualityItems /\ drafted.source = quality[r].source
    BY <1>3, <1>4 DEF QualityItems
  <2>2. Settle(w, quality[r]) \/ Settle(w, Closed(w, "rejected")) \/ Settle(w, drafted)
    BY <1>6 DEF Generated
  <2> QED BY <1>1, <1>2, <1>4, <1>5, <2>1, <2>2, Settled
<1>7. CASE JudgedLossy(w)
  <2> DEFINE redo == [Closed(w, "pending_generation") EXCEPT
                        !.draft = "none", !.reasons = worker[w].reasons + 1]
  <2>1. \/ Settle(w, redo) /\ worker[w].reasons < RewriteLimit
        \/ Settle(w, Closed(w, "rejected"))
    BY <1>7 DEF JudgedLossy
  <2>2. worker[w].reasons < RewriteLimit => worker[w].reasons + 1 \in 0..RewriteLimit
    BY <1>2, QualityConstants DEF Posts
  <2>3. worker[w].reasons < RewriteLimit => redo \in QualityItems /\ redo.source = quality[r].source
    BY <1>3, <1>4, <2>2 DEF QualityItems
  <2> QED BY <1>1, <1>4, <1>5, <2>1, <2>3, Settled
<1>8. CASE JudgedUnfit(w)
  BY <1>4, <1>5, <1>8 DEF JudgedUnfit
<1>9. CASE ModelFails(w, blocked)
  BY <1>4, <1>5, <1>9 DEF ModelFails
<1>10. CASE PublishConflicts(w)
  BY <1>4, <1>5, <1>10 DEF PublishConflicts
<1>11. CASE CompletePublished(w)
  BY <1>4, <1>5, <1>11 DEF CompletePublished
<1> QED BY <1>6, <1>7, <1>8, <1>9, <1>10, <1>11

\* A claimed batch: the items keep their contents, and the one that is current is
\* drafted for, or judged, as the memory is.
LEMMA ItemsClaimed ==
  ASSUME QualityInv, NEW w \in QualityWorkers, ClaimItems(w)
  PROVE  QualityInv' /\ UNCHANGED memory
<1>1. PICK phase \in {"generation", "validation"}, batch \in SUBSET Sources :
        LET current == {r \in batch : Current(r)} IN
        /\ quality' = [r \in Sources |->
              IF r \in current THEN Taken(quality[r], phase)
              ELSE IF r \in batch THEN [quality[r] EXCEPT !.state = "stale"]
              ELSE quality[r]]
        /\ IF current = {} THEN UNCHANGED worker
           ELSE worker' = [worker EXCEPT ![w] =
                  [pc |-> "asking", phase |-> phase, rev |-> memory.rev,
                   draft |-> quality[memory.rev].draft, reasons |-> quality[memory.rev].reasons,
                   human |-> memory.human]]
  BY DEF ClaimItems, Ready
<1>2. UNCHANGED <<memory, summary, scan>>
  BY DEF ClaimItems, Ready
<1> DEFINE asking == [pc |-> "asking", phase |-> phase, rev |-> memory.rev,
                   draft |-> quality[memory.rev].draft, reasons |-> quality[memory.rev].reasons,
                   human |-> memory.human]
<1>3. /\ quality \in Items /\ worker \in [QualityWorkers -> Posts]
      /\ memory.rev \in Sources /\ memory.human \in BOOLEAN /\ memory.body \in Sources
      /\ summary \in [Sources -> Compacts]
  BY DEF QualityInv, QualityTypeOK, Items, Posts
<1>4. quality' \in Items /\ \A r \in Sources : quality'[r].source = quality[r].source
  <2>1. ASSUME NEW r \in Sources
        PROVE  /\ quality[r] \in QualityItems
               /\ Taken(quality[r], phase) \in QualityItems
               /\ Taken(quality[r], phase).source = quality[r].source
               /\ [quality[r] EXCEPT !.state = "stale"] \in QualityItems
               /\ [quality[r] EXCEPT !.state = "stale"].source = quality[r].source
    BY <1>3 DEF Items, QualityItems, Taken, Processing
  <2> QED BY <1>1, <2>1 DEF Items
<1>5. asking \in Posts
  BY <1>3 DEF Items, QualityItems, Posts
<1>6. \E p \in Posts : /\ worker' = [worker EXCEPT ![w] = p]
                       /\ p = worker[w] \/ p = asking
  <2>1. CASE UNCHANGED worker
    BY <1>3, <2>1
  <2>2. CASE worker' = [worker EXCEPT ![w] = asking]
    BY <1>5, <2>2
  <2> QED BY <1>1, <2>1, <2>2
<1>7. PICK p \in Posts : /\ worker' = [worker EXCEPT ![w] = p]
                         /\ p = worker[w] \/ p = asking
  BY <1>6
<1>8. p.pc = "publishing" => p.draft = "good"
  BY <1>7 DEF QualityInv, Judged
<1>9. p.pc # "idle" => /\ p.rev \in Sources /\ p.rev <= memory.rev
                       /\ memory.human /\ ~p.human => p.rev < memory.body
  <2>1. CASE p = worker[w]
    BY <2>1, AtWork
  <2>2. CASE p = asking
    <3>1. p.rev = memory.rev /\ p.human = memory.human
      BY <2>2
    <3>2. memory.rev \in Int
      BY <1>3 DEF Sources
    <3> QED BY <1>3, <3>1, <3>2
  <2> QED BY <1>7, <2>1, <2>2
<1> QED BY <1>2, <1>3, <1>4, <1>7, <1>8, <1>9, MemoryStill

\* Steps of a Worker that leave items alone: it goes on to publish, or it stops.
LEMMA Moves ==
  ASSUME QualityInv, NEW w \in QualityWorkers, JudgedPreserved(w) \/ WorkerStops(w)
  PROVE  QualityInv' /\ UNCHANGED memory
<1>1. UNCHANGED <<memory, summary, quality, scan>> /\ worker[w].pc # "idle"
  BY DEF JudgedPreserved, WorkerStops
<1>2. /\ quality' \in Items /\ \A r \in Sources : quality'[r].source = quality[r].source
      /\ summary' \in [Sources -> Compacts]
  BY <1>1 DEF QualityInv, QualityTypeOK, Items
<1>3. CASE JudgedPreserved(w)
  <2> DEFINE p == [worker[w] EXCEPT !.pc = "publishing"]
  <2>1. /\ worker' = [worker EXCEPT ![w] = p] /\ worker[w].draft = "good"
    BY <1>1, <1>3, AtWork DEF JudgedPreserved
  <2>2. /\ p \in Posts /\ p.rev = worker[w].rev /\ p.human = worker[w].human
        /\ p.draft = worker[w].draft
    BY <1>1, AtWork DEF Posts
  <2> HIDE DEF p
  <2> QED BY <1>1, <1>2, <2>1, <2>2, AtWork, MemoryStill
<1>4. CASE WorkerStops(w)
  <2>1. QualityIdle \in Posts /\ QualityIdle.pc = "idle"
    BY QualityConstants DEF QualityIdle, Posts
  <2>2. worker' = [worker EXCEPT ![w] = QualityIdle]
    BY <1>4 DEF WorkerStops
  <2> QED BY <1>1, <1>2, <2>1, <2>2, MemoryStill
<1> QED BY <1>3, <1>4

\* The summary of a human's memory goes to its own table.
LEMMA SummaryPublished ==
  ASSUME QualityInv, NEW w \in QualityWorkers, PublishSummary(w)
  PROVE  QualityInv' /\ UNCHANGED memory
<1> DEFINE r == worker[w].rev
<1>1. /\ worker[w].pc # "idle" /\ UNCHANGED <<memory, scan>>
      /\ summary' = [summary EXCEPT ![r] = Published(w)]
      /\ quality' = [quality EXCEPT ![r] = Closed(w, "completed")]
      /\ worker' = [worker EXCEPT ![w] = QualityIdle]
  BY DEF PublishSummary
<1>2. /\ Closed(w, "completed") \in QualityItems
      /\ Closed(w, "completed").source = quality[r].source
  BY <1>1, ItemClosed
<1>3. quality' \in Items /\ \A s \in Sources : quality'[s].source = quality[s].source
  BY <1>1, <1>2, AtWork, ItemWritten
<1>4. Published(w) \in Compacts
  BY <1>1, AtWork DEF Published, Compacts, QualityItems, Posts
<1>5. summary' \in [Sources -> Compacts]
  BY <1>1, <1>4 DEF QualityInv, QualityTypeOK
<1>6. QualityIdle \in Posts /\ QualityIdle.pc = "idle"
  BY QualityConstants DEF QualityIdle, Posts
<1> QED BY <1>1, <1>3, <1>5, <1>6, MemoryStill

\* An agent's revision fits the body, and the memory is not the human's: the item of a
\* Worker the human's revision outran was queued for content that is not the file.
LEMMA RevisionPublished ==
  ASSUME QualityInv, NEW w \in QualityWorkers, PublishRevision(w)
  PROVE  QualityInv' /\ ~memory.human
<1> DEFINE r == worker[w].rev
           m == [memory EXCEPT !.rev = @ + 1, !.compact = Published(w)]
           p == [worker[w] EXCEPT !.pc = "published"]
<1>1. /\ worker[w].pc = "publishing" /\ worker[w].pc # "idle" /\ ~worker[w].human
      /\ memory.file = quality[r].source /\ memory.file = memory.body /\ memory.rev < MaxSource
      /\ memory' = m /\ worker' = [worker EXCEPT ![w].pc = "published"]
      /\ UNCHANGED <<summary, quality, scan>>
  BY DEF PublishRevision, Unmoved
<1>2. /\ memory \in [rev: Sources, body: Sources, file: Contents, human: BOOLEAN,
                     active: BOOLEAN, compact: Compacts]
      /\ worker \in [QualityWorkers -> Posts] /\ memory.body <= memory.rev
      /\ quality[r].source <= r \/ quality[r].source > MaxSource
      /\ r \in Sources /\ r <= memory.rev /\ worker[w].draft = "good" /\ worker[w] \in Posts
      /\ memory.human => r < memory.body
  BY <1>1, AtWork DEF QualityInv, QualityTypeOK, BodyIsOld, ItemsAreOld, Judged, Posts
<1>3. ~memory.human
  BY <1>1, <1>2, QualityConstants
<1>4. Published(w) = [of |-> memory.body, draft |-> "good"] /\ Published(w) \in Compacts
  BY <1>1, <1>2, QualityConstants DEF Published, Compacts
<1>5. memory.rev + 1 \in Sources /\ memory.rev + 1 > memory.rev /\ memory.rev \in Int
      /\ memory.body \in Int
  BY <1>1, <1>2, QualityConstants DEF Sources
<1>6. /\ m \in [rev: Sources, body: Sources, file: Contents, human: BOOLEAN,
                active: BOOLEAN, compact: Compacts]
      /\ m.rev = memory.rev + 1 /\ m.body = memory.body /\ m.file = memory.file
      /\ m.human = memory.human /\ m.compact = Published(w)
  BY <1>2, <1>4, <1>5
<1>7. /\ p \in Posts /\ p.pc = "published" /\ p.rev = r
      /\ worker' = [worker EXCEPT ![w] = p]
  BY <1>1, <1>2 DEF Posts
<1> HIDE DEF m, p
<1>8. worker' \in [QualityWorkers -> Posts] /\ \A v \in QualityWorkers :
        worker'[v] = IF v = w THEN p ELSE worker[v]
  BY <1>2, <1>7
<1>9. QualityTypeOK'
  BY <1>1, <1>6, <1>8 DEF QualityInv, QualityTypeOK, Posts
<1>10. CompactFits' /\ BodyIsOld'
  BY <1>1, <1>2, <1>4, <1>5, <1>6 DEF QualityInv, CompactFits, BodyIsOld
<1>11. Judged' /\ ItemsAreOld'
  BY <1>1, <1>7, <1>8 DEF QualityInv, Judged, ItemsAreOld
<1>12. Outrun'
  <2> SUFFICES ASSUME NEW v \in QualityWorkers, worker'[v].pc # "idle"
               PROVE  worker'[v].rev \in Sources /\ worker'[v].rev <= memory'.rev
    BY <1>1, <1>3, <1>6 DEF Outrun
  <2>1. worker[v].pc # "idle" /\ worker'[v].rev = worker[v].rev
    BY <1>1, <1>7, <1>8
  <2>2. worker[v].rev \in Sources /\ worker[v].rev <= memory.rev
    BY <2>1, AtWork
  <2> QED BY <1>1, <1>5, <1>6, <2>1, <2>2, QualityConstants
<1> QED BY <1>3, <1>9, <1>10, <1>11, <1>12 DEF QualityInv

\* Every step keeps the invariant, and none that changes the memory puts a compact on
\* one that is the human's.
LEMMA QualityStep ==
  ASSUME QualityInv, [QualityNext]_qualityVars
  PROVE  /\ QualityInv'
         /\ memory' # memory /\ memory.human => memory'.compact \in {memory.compact, NoCompact}
<1>1. ASSUME NEW human \in BOOLEAN,
             EnableScan \/ Backfill \/ ReviseMemory(human) \/ ChangeLife \/ EditFile
      PROVE  /\ QualityInv'
             /\ memory' # memory => memory'.compact \in {memory.compact, NoCompact}
  BY <1>1, MemorySteps
<1>2. ASSUME NEW r \in Sources, RetryRepairable(r)
      PROVE  QualityInv' /\ UNCHANGED memory
  <2> DEFINE i == [quality[r] EXCEPT !.state = "pending_generation", !.draft = "none"]
  <2>1. quality[r] \in QualityItems /\ quality \in Items /\ scan \in BOOLEAN
    BY DEF QualityInv, QualityTypeOK, Items
  <2>2. i \in QualityItems /\ i.source = quality[r].source
    BY <2>1 DEF QualityItems, AwaitingModel
  <2>3. UNCHANGED <<memory, summary, scan, worker>> /\ quality' = [quality EXCEPT ![r] = i]
    BY <1>2, <2>1 DEF RetryRepairable
  <2>4. quality' \in Items /\ \A s \in Sources : quality'[s].source = quality[s].source
    BY <2>2, <2>3, ItemWritten
  <2>5. QualityTypeOK' /\ ItemsAreOld'
    BY <2>3, <2>4 DEF QualityInv, QualityTypeOK, ItemsAreOld, Items
  <2> QED BY <2>3, <2>5 DEF QualityInv, CompactFits, Judged, BodyIsOld, Outrun
<1>3. ASSUME NEW w \in QualityWorkers,
             \/ ClaimItems(w) \/ JudgedPreserved(w) \/ WorkerStops(w) \/ PublishSummary(w)
             \/ \E d \in {"none", "poor", "good"}, blocked \in BOOLEAN :
                  \/ Generated(w, d) \/ JudgedLossy(w) \/ JudgedUnfit(w)
                  \/ ModelFails(w, blocked) \/ PublishConflicts(w) \/ CompletePublished(w)
      PROVE  QualityInv' /\ UNCHANGED memory
  BY <1>3, ItemsClaimed, Moves, SummaryPublished, Answers
<1>4. ASSUME NEW w \in QualityWorkers, PublishRevision(w)
      PROVE  QualityInv' /\ ~memory.human
  BY <1>4, RevisionPublished
<1>5. CASE UNCHANGED qualityVars
  BY <1>5 DEF qualityVars, QualityInv, QualityTypeOK, CompactFits, Judged, BodyIsOld,
              ItemsAreOld, Outrun
<1>6. "none" \in {"none", "poor", "good"} /\ TRUE \in BOOLEAN
  OBVIOUS
<1>7. CASE QualityNext
  BY <1>1, <1>2, <1>3, <1>4, <1>6, <1>7 DEF QualityNext
<1> QED BY <1>5, <1>7

\* Old items, judged drafts and outrun Workers are so in every state.
THEOREM QualityInvariant == QualitySpec => []QualityInv
<1>1. QualityInv /\ [QualityNext]_qualityVars => QualityInv'
  BY QualityStep
<1> QED BY <1>1, QualityStarts, PTL DEF QualitySpec

\* The compact of a memory was judged to preserve the body it stands beside, and no agent
\* puts one on a memory that the human wrote meanwhile.
THEOREM CompactKeptAlways == QualitySpec => CompactKept
<1>1. QualityInv /\ QualityInv' /\ [QualityNext]_qualityVars =>
        [memory' # memory => /\ CompactFits'
                             /\ memory.human => memory'.compact \in {memory.compact, NoCompact}
        ]_qualityVars
  BY QualityStep DEF QualityInv
<1> QED BY <1>1, QualityInvariant, PTL DEF QualitySpec, CompactKept

-----------------------------------------------------------------------------
(***************************************************************************)
(* Governance: Workers that run at the same time lose leases to each other,  *)
(* and then reopen finished runs; but for GovernanceTyped, one at a time.    *)
(***************************************************************************)
OneGovernance == GovernorsOverlap = FALSE

(***************************************************************************)
(* One step at a time; the step works on a page of the run's phase, whose    *)
(* state is the one the step needs.                                         *)
(***************************************************************************)
Working(w) ==
    LET g == governor[w]  key == governor[w].key  r == governor[w].key[1] IN
    /\ g.pc = "idle" => g = Governing
    /\ g.pc # "idle" => /\ r \in UnfinishedRuns /\ key[2] = run[r].phase
                        /\ page[key].revision # 0
    /\ g.pc = "model" => HoldsPage(w)
    /\ g.pc \in {"read", "wrote", "recorded"} => page[key].state = "reviewed"

OneStep ==
    /\ \A w \in Governors : Working(w)
    /\ \A v, w \in Governors : governor[v] # Governing /\ governor[w] # Governing => v = w

(***************************************************************************)
(* Runs are made one after the other, at later and later times; a cursor     *)
(* stands where a run was made, and before the unfinished run.               *)
(***************************************************************************)
RunsInOrder ==
    /\ \A r, s \in Runs : s < r /\ run[r].state # "absent" => run[s].state # "absent"
    /\ \A r, s \in Runs : r \in UnfinishedRuns /\ run[s].state # "absent" => s <= r
    /\ \A r \in Runs : run[r].state # "absent" => run[r].through <= clock
    /\ \A r \in UnfinishedRuns : run[r].phase = "finalize" => run[r].state = "pending"
    /\ \A r \in Runs : run[r].state = "completed" => run[r].phase = "finalize"

CursorsBehind ==
    \A c \in Cadences :
      /\ cursor[c] <= clock
      /\ \A r \in UnfinishedRuns : cursor[c] <= run[r].through
      /\ cursor[c] = 0 \/ \E r \in Runs : run[r].state # "absent" /\ cursor[c] <= run[r].through

(***************************************************************************)
(* The pages a run froze: of the cadences it answers for, and applied in     *)
(* every phase it has left.                                                 *)
(***************************************************************************)
LeftBehind(r, c) ==
    \/ run[r].phase = "finalize"
    \/ c = "weekly" /\ run[r].phase = "monthly"

PagesFrozen ==
    \A key \in PageKeys :
      /\ page[key].revision = 0 => page[key].state = "absent"
      /\ page[key].revision # 0 =>
           /\ run[key[1]].state # "absent"
           /\ key[2] = "monthly" => run[key[1]].kind = "monthly"
           /\ LeftBehind(key[1], key[2]) => page[key].state = "applied"

(***************************************************************************)
(* The unfinished run answers every occurrence up to its time, and froze     *)
(* every memory changed since the weekly cursor as it still is, unless       *)
(* governance itself has changed it.                                        *)
(***************************************************************************)
Answered ==
    \A r \in UnfinishedRuns :
      /\ \A c \in Cadences, t \in 1..MaxClock :
           (c = "weekly" \/ t % 2 = 1) /\ t <= run[r].through =>
             obligation[<<c, t>>] \in {"linked", "satisfied"}
      /\ run[r].weekly => \A m \in Governed :
           /\ knowledge[m].by # "governance" /\ cursor["weekly"] < knowledge[m].revised
           /\ knowledge[m].revised <= run[r].through
           => page[<<r, "weekly", m>>].revision = knowledge[m].revision

GovernanceInv ==
    /\ GovernanceTypeOK /\ OneStep /\ RunsInOrder /\ CursorsBehind /\ PagesFrozen /\ Answered
    /\ CoverageComplete


-----------------------------------------------------------------------------
RunRows ==
    [state: {"absent", "pending", "processing", "retrying", "blocked", "completed"},
     kind: Cadences, weekly: BOOLEAN, phase: Cadences \cup {"finalize"}, through: 0..MaxClock]
Steps == [pc: {"idle", "model", "read", "wrote", "recorded"}, key: PageKeys,
          revision: 0..MaxGoverned]
ObligationStates == {"absent", "pending", "linked", "satisfied"}
Occurrences == Cadences \X (1..MaxClock)

GovernanceColumns ==
    /\ clock \in 0..MaxClock /\ cursor \in [Cadences -> 0..MaxClock]
    /\ obligation \in [Occurrences -> ObligationStates]
    /\ run \in [Runs -> RunRows] /\ page \in [PageKeys -> PageRows] /\ ledger \subseteq PageKeys
    /\ knowledge \in [Governed -> KnowledgeRows] /\ governor \in [Governors -> Steps]

LEMMA GovernanceTypes == GovernanceTypeOK <=> GovernanceColumns
BY DEF GovernanceTypeOK, GovernanceColumns, RunRows, Steps, ObligationStates, Occurrences

\* A set of numbers that is not empty has its smallest.
LEMMA LeastNumber ==
  ASSUME NEW S, S \subseteq Nat, S # {}
  PROVE  Min(S) \in S /\ \A y \in S : Min(S) <= y
<1>1. PICK x \in S : \A y \in S : ~ (<<y, x>> \in {p \in Nat \X Nat : p[1] < p[2]})
  <2>1. \E x \in S : \A y \in S : ~ (<<y, x>> \in OpToRel(<, Nat))
    BY WFMin, NatLessThanWellFounded
  <2> QED BY <2>1, Zenon DEF OpToRel
<1>2. ASSUME NEW y \in S PROVE x <= y
  <2>1. x \in Nat /\ y \in Nat
    OBVIOUS
  <2>2. <<y, x>> \in Nat \X Nat /\ <<y, x>>[1] = y /\ <<y, x>>[2] = x
    BY <2>1
  <2>3. ~ (y < x)
    BY <1>1, <2>2, Zenon
  <2> QED BY <2>1, <2>3
<1> QED BY <1>2 DEF Min

LEMMA GovernanceConstants ==
  /\ LastMemory \in Nat /\ MaxClock \in Nat /\ MaxGoverned \in Nat \ {0} /\ MaxRuns \in Nat
  /\ Runs \subseteq Nat /\ Governed \subseteq Nat /\ 0 \in 0..MaxGoverned /\ 0 \in 0..MaxClock
  /\ NoGovernor \notin Governors
  /\ NoPage \in PageRows /\ NoPage.revision = 0 /\ NoPage.state = "absent"
  /\ NoRun \in RunRows /\ NoRun.state = "absent"
  /\ Governing \in Steps /\ Governing.pc = "idle"
<1>1. /\ LastMemory \in Nat \ {0} /\ MaxClock \in Nat /\ MaxGoverned \in Nat \ {0}
      /\ MaxRuns \in Nat \ {0} /\ NoGovernor \notin Governors
  BY GovernanceAssumption
<1>2. 0 \in 0..MaxGoverned /\ 0 \in 0..MaxClock /\ 1 \in Runs /\ 1 \in Governed
  BY <1>1 DEF Runs, Governed
<1>3. <<1, "weekly", 1>> \in PageKeys
  BY <1>2 DEF PageKeys, Cadences
<1>4. NoPage \in PageRows /\ NoRun \in RunRows /\ Governing \in Steps
  BY <1>2, <1>3 DEF NoPage, PageRows, Proposals, NoRun, RunRows, Cadences, Governing, Steps
<1> QED BY <1>1, <1>2, <1>4 DEF NoPage, NoRun, Governing, Runs, Governed

LEMMA Keys ==
  /\ \A key \in PageKeys : /\ key[1] \in Runs /\ key[2] \in Cadences /\ key[3] \in Governed
                           /\ key = <<key[1], key[2], key[3]>>
  /\ \A r \in Runs, c \in Cadences, m \in Governed : <<r, c, m>> \in PageKeys
BY DEF PageKeys

LEMMA GovernanceStarts == GovernanceInit => GovernanceInv
<1> SUFFICES ASSUME GovernanceInit PROVE GovernanceInv
  OBVIOUS
<1>1. GovernanceTypeOK
  <2>1. [revision |-> 1, by |-> "agent", chain |-> 0, archived |-> FALSE, due |-> FALSE,
         revised |-> 0] \in KnowledgeRows
    BY GovernanceConstants DEF KnowledgeRows
  <2> QED BY <2>1, GovernanceConstants, GovernanceTypes
          DEF GovernanceInit, GovernanceColumns, Occurrences, ObligationStates
<1>2. /\ \A r \in Runs : run[r].state = "absent"
      /\ \A key \in PageKeys : page[key].revision = 0 /\ page[key].state = "absent"
      /\ \A w \in Governors : governor[w] = Governing /\ governor[w].pc = "idle"
      /\ \A m \in Governed : knowledge[m].revised = 0
      /\ \A c \in Cadences : cursor[c] = 0
      /\ clock = 0
  BY GovernanceConstants DEF GovernanceInit
<1>3. UnfinishedRuns = {}
  BY <1>2 DEF UnfinishedRuns
<1>4. OneStep /\ RunsInOrder /\ CursorsBehind /\ PagesFrozen /\ Answered
  BY <1>2, <1>3 DEF OneStep, Working, RunsInOrder, CursorsBehind, PagesFrozen, Answered
<1>5. CoverageComplete
  BY <1>2 DEF CoverageComplete, Cadences
<1> QED BY <1>1, <1>4, <1>5 DEF GovernanceInv

\* The unfinished run is the only one, and while a step works on it no other step does.
LEMMA OneUnfinished ==
  ASSUME GovernanceInv, NEW r \in UnfinishedRuns
  PROVE  /\ r \in Runs /\ UnfinishedRuns = {r} /\ Min(UnfinishedRuns) = r
         /\ run[r].state \notin {"absent", "completed"}
<1>1. r \in Runs /\ run[r].state \notin {"absent", "completed"}
  BY DEF UnfinishedRuns
<1>2. \A s \in UnfinishedRuns : s = r
  BY <1>1, GovernanceConstants DEF GovernanceInv, RunsInOrder, UnfinishedRuns
<1>3. UnfinishedRuns = {r}
  BY <1>2
<1>4. UnfinishedRuns \subseteq Nat
  BY <1>1, <1>3, GovernanceConstants
<1> QED BY <1>1, <1>3, <1>4, LeastNumber

LEMMA TakesUp ==
  ASSUME OneGovernance, GovernanceInv, NEW w \in Governors, NEW r \in Runs, Takeable(w, r)
  PROVE  /\ r \in UnfinishedRuns /\ UnfinishedRuns = {r}
         /\ \A v \in Governors : governor[v] = Governing
<1>1. governor[w] = Governing
  BY DEF Takeable, GovernanceInv, OneStep, Working
<1>2. \A v \in Governors : governor[v] = Governing
  BY <1>1 DEF Takeable, AloneGoverning, OneGovernance
<1>3. PICK s \in UnfinishedRuns : TRUE
  BY DEF Takeable
<1> QED BY <1>2, <1>3, OneUnfinished DEF Takeable

LEMMA WorksAlone ==
  ASSUME GovernanceInv, NEW w \in Governors, governor[w].pc # "idle"
  PROVE  /\ \A v \in Governors \ {w} : governor[v] = Governing
         /\ governor[w].key \in PageKeys /\ governor[w] \in Steps
         /\ governor[w].key[1] \in UnfinishedRuns
         /\ UnfinishedRuns = {governor[w].key[1]}
         /\ governor[w].key[2] = run[governor[w].key[1]].phase
         /\ page[governor[w].key].revision # 0
         /\ page[governor[w].key].state # "applied"
<1>1. governor[w] # Governing
  BY GovernanceConstants
<1>2. governor[w] \in Steps
  BY GovernanceTypes DEF GovernanceInv, GovernanceColumns
<1>3. Working(w) /\ \A v \in Governors \ {w} : governor[v] = Governing
  BY <1>1 DEF GovernanceInv, OneStep
<1>4. governor[w].pc \in {"model", "read", "wrote", "recorded"}
  BY <1>2 DEF Steps
<1>5. page[governor[w].key].state # "applied"
  BY <1>3, <1>4 DEF Working, HoldsPage
<1> QED BY <1>2, <1>3, <1>5, OneUnfinished DEF Working, Steps


(***************************************************************************)
(* The steps of a page: they change states of the run and its pages, and     *)
(* nothing that the cursors and occurrences are about.                      *)
(***************************************************************************)
RunsKept ==
    /\ UnfinishedRuns' = UnfinishedRuns
    /\ \A r \in Runs :
         /\ run'[r].state = "absent" <=> run[r].state = "absent"
         /\ run'[r].state = "completed" <=> run[r].state = "completed"
         /\ run'[r].kind = run[r].kind /\ run'[r].weekly = run[r].weekly
         /\ run'[r].through = run[r].through
         /\ run[r].phase = "finalize" => run'[r].phase = "finalize"

PagesKept ==
    \A key \in PageKeys : /\ page'[key].revision = page[key].revision
                          /\ page[key].state = "applied" => page'[key].state = "applied"

LEMMA PageStep ==
  ASSUME GovernanceInv, RunsKept, PagesKept, UNCHANGED <<clock, cursor, obligation, knowledge>>,
         GovernanceTypeOK', OneStep', PagesFrozen',
         \A r \in UnfinishedRuns : run'[r].phase = "finalize" => run'[r].state = "pending"
  PROVE  GovernanceInv'
<1>1. RunsInOrder'
  BY DEF RunsInOrder, RunsKept, GovernanceInv
<1>2. CursorsBehind'
  <2>1. \A r \in UnfinishedRuns : r \in Runs
    BY DEF UnfinishedRuns
  <2> QED BY <2>1 DEF CursorsBehind, RunsKept, GovernanceInv
<1>3. Answered'
  <2> SUFFICES ASSUME NEW r \in UnfinishedRuns
               PROVE  /\ \A c \in Cadences, t \in 1..MaxClock :
                           (c = "weekly" \/ t % 2 = 1) /\ t <= run'[r].through =>
                             obligation'[<<c, t>>] \in {"linked", "satisfied"}
                      /\ run'[r].weekly => \A m \in Governed :
                           /\ knowledge'[m].by # "governance"
                           /\ cursor'["weekly"] < knowledge'[m].revised
                           /\ knowledge'[m].revised <= run'[r].through
                           => page'[<<r, "weekly", m>>].revision = knowledge'[m].revision
    BY DEF Answered, RunsKept
  <2>1. r \in Runs /\ run'[r].through = run[r].through /\ run'[r].weekly = run[r].weekly
    BY DEF UnfinishedRuns, RunsKept
  <2>2. \A m \in Governed : page'[<<r, "weekly", m>>].revision = page[<<r, "weekly", m>>].revision
    BY <2>1, Keys DEF PagesKept, Cadences
  <2> QED BY <2>1, <2>2 DEF Answered, GovernanceInv
<1>4. CoverageComplete'
  <2>1. \A r \in Runs, c \in Cadences, m \in Governed :
          /\ page'[<<r, c, m>>].revision = page[<<r, c, m>>].revision
          /\ page[<<r, c, m>>].state = "applied" => page'[<<r, c, m>>].state = "applied"
    BY Keys DEF PagesKept
  <2>2. \A r \in Runs : run[r].phase = "finalize" => run'[r].phase = "finalize"
    BY DEF RunsKept
  <2>3. ASSUME NEW m \in Governed, knowledge'[m].by # "governance", 0 < knowledge'[m].revised,
               knowledge'[m].revised <= cursor'["weekly"]
        PROVE  \E r \in Runs, c \in Cadences :
                 /\ run'[r].phase = "finalize" /\ page'[<<r, c, m>>].state = "applied"
                 /\ page'[<<r, c, m>>].revision >= knowledge'[m].revision
    <3>1. PICK r \in Runs, c \in Cadences :
            /\ run[r].phase = "finalize" /\ page[<<r, c, m>>].state = "applied"
            /\ page[<<r, c, m>>].revision >= knowledge[m].revision
      BY <2>3 DEF CoverageComplete, GovernanceInv
    <3> QED BY <2>1, <2>2, <3>1
  <2>4. \A c \in Cadences, t \in 1..MaxClock :
         (c = "weekly" \/ t % 2 = 1) /\ t <= cursor'[c] => obligation'[<<c, t>>] = "satisfied"
    BY DEF CoverageComplete, GovernanceInv
  <2> QED BY <2>3, <2>4 DEF CoverageComplete
<1> QED BY <1>1, <1>2, <1>3, <1>4 DEF GovernanceInv

\* One page changes, and it was not applied.
LEMMA OnePage ==
  ASSUME GovernanceColumns, NEW key \in PageKeys, NEW p \in PageRows,
         page' = [page EXCEPT ![key] = p], p.revision = page[key].revision,
         page[key].state # "applied" \/ p.state = "applied"
  PROVE  /\ page' \in [PageKeys -> PageRows] /\ page'[key] = p /\ PagesKept
         /\ \A k \in PageKeys : k # key => page'[k] = page[k]
BY DEF GovernanceColumns, PagesKept

\* The state of one unfinished run changes to another.
LEMMA OneRun ==
  ASSUME GovernanceColumns, NEW r \in UnfinishedRuns, NEW c \in RunRows,
         run' = [run EXCEPT ![r] = c], c.state \in {"pending", "processing", "retrying", "blocked"},
         c.kind = run[r].kind, c.weekly = run[r].weekly, c.through = run[r].through,
         run[r].phase = "finalize" => c.phase = "finalize"
  PROVE  /\ run' \in [Runs -> RunRows] /\ RunsKept /\ run'[r] = c
         /\ \A s \in Runs : s # r => run'[s] = run[s]
<1>1. r \in Runs /\ run[r].state \in {"pending", "processing", "retrying", "blocked"}
  BY DEF UnfinishedRuns
<1>2. run' \in [Runs -> RunRows] /\ run'[r] = c /\ \A s \in Runs : s # r => run'[s] = run[s]
  BY <1>1 DEF GovernanceColumns
<1>3. UnfinishedRuns' = UnfinishedRuns
  BY <1>1, <1>2 DEF UnfinishedRuns
<1> QED BY <1>1, <1>2, <1>3 DEF RunsKept

LEMMA SameRuns ==
  ASSUME UNCHANGED run
  PROVE  RunsKept
BY DEF RunsKept, UnfinishedRuns

\* One step goes on, or ends; what the others do not work on does not matter to them.
LEMMA OneGoesOn ==
  ASSUME GovernanceInv, NEW w \in Governors, NEW g \in Steps,
         governor' = [governor EXCEPT ![w] = g],
         \A v \in Governors \ {w} : governor[v] = Governing,
         Working(w)'
  PROVE  OneStep' /\ governor' \in [Governors -> Steps]
<1>1. governor' \in [Governors -> Steps] /\ governor'[w] = g
      /\ \A v \in Governors \ {w} : governor'[v] = Governing
  BY GovernanceTypes DEF GovernanceInv, GovernanceColumns
<1>2. \A v \in Governors : Working(v)'
  BY <1>1, GovernanceConstants DEF Working
<1> QED BY <1>1, <1>2 DEF OneStep

LEMMA OneStops ==
  ASSUME GovernanceInv, NEW w \in Governors, governor' = [governor EXCEPT ![w] = Governing],
         \A v \in Governors \ {w} : governor[v] = Governing
  PROVE  OneStep' /\ governor' \in [Governors -> Steps]
<1>1. governor'[w] = Governing
  BY GovernanceTypes DEF GovernanceInv, GovernanceColumns
<1>2. Working(w)'
  BY <1>1, GovernanceConstants DEF Working
<1> QED BY <1>2, OneGoesOn, GovernanceConstants


-----------------------------------------------------------------------------
LEMMA PhaseAdvances ==
  ASSUME OneGovernance, GovernanceInv, NEW w \in Governors, NEW r \in Runs, AdvancePhase(w, r)
  PROVE  GovernanceInv'
<1>0. GovernanceColumns /\ r \in UnfinishedRuns /\ UnfinishedRuns = {r} /\ run[r] \in RunRows
      /\ \A v \in Governors : governor[v] = Governing
  BY TakesUp, GovernanceTypes DEF AdvancePhase, GovernanceInv, GovernanceColumns
<1> DEFINE next == IF run[r].phase = "weekly" /\ run[r].kind = "monthly" THEN "monthly" ELSE "finalize"
           c == [run[r] EXCEPT !.state = "pending", !.phase = next]
<1>1. /\ run' = [run EXCEPT ![r] = c] /\ run[r].phase # "finalize" /\ RemainingPages(r) = {}
      /\ UNCHANGED <<clock, cursor, obligation, page, ledger, knowledge, governor>>
  BY <1>0 DEF AdvancePhase, GovernanceColumns
<1>2. /\ c \in RunRows /\ c.state = "pending" /\ c.kind = run[r].kind /\ c.weekly = run[r].weekly
      /\ c.through = run[r].through /\ c.phase = next
  <2>1. next \in Cadences \cup {"finalize"}
    BY DEF Cadences
  <2> QED BY <1>0, <2>1 DEF RunRows
<1> HIDE DEF c
<1>3. /\ run' \in [Runs -> RunRows] /\ RunsKept /\ run'[r] = c
      /\ \A s \in Runs : s # r => run'[s] = run[s]
  BY <1>0, <1>1, <1>2, OneRun
<1>4. GovernanceTypeOK'
  <2>1. GovernanceColumns'
    BY <1>0, <1>1, <1>3 DEF GovernanceColumns
  <2> QED BY <2>1, GovernanceTypes DEF GovernanceTypeOK, GovernanceColumns, RunRows, Steps,
                                       ObligationStates, Occurrences
<1>5. OneStep'
  <2>1. \A v \in Governors : governor'[v] = Governing
    BY <1>0, <1>1
  <2> QED BY <2>1, GovernanceConstants DEF OneStep, Working
<1>6. PagesKept
  BY <1>1 DEF PagesKept
<1>7. \A m \in Governed : page[<<r, run[r].phase, m>>].revision # 0 =>
        page[<<r, run[r].phase, m>>].state = "applied"
  <2>1. run[r].phase \in Cadences
    BY <1>0, <1>1 DEF RunRows
  <2>2. \A m \in Governed : page[<<r, run[r].phase, m>>].state \in PageStates
    BY <1>0, <2>1, Keys DEF GovernanceColumns, PageRows, PageStates
  <2> QED BY <1>1, <2>2 DEF RemainingPages, PagesIn
<1>8. PagesFrozen'
  <2> SUFFICES ASSUME NEW key \in PageKeys
               PROVE  /\ page[key].revision = 0 => page[key].state = "absent"
                      /\ page[key].revision # 0 =>
                           /\ run'[key[1]].state # "absent"
                           /\ key[2] = "monthly" => run'[key[1]].kind = "monthly"
                           /\ LeftBehind(key[1], key[2])' => page[key].state = "applied"
    BY <1>1 DEF PagesFrozen, LeftBehind
  <2>1. /\ key[1] \in Runs /\ key[2] \in Cadences /\ key[3] \in Governed
        /\ key = <<key[1], key[2], key[3]>>
    BY Keys
  <2>2. CASE key[1] # r
    <3>1. run'[key[1]] = run[key[1]]
      BY <1>3, <2>1, <2>2
    <3> QED BY <3>1 DEF GovernanceInv, PagesFrozen, LeftBehind
  <2>3. CASE key[1] = r
    <3>1. /\ page[key].revision = 0 => page[key].state = "absent"
          /\ page[key].revision # 0 =>
                /\ key[2] = "monthly" => run[r].kind = "monthly"
                /\ LeftBehind(r, key[2]) => page[key].state = "applied"
      BY <2>3 DEF GovernanceInv, PagesFrozen
    <3>2. key[2] = run[r].phase /\ page[key].revision # 0 => page[key].state = "applied"
      BY <1>7, <2>1, <2>3
    <3>3. run'[r].state = "pending" /\ run'[r].kind = run[r].kind /\ run'[r].phase = next
      BY <1>2, <1>3
    <3>4. run[r].phase \in {"weekly", "monthly"} /\ key[2] \in {"weekly", "monthly"}
      BY <1>0, <1>1, <2>1 DEF RunRows, Cadences
    <3> QED BY <2>3, <3>1, <3>2, <3>3, <3>4 DEF LeftBehind
  <2> QED BY <2>2, <2>3
<1>9. \A s \in UnfinishedRuns : run'[s].phase = "finalize" => run'[s].state = "pending"
  BY <1>0, <1>2, <1>3
<1> QED BY <1>1, <1>3, <1>4, <1>5, <1>6, <1>8, <1>9, PageStep

\* PagesFrozen survives a change of pages that keeps revisions and does not touch those of
\* the phases left behind, while phases stand still.
LEMMA FrozenStays ==
  ASSUME GovernanceInv, RunsKept, PagesKept, \A r \in Runs : run'[r].phase = run[r].phase,
         \A key \in PageKeys : page[key].revision = 0 => page'[key].state = page[key].state
  PROVE  PagesFrozen'
<1> SUFFICES ASSUME NEW key \in PageKeys
             PROVE  /\ page'[key].revision = 0 => page'[key].state = "absent"
                    /\ page'[key].revision # 0 =>
                         /\ run'[key[1]].state # "absent"
                         /\ key[2] = "monthly" => run'[key[1]].kind = "monthly"
                         /\ LeftBehind(key[1], key[2])' => page'[key].state = "applied"
  BY DEF PagesFrozen, LeftBehind
<1>1. key[1] \in Runs
  BY Keys
<1>2. LeftBehind(key[1], key[2])' = LeftBehind(key[1], key[2])
  BY <1>1 DEF LeftBehind
<1> QED BY <1>1, <1>2 DEF GovernanceInv, PagesFrozen, RunsKept, PagesKept


LEMMA PageWorks ==
  ASSUME GovernanceInv, RunsKept, PagesKept, UNCHANGED <<clock, cursor, obligation, knowledge>>,
         run' \in [Runs -> RunRows], page' \in [PageKeys -> PageRows], ledger' \subseteq PageKeys,
         governor' \in [Governors -> Steps], OneStep',
         \A r \in Runs : run'[r].phase = run[r].phase,
         \A r \in Runs : run[r].phase = "finalize" => run'[r].state = run[r].state,
         \A key \in PageKeys : page[key].revision = 0 => page'[key].state = page[key].state
  PROVE  GovernanceInv'
<1>1. GovernanceTypeOK'
  <2>1. GovernanceColumns'
    BY GovernanceTypes DEF GovernanceInv, GovernanceColumns
  <2> QED BY <2>1 DEF GovernanceTypeOK, GovernanceColumns, RunRows, Steps, ObligationStates,
                      Occurrences
<1>2. PagesFrozen'
  BY FrozenStays
<1>3. \A r \in UnfinishedRuns : run'[r].phase = "finalize" => run'[r].state = "pending"
  BY DEF GovernanceInv, RunsInOrder, UnfinishedRuns
<1> QED BY <1>1, <1>2, <1>3, PageStep

LEMMA PageClaimed ==
  ASSUME OneGovernance, GovernanceInv, NEW w \in Governors, NEW r \in Runs, ClaimPage(w, r)
  PROVE  GovernanceInv'
<1>0. GovernanceColumns /\ r \in UnfinishedRuns /\ UnfinishedRuns = {r} /\ run[r] \in RunRows
      /\ \A v \in Governors : governor[v] = Governing
  BY TakesUp, GovernanceTypes DEF ClaimPage, GovernanceInv, GovernanceColumns
<1> DEFINE m == Min(RemainingPages(r))
           key == <<r, run[r].phase, m>>
           p == [page[key] EXCEPT !.state = "model_processing", !.holder = w, !.late = FALSE]
           c == [run[r] EXCEPT !.state = "processing"]
           g == [Governing EXCEPT !.pc = "model", !.key = key]
<1>1. /\ run[r].phase # "finalize" /\ RemainingPages(r) # {}
      /\ run' = [run EXCEPT ![r] = c] /\ governor' = [governor EXCEPT ![w] = g]
      /\ LeaseFree(page[key])
      /\ UNCHANGED <<clock, cursor, obligation, ledger, knowledge>>
  BY <1>0 DEF ClaimPage, GovernanceColumns
<1>2. m \in RemainingPages(r)
  <2>1. RemainingPages(r) \subseteq Nat
    BY GovernanceConstants DEF RemainingPages, PagesIn
  <2> QED BY <1>1, <2>1, LeastNumber
<1>3. /\ m \in Governed /\ page[key].revision # 0 /\ page[key].state # "applied"
  BY <1>2 DEF RemainingPages, PagesIn
<1>4. run[r].phase \in Cadences
  BY <1>0, <1>1 DEF RunRows
<1>5. key \in PageKeys /\ key[1] = r /\ key[2] = run[r].phase
  BY <1>3, <1>4, Keys
<1>6. page' = [page EXCEPT ![key] = p] /\ page[key] \in PageRows
  BY <1>0, <1>5 DEF ClaimPage, GovernanceColumns
<1>7. /\ p \in PageRows /\ p.revision = page[key].revision /\ p.state = "model_processing"
      /\ p.holder = w
  BY <1>6 DEF PageRows
<1>8. c \in RunRows /\ c.state = "processing" /\ c.kind = run[r].kind /\ c.phase = run[r].phase
      /\ c.weekly = run[r].weekly /\ c.through = run[r].through
  BY <1>0 DEF RunRows
<1>9. g \in Steps /\ g.pc = "model" /\ g.key = key
  BY <1>5, GovernanceConstants DEF Steps
<1> HIDE DEF p, c, g, key, m
<1>10. /\ run' \in [Runs -> RunRows] /\ RunsKept /\ run'[r] = c
       /\ \A s \in Runs : s # r => run'[s] = run[s]
  BY <1>0, <1>1, <1>8, OneRun
<1>11. /\ page' \in [PageKeys -> PageRows] /\ page'[key] = p /\ PagesKept
       /\ \A k \in PageKeys : k # key => page'[k] = page[k]
  BY <1>0, <1>3, <1>5, <1>6, <1>7, OnePage
<1>12. Working(w)'
  <2>1. governor'[w] = g
    BY <1>0, <1>1 DEF GovernanceColumns
  <2>2. UnfinishedRuns' = UnfinishedRuns /\ run'[r].phase = run[r].phase
    BY <1>8, <1>10 DEF RunsKept
  <2>3. page'[key].revision # 0 /\ page'[key].state = "model_processing" /\ page'[key].holder = w
    BY <1>3, <1>7, <1>11
  <2> QED BY <1>0, <1>5, <1>9, <2>1, <2>2, <2>3 DEF Working, HoldsPage
<1>13. OneStep' /\ governor' \in [Governors -> Steps]
  BY <1>0, <1>1, <1>9, <1>12, OneGoesOn
<1>14. \A s \in Runs : run'[s].phase = run[s].phase
  BY <1>8, <1>10
<1>15. \A s \in Runs : run[s].phase = "finalize" => run'[s].state = run[s].state
  BY <1>1, <1>10
<1>16. \A k \in PageKeys : page[k].revision = 0 => page'[k].state = page[k].state
  BY <1>3, <1>11
<1>17. ledger' \subseteq PageKeys
  BY <1>0, <1>1 DEF GovernanceColumns
<1> QED BY <1>1, <1>10, <1>11, <1>13, <1>14, <1>15, <1>16, <1>17, PageWorks

\* The steps that move only the step itself.
LEMMA StepMoves ==
  ASSUME OneGovernance, GovernanceInv, NEW w \in Governors,
         \/ \E r \in Runs : ReadCovered(w, r)
         \/ RecordAction(w) \/ StepAborted(w)
  PROVE  GovernanceInv'
<1>0. GovernanceColumns
  BY GovernanceTypes DEF GovernanceInv
<1>1. UNCHANGED <<clock, cursor, obligation, run, page, knowledge>>
  BY DEF ReadCovered, RecordAction, StepAborted
<1>2. RunsKept /\ PagesKept
  BY <1>1, SameRuns DEF PagesKept
<1>3. OneStep' /\ governor' \in [Governors -> Steps] /\ ledger' \subseteq PageKeys
  <2>1. ASSUME NEW r \in Runs, ReadCovered(w, r)
        PROVE  OneStep' /\ governor' \in [Governors -> Steps] /\ ledger' \subseteq PageKeys
    <3>0. /\ r \in UnfinishedRuns /\ run[r] \in RunRows
          /\ \A v \in Governors : governor[v] = Governing
      BY <1>0, <2>1, TakesUp DEF ReadCovered, GovernanceColumns
    <3> DEFINE m == Min(PagesIn(r, {"reviewed"}))
               key == <<r, run[r].phase, m>>
               done == page[key].proposal = "none" \/ key \in ledger
               g == [pc |-> IF done THEN "recorded" ELSE "read", key |-> key,
                     revision |-> IF done THEN 0 ELSE knowledge[key[3]].revision]
    <3>1. /\ run[r].phase # "finalize" /\ PagesIn(r, {"reviewed"}) # {} /\ UNCHANGED ledger
          /\ governor' = [governor EXCEPT ![w] = g]
      BY <2>1 DEF ReadCovered
    <3>2. m \in PagesIn(r, {"reviewed"})
      <4>1. PagesIn(r, {"reviewed"}) \subseteq Nat
        BY GovernanceConstants DEF PagesIn
      <4> QED BY <3>1, <4>1, LeastNumber
    <3>3. m \in Governed /\ page[key].revision # 0 /\ page[key].state = "reviewed"
      BY <3>2 DEF PagesIn
    <3>4. key \in PageKeys /\ key[1] = r /\ key[2] = run[r].phase /\ key[3] = m
      BY <3>0, <3>1, <3>3, Keys DEF RunRows
    <3>5. g \in Steps /\ g.pc \in {"read", "recorded"} /\ g.key = key
      <4>1. knowledge[m] \in KnowledgeRows
        BY <1>0, <3>3 DEF GovernanceColumns
      <4>2. knowledge[m].revision \in 0..MaxGoverned /\ 0 \in 0..MaxGoverned
        BY <4>1, GovernanceConstants DEF KnowledgeRows
      <4> HIDE DEF m
      <4>3. (IF done THEN 0 ELSE knowledge[key[3]].revision) \in 0..MaxGoverned
        BY <3>4, <4>2
      <4> QED BY <3>4, <4>3 DEF Steps
    <3> HIDE DEF g, key, m
    <3>6. governor'[w] = g
      BY <1>0, <3>1 DEF GovernanceColumns
    <3>7. Working(w)'
      BY <1>1, <3>0, <3>3, <3>4, <3>5, <3>6 DEF Working, UnfinishedRuns
    <3> QED BY <1>0, <3>0, <3>1, <3>5, <3>7, OneGoesOn DEF GovernanceColumns
  <2>2. CASE RecordAction(w)
    <3> DEFINE g == [governor[w] EXCEPT !.pc = "recorded"]
    <3>1. /\ governor[w].pc = "wrote" /\ governor' = [governor EXCEPT ![w] = g]
          /\ ledger' = ledger \cup {governor[w].key}
      BY <2>2 DEF RecordAction
    <3>2. governor[w] \in Steps /\ governor[w].key \in PageKeys
      BY <3>1, WorksAlone
    <3>3. g \in Steps /\ g.pc = "recorded" /\ g.key = governor[w].key
      BY <3>2 DEF Steps
    <3> HIDE DEF g
    <3>4. governor'[w] = g
      BY <1>0, <3>1 DEF GovernanceColumns
    <3>5. Working(w)'
      <4>1. Working(w)
        BY DEF GovernanceInv, OneStep
      <4> QED BY <1>1, <3>1, <3>3, <3>4, <4>1 DEF Working, UnfinishedRuns
    <3> QED BY <1>0, <3>1, <3>2, <3>3, <3>5, WorksAlone, OneGoesOn DEF GovernanceColumns
  <2>3. CASE StepAborted(w)
    BY <1>0, <2>3, WorksAlone, OneStops DEF StepAborted, GovernanceColumns
  <2> QED BY <2>1, <2>2, <2>3
<1> QED BY <1>0, <1>1, <1>2, <1>3, PageWorks DEF GovernanceColumns


\* A page handed back or applied, and the step that worked on it ends.
LEMMA PageEnds ==
  ASSUME OneGovernance, GovernanceInv, NEW w \in Governors, governor[w].pc # "idle",
         NEW p \in PageRows, page' = [page EXCEPT ![governor[w].key] = p],
         p.revision = page[governor[w].key].revision,
         governor' = [governor EXCEPT ![w] = Governing],
         RunsKept, run' \in [Runs -> RunRows], \A r \in Runs : run'[r].phase = run[r].phase,
         \A r \in Runs : run[r].phase = "finalize" => run'[r].state = run[r].state,
         UNCHANGED <<clock, cursor, obligation, ledger, knowledge>>
  PROVE  GovernanceInv'
<1>0. GovernanceColumns
  BY GovernanceTypes DEF GovernanceInv
<1>1. /\ page' \in [PageKeys -> PageRows] /\ page'[governor[w].key] = p /\ PagesKept
      /\ \A k \in PageKeys : k # governor[w].key => page'[k] = page[k]
  BY <1>0, WorksAlone, OnePage
<1>2. OneStep' /\ governor' \in [Governors -> Steps]
  BY WorksAlone, OneStops
<1>3. \A k \in PageKeys : page[k].revision = 0 => page'[k].state = page[k].state
  BY <1>1, WorksAlone
<1>4. ledger' \subseteq PageKeys
  BY <1>0 DEF GovernanceColumns
<1> QED BY <1>1, <1>2, <1>3, <1>4, PageWorks

\* The run of a step in progress waits after a failure.
LEMMA RunWaits ==
  ASSUME GovernanceInv, NEW w \in Governors, governor[w].pc # "idle",
         NEW state \in {"retrying", "blocked"},
         run' = [run EXCEPT ![governor[w].key[1]].state = state]
  PROVE  /\ RunsKept /\ run' \in [Runs -> RunRows] /\ \A r \in Runs : run'[r].phase = run[r].phase
         /\ \A r \in Runs : run[r].phase = "finalize" => run'[r].state = run[r].state
<1> DEFINE r == governor[w].key[1]
           c == [run[r] EXCEPT !.state = state]
<1>0. GovernanceColumns /\ r \in UnfinishedRuns /\ r \in Runs
  BY WorksAlone, GovernanceTypes DEF GovernanceInv, UnfinishedRuns
<1>1. run[r] \in RunRows /\ run[r].phase # "finalize"
  <2>1. governor[w].key \in PageKeys /\ governor[w].key[2] = run[r].phase
    BY WorksAlone
  <2>2. governor[w].key[2] \in Cadences
    BY <2>1, Keys
  <2> QED BY <1>0, <2>1, <2>2 DEF GovernanceColumns, Cadences
<1>2. /\ c \in RunRows /\ c.state = state /\ c.kind = run[r].kind /\ c.phase = run[r].phase
      /\ c.weekly = run[r].weekly /\ c.through = run[r].through
  BY <1>1 DEF RunRows
<1>3. run' = [run EXCEPT ![r] = c]
  BY <1>0 DEF GovernanceColumns
<1> HIDE DEF r, c
<1>4. c.state \in {"pending", "processing", "retrying", "blocked"}
  BY <1>2
<1>5. run[r].phase = "finalize" => c.phase = "finalize"
  BY <1>2
<1>6. /\ run' \in [Runs -> RunRows] /\ RunsKept /\ run'[r] = c
      /\ \A s \in Runs : s # r => run'[s] = run[s]
  BY <1>0, <1>2, <1>3, <1>4, <1>5, OneRun
<1> QED BY <1>1, <1>2, <1>6

LEMMA ReviewEnds ==
  ASSUME OneGovernance, GovernanceInv, NEW w \in Governors,
         PageReviewed(w) \/ PageFailed(w) \/ SuccessNotRecorded(w) \/ PageApplied(w)
  PROVE  GovernanceInv'
<1> DEFINE key == governor[w].key
<1>1. /\ governor[w].pc # "idle" /\ governor' = [governor EXCEPT ![w] = Governing]
      /\ UNCHANGED <<clock, cursor, obligation, ledger, knowledge>>
  BY DEF PageReviewed, PageFailed, SuccessNotRecorded, PageApplied
<1>2. GovernanceColumns /\ key \in PageKeys /\ page[key] \in PageRows
  BY <1>1, WorksAlone, GovernanceTypes DEF GovernanceInv, GovernanceColumns
<1>3. ASSUME UNCHANGED run
      PROVE  /\ RunsKept /\ run' \in [Runs -> RunRows]
             /\ \A r \in Runs : run'[r].phase = run[r].phase
             /\ \A r \in Runs : run[r].phase = "finalize" => run'[r].state = run[r].state
  BY <1>2, <1>3, SameRuns DEF GovernanceColumns
<1>4. CASE PageReviewed(w)
  <2>1. PICK proposal \in Proposals :
          page' = [page EXCEPT ![key].state = "reviewed", ![key].proposal = proposal,
                               ![key].holder = NoGovernor]
    BY <1>4 DEF PageReviewed, Reviewable
  <2> DEFINE p == [page[key] EXCEPT !.state = "reviewed", !.proposal = proposal,
                                    !.holder = NoGovernor]
  <2>2. page' = [page EXCEPT ![key] = p] /\ UNCHANGED run
    BY <1>2, <1>4, <2>1 DEF PageReviewed, GovernanceColumns
  <2>3. p \in PageRows /\ p.revision = page[key].revision
    BY <1>2 DEF PageRows
  <2> HIDE DEF p
  <2> QED BY <1>1, <1>3, <2>2, <2>3, PageEnds
<1>5. CASE PageFailed(w)
  <2> DEFINE p == [page[key] EXCEPT !.state = "prepared", !.holder = NoGovernor]
  <2>1. UnfinishedRuns \subseteq {key[1]} /\ HoldsPage(w)
    <3>1. governor[w].pc = "model" /\ Working(w)
      BY <1>5 DEF PageFailed, GovernanceInv, OneStep
    <3> QED BY <1>1, <3>1, WorksAlone DEF Working
  <2>2. PICK state \in {"retrying", "blocked"} : run' = [run EXCEPT ![key[1]].state = state]
    BY <1>5, <2>1 DEF PageFailed
  <2>3. page' = [page EXCEPT ![key] = p]
    BY <1>2, <1>5, <2>1 DEF PageFailed, GovernanceColumns
  <2>4. p \in PageRows /\ p.revision = page[key].revision
    BY <1>2 DEF PageRows
  <2> HIDE DEF p
  <2> QED BY <1>1, <2>2, <2>3, <2>4, RunWaits, PageEnds
<1>6. CASE SuccessNotRecorded(w)
  <2> DEFINE p == [page[key] EXCEPT !.state = "reviewed", !.holder = NoGovernor]
  <2>2. PICK state \in {"retrying", "blocked"} : run' = [run EXCEPT ![key[1]].state = state]
    BY <1>6 DEF SuccessNotRecorded
  <2>3. page' = [page EXCEPT ![key] = p]
    BY <1>2, <1>6 DEF SuccessNotRecorded, GovernanceColumns
  <2>4. p \in PageRows /\ p.revision = page[key].revision
    BY <1>2 DEF PageRows
  <2> HIDE DEF p
  <2> QED BY <1>1, <2>2, <2>3, <2>4, RunWaits, PageEnds
<1>7. CASE PageApplied(w)
  <2> DEFINE p == [page[key] EXCEPT !.state = IF @ = "reviewed" THEN "applied" ELSE @]
  <2>2. page' = [page EXCEPT ![key] = p] /\ UNCHANGED run
    BY <1>2, <1>7 DEF PageApplied, GovernanceColumns
  <2>3. p \in PageRows /\ p.revision = page[key].revision
    BY <1>2 DEF PageRows
  <2> HIDE DEF p
  <2> QED BY <1>1, <1>3, <2>2, <2>3, PageEnds
<1> QED BY <1>4, <1>5, <1>6, <1>7

LEMMA LeaseExpires ==
  ASSUME OneGovernance, GovernanceInv, NEW key \in PageKeys, PageLeaseExpires(key)
  PROVE  GovernanceInv'
<1> DEFINE p == [page[key] EXCEPT !.late = TRUE]
<1>0. GovernanceColumns /\ page[key] \in PageRows
  BY GovernanceTypes DEF GovernanceInv, GovernanceColumns
<1>1. /\ page' = [page EXCEPT ![key] = p] /\ page[key].state = "model_processing"
      /\ \A w \in Governors : governor[w] = Governing
      /\ UNCHANGED <<clock, cursor, obligation, run, ledger, knowledge, governor>>
  BY <1>0 DEF PageLeaseExpires, OneGovernance, GovernanceColumns
<1>2. p \in PageRows /\ p.revision = page[key].revision /\ p.state = page[key].state
  BY <1>0 DEF PageRows
<1> HIDE DEF p
<1>3. /\ page' \in [PageKeys -> PageRows] /\ page'[key] = p /\ PagesKept
      /\ \A k \in PageKeys : k # key => page'[k] = page[k]
  BY <1>0, <1>1, <1>2, OnePage
<1>4. \A k \in PageKeys : page[k].revision = 0 => page'[k].state = page[k].state
  BY <1>2, <1>3
<1>5. OneStep'
  <2>1. \A w \in Governors : governor'[w] = Governing
    BY <1>1
  <2> QED BY <2>1, GovernanceConstants DEF OneStep, Working
<1> QED BY <1>0, <1>1, <1>3, <1>4, <1>5, SameRuns, PageWorks DEF GovernanceColumns


-----------------------------------------------------------------------------
\* With runs and pages as they were, only the clock, the occurrences and the memories count.
LEMMA AroundRuns ==
  ASSUME GovernanceInv, UNCHANGED <<cursor, run, page>>, GovernanceTypeOK', OneStep',
         clock <= clock', Answered', CoverageComplete'
  PROVE  GovernanceInv'
<1>0. GovernanceColumns
  BY GovernanceTypes DEF GovernanceInv
<1>1. UnfinishedRuns' = UnfinishedRuns /\ clock \in Nat /\ clock' \in Nat
  BY <1>0, GovernanceConstants DEF UnfinishedRuns, GovernanceColumns, GovernanceTypeOK
<1>2. \A r \in Runs : run[r].through \in Nat
  BY <1>0, GovernanceConstants DEF GovernanceColumns, RunRows
<1>3. \A c \in Cadences : cursor[c] \in Nat
  BY <1>0, GovernanceConstants DEF GovernanceColumns
<1>4. RunsInOrder'
  BY <1>1, <1>2 DEF RunsInOrder, GovernanceInv
<1>5. CursorsBehind'
  BY <1>1, <1>3 DEF CursorsBehind, GovernanceInv
<1>6. PagesFrozen'
  BY DEF PagesFrozen, LeftBehind, GovernanceInv
<1> QED BY <1>4, <1>5, <1>6 DEF GovernanceInv

LEMMA SameSteps ==
  ASSUME GovernanceInv, UNCHANGED <<governor, run, page>>
  PROVE  OneStep'
BY DEF GovernanceInv, OneStep, Working, HoldsPage, UnfinishedRuns

LEMMA ClockTicks ==
  ASSUME GovernanceInv, GovernanceTick \/ RecordOccurrences
  PROVE  GovernanceInv'
<1>0. GovernanceColumns
  BY GovernanceTypes DEF GovernanceInv
<1>1. UNCHANGED <<cursor, run, page, ledger, knowledge, governor>> /\ UnfinishedRuns' = UnfinishedRuns
  BY DEF GovernanceTick, RecordOccurrences, UnfinishedRuns
<1>2. clock <= clock' /\ clock' \in 0..MaxClock
  <2>1. clock \in Nat /\ MaxClock \in Nat /\ clock \in 0..MaxClock
    BY <1>0, GovernanceConstants DEF GovernanceColumns
  <2> QED BY <2>1 DEF GovernanceTick, RecordOccurrences
<1>3. /\ obligation' \in [Occurrences -> ObligationStates]
      /\ \A o \in Occurrences : obligation[o] # "absent" => obligation'[o] = obligation[o]
  <2>1. CASE GovernanceTick
    BY <1>0, <2>1 DEF GovernanceTick, GovernanceColumns
  <2>2. CASE RecordOccurrences
    <3>1. obligation' = Recorded /\ DOMAIN obligation = Occurrences
      BY <1>0, <2>2 DEF RecordOccurrences, GovernanceColumns
    <3>2. \A o \in Occurrences : obligation[o] \in ObligationStates
      BY <1>0 DEF GovernanceColumns
    <3> QED BY <3>1, <3>2 DEF Recorded, ObligationStates
  <2> QED BY <2>1, <2>2
<1>4. \A c \in Cadences, t \in 1..MaxClock : <<c, t>> \in Occurrences
  BY DEF Occurrences
<1>5. GovernanceTypeOK'
  <2>1. GovernanceColumns'
    BY <1>0, <1>1, <1>2, <1>3 DEF GovernanceColumns
  <2> QED BY <2>1 DEF GovernanceTypeOK, GovernanceColumns, RunRows, Steps, ObligationStates,
                      Occurrences
<1>6. Answered'
  <2>1. \A r \in UnfinishedRuns, c \in Cadences, t \in 1..MaxClock :
          (c = "weekly" \/ t % 2 = 1) /\ t <= run[r].through =>
             obligation'[<<c, t>>] \in {"linked", "satisfied"}
    BY <1>3, <1>4 DEF Answered, GovernanceInv
  <2>2. \A r \in UnfinishedRuns : run[r].weekly => \A m \in Governed :
           /\ knowledge[m].by # "governance" /\ cursor["weekly"] < knowledge[m].revised
           /\ knowledge[m].revised <= run[r].through
           => page[<<r, "weekly", m>>].revision = knowledge[m].revision
    BY DEF Answered, GovernanceInv
  <2> QED BY <1>1, <2>1, <2>2 DEF Answered
<1>7. CoverageComplete'
  <2>1. \A c \in Cadences, t \in 1..MaxClock :
         (c = "weekly" \/ t % 2 = 1) /\ t <= cursor[c] => obligation'[<<c, t>>] = "satisfied"
    BY <1>3, <1>4 DEF CoverageComplete, GovernanceInv
  <2> QED BY <1>1, <2>1 DEF CoverageComplete, GovernanceInv
<1> QED BY <1>1, <1>2, <1>5, <1>6, <1>7, SameSteps, AroundRuns

\* One memory changes: at an instant that no run covers, or by governance.
LEMMA KnowledgeChanges ==
  ASSUME GovernanceInv, NEW m \in Governed, NEW k \in KnowledgeRows,
         knowledge' = [knowledge EXCEPT ![m] = k],
         \/ k.by = "governance"
         \/ k.revised = clock /\ \A r \in Runs : run[r].state # "absent" => run[r].through < clock,
         UNCHANGED <<clock, cursor, obligation, run, page, ledger>>, OneStep',
         governor' \in [Governors -> Steps]
  PROVE  GovernanceInv'
<1>0. GovernanceColumns
  BY GovernanceTypes DEF GovernanceInv
<1>1. /\ knowledge' \in [Governed -> KnowledgeRows] /\ knowledge'[m] = k
      /\ \A n \in Governed : n # m => knowledge'[n] = knowledge[n]
  BY <1>0 DEF GovernanceColumns
<1>2. GovernanceTypeOK'
  <2>1. GovernanceColumns'
    BY <1>0, <1>1 DEF GovernanceColumns
  <2> QED BY <2>1 DEF GovernanceTypeOK, GovernanceColumns, RunRows, Steps, ObligationStates,
                      Occurrences
<1>3. UnfinishedRuns' = UnfinishedRuns
  BY DEF UnfinishedRuns
<1>4. /\ clock \in Nat /\ \A c \in Cadences : cursor[c] \in Nat
      /\ \A r \in Runs : run[r].through \in Nat
  BY <1>0, GovernanceConstants DEF GovernanceColumns, RunRows
<1>5. ASSUME k.by # "governance"
      PROVE  /\ \A r \in UnfinishedRuns : ~ (k.revised <= run[r].through)
             /\ ~ (0 < k.revised /\ k.revised <= cursor["weekly"])
  <2>1. k.revised = clock /\ \A r \in Runs : run[r].state # "absent" => run[r].through < clock
    BY <1>5
  <2>2. \A r \in UnfinishedRuns : r \in Runs /\ run[r].through < clock
    BY <2>1 DEF UnfinishedRuns
  <2>3. cursor["weekly"] = 0
        \/ \E r \in Runs : run[r].state # "absent" /\ cursor["weekly"] <= run[r].through
    BY DEF GovernanceInv, CursorsBehind, Cadences
  <2>4. cursor["weekly"] = 0 \/ cursor["weekly"] < clock
    BY <1>4, <2>1, <2>3 DEF Cadences
  <2>5. "weekly" \in Cadences
    BY DEF Cadences
  <2>6. \A r \in UnfinishedRuns : ~ (k.revised <= run[r].through)
    BY <1>4, <2>1, <2>2
  <2>7. ~ (0 < k.revised /\ k.revised <= cursor["weekly"])
    <3> DEFINE x == cursor["weekly"]
    <3>1. x \in Nat /\ (x = 0 \/ x < clock)
      BY <1>4, <2>4, <2>5
    <3> HIDE DEF x
    <3>2. ~ (0 < clock /\ clock <= x)
      BY <1>4, <3>1
    <3> QED BY <2>1, <3>2 DEF x
  <2> QED BY <2>6, <2>7
<1>6. Answered'
  <2> SUFFICES ASSUME NEW r \in UnfinishedRuns, run[r].weekly, NEW n \in Governed,
                      knowledge'[n].by # "governance", cursor["weekly"] < knowledge'[n].revised,
                      knowledge'[n].revised <= run[r].through
               PROVE  page[<<r, "weekly", n>>].revision = knowledge'[n].revision
    BY <1>3 DEF Answered, GovernanceInv
  <2>1. n # m
    BY <1>1, <1>5
  <2> QED BY <1>1, <2>1 DEF Answered, GovernanceInv
<1>7. CoverageComplete'
  <2> SUFFICES ASSUME NEW n \in Governed, knowledge'[n].by # "governance",
                      0 < knowledge'[n].revised, knowledge'[n].revised <= cursor["weekly"]
               PROVE  \E r \in Runs, c \in Cadences :
                        /\ run[r].phase = "finalize" /\ page[<<r, c, n>>].state = "applied"
                        /\ page[<<r, c, n>>].revision >= knowledge'[n].revision
    BY DEF CoverageComplete, GovernanceInv
  <2>1. n # m
    BY <1>1, <1>5
  <2> QED BY <1>1, <2>1 DEF CoverageComplete, GovernanceInv
<1> QED BY <1>2, <1>4, <1>6, <1>7, AroundRuns

LEMMA Revised ==
  ASSUME GovernanceInv, NEW m \in Governed, KnowledgeRevised(m)
  PROVE  GovernanceInv'
<1>0. GovernanceColumns /\ knowledge[m] \in KnowledgeRows
  BY GovernanceTypes DEF GovernanceInv, GovernanceColumns
<1>1. PICK writer \in {"agent", "owner"}, archived \in {FALSE, knowledge[m].archived} :
        knowledge' = [knowledge EXCEPT ![m].revision = @ + 1, ![m].by = writer,
                                       ![m].archived = archived, ![m].revised = clock]
  BY DEF KnowledgeRevised
<1> DEFINE k == [knowledge[m] EXCEPT !.revision = @ + 1, !.by = writer, !.archived = archived,
                                     !.revised = clock]
<1>2. knowledge' = [knowledge EXCEPT ![m] = k]
  BY <1>0, <1>1 DEF GovernanceColumns
<1>3. k \in KnowledgeRows /\ k.revised = clock
  <2>1. knowledge[m].revision + 1 \in 1..MaxGoverned
    BY <1>0, GovernanceConstants DEF KnowledgeRevised, KnowledgeRows
  <2>2. archived \in BOOLEAN /\ clock \in 0..MaxClock
    BY <1>0 DEF KnowledgeRows, GovernanceColumns
  <2> QED BY <1>0, <2>1, <2>2 DEF KnowledgeRows
<1> HIDE DEF k
<1>4. OneStep'
  BY SameSteps DEF KnowledgeRevised
<1> QED BY <1>0, <1>2, <1>3, <1>4, KnowledgeChanges DEF KnowledgeRevised, GovernanceColumns

LEMMA ActedOnTarget ==
  ASSUME GovernanceInv, NEW w \in Governors, ActOnTarget(w)
  PROVE  GovernanceInv'
<1>0. GovernanceColumns /\ governor[w].key \in PageKeys /\ governor[w].key[3] \in Governed
      /\ governor[w].key[1] \in Runs /\ governor[w] \in Steps
  BY WorksAlone, GovernanceTypes, Keys DEF GovernanceInv, ActOnTarget
<1> DEFINE key == governor[w].key
           m == key[3]
           k == ActedOn(knowledge[m], key)
           g == [governor[w] EXCEPT !.pc = "wrote"]
<1>1. /\ governor[w].pc = "read" /\ governor' = [governor EXCEPT ![w] = g]
      /\ UNCHANGED <<clock, cursor, obligation, run, page, ledger>>
      /\ \/ knowledge' = knowledge
         \/ knowledge[m].revision < MaxGoverned /\ knowledge' = [knowledge EXCEPT ![m] = k]
  BY <1>0 DEF ActOnTarget, GovernanceColumns
<1>2. g \in Steps /\ g.pc = "wrote" /\ g.key = key
  BY <1>0 DEF Steps
<1> HIDE DEF g
<1>3. Working(w)'
  <2>1. governor'[w] = g /\ Working(w)
    BY <1>0, <1>1 DEF GovernanceColumns, GovernanceInv, OneStep
  <2> QED BY <1>1, <1>2, <2>1 DEF Working, UnfinishedRuns
<1>4. OneStep' /\ governor' \in [Governors -> Steps]
  BY <1>1, <1>2, <1>3, WorksAlone, OneGoesOn
<1>5. CASE knowledge' = knowledge
  <2>1. knowledge[m] \in KnowledgeRows
    BY <1>0 DEF GovernanceColumns
  <2>2. UNCHANGED <<clock, cursor, obligation, run, page, knowledge>>
    BY <1>1, <1>5
  <2>3. RunsKept /\ PagesKept
    BY <2>2, SameRuns DEF PagesKept
  <2>4. run' \in [Runs -> RunRows] /\ page' \in [PageKeys -> PageRows] /\ ledger' \subseteq PageKeys
    BY <1>0, <1>1 DEF GovernanceColumns
  <2> QED BY <1>4, <2>2, <2>3, <2>4, PageWorks
<1>6. CASE knowledge[m].revision < MaxGoverned /\ knowledge' = [knowledge EXCEPT ![m] = k]
  <2>1. knowledge[m] \in KnowledgeRows /\ run[key[1]] \in RunRows
    BY <1>0 DEF GovernanceColumns
  <2>2. /\ knowledge[m].revision + 1 \in 1..MaxGoverned /\ key[1] \in 0..MaxRuns
        /\ run[key[1]].through \in 0..MaxClock
    BY <1>0, <1>6, <2>1, GovernanceConstants DEF KnowledgeRows, RunRows, Runs
  <2>3. k \in KnowledgeRows /\ k.by = "governance"
    BY <2>1, <2>2 DEF ActedOn, KnowledgeRows
  <2> HIDE DEF k, m
  <2>4. m \in Governed
    BY <1>0 DEF m
  <2> QED BY <1>1, <1>4, <1>6, <2>3, <2>4, KnowledgeChanges
<1> QED BY <1>1, <1>5, <1>6


\* A finished run: its cursors move, to its own time, over what it answered and froze.
LEMMA RunFinalized ==
  ASSUME OneGovernance, GovernanceInv, NEW w \in Governors, NEW r \in Runs, FinalizeRun(w, r)
  PROVE  GovernanceInv' /\ \A c \in Cadences : cursor'[c] >= cursor[c]
<1>0. /\ GovernanceColumns /\ r \in UnfinishedRuns /\ UnfinishedRuns = {r} /\ run[r] \in RunRows
      /\ run[r].phase = "finalize" /\ run[r].state = "pending"
      /\ \A v \in Governors : governor[v] = Governing
  BY TakesUp, GovernanceTypes
     DEF FinalizeRun, GovernanceInv, GovernanceColumns, RunsInOrder
<1> DEFINE d == [run[r] EXCEPT !.state = "completed"]
<1>1. /\ run' = [run EXCEPT ![r] = d]
      /\ obligation' = [o \in Occurrences |->
                          IF obligation[o] = "linked" /\ o[2] <= run[r].through THEN "satisfied"
                          ELSE obligation[o]]
      /\ cursor' = [c \in Cadences |-> IF c \in CursorsMoved(r) THEN run[r].through ELSE cursor[c]]
      /\ UNCHANGED <<clock, page, ledger, knowledge, governor>>
  <2>1. DOMAIN obligation = Occurrences
    BY <1>0 DEF GovernanceColumns
  <2> QED BY <1>0, <2>1 DEF FinalizeRun, GovernanceColumns
<1>2. /\ d \in RunRows /\ d.state = "completed" /\ d.kind = run[r].kind /\ d.weekly = run[r].weekly
      /\ d.through = run[r].through /\ d.phase = "finalize"
  BY <1>0 DEF RunRows
<1> HIDE DEF d
<1>3. /\ run' \in [Runs -> RunRows] /\ run'[r] = d /\ \A s \in Runs : s # r => run'[s] = run[s]
  BY <1>0, <1>1, <1>2 DEF GovernanceColumns
<1>4. UnfinishedRuns' = {}
  BY <1>0, <1>2, <1>3 DEF UnfinishedRuns
<1>5. /\ run[r].through \in 0..MaxClock /\ \A c \in Cadences : cursor[c] \in 0..MaxClock
      /\ \A s \in Runs : run[s].through \in 0..MaxClock
      /\ clock \in 0..MaxClock /\ 0..MaxClock \subseteq Nat
  BY <1>0, GovernanceConstants DEF GovernanceColumns, RunRows
<1>6. GovernanceTypeOK'
  <2>1. \A o \in Occurrences : obligation'[o] \in ObligationStates
    BY <1>0, <1>1 DEF GovernanceColumns, ObligationStates
  <2>2. obligation' \in [Occurrences -> ObligationStates] /\ cursor' \in [Cadences -> 0..MaxClock]
    BY <1>1, <1>5, <2>1
  <2>3. GovernanceColumns'
    BY <1>0, <1>1, <1>3, <2>2 DEF GovernanceColumns
  <2> QED BY <2>3 DEF GovernanceTypeOK, GovernanceColumns, RunRows, Steps, ObligationStates,
                      Occurrences
<1>7. OneStep'
  <2>1. \A v \in Governors : governor'[v] = Governing
    BY <1>0, <1>1
  <2> QED BY <2>1, GovernanceConstants DEF OneStep, Working
<1>8. \A c \in Cadences : /\ cursor[c] <= run[r].through
                          /\ cursor'[c] = IF c \in CursorsMoved(r) THEN run[r].through ELSE cursor[c]
  BY <1>0, <1>1 DEF GovernanceInv, CursorsBehind
<1>9. \A c \in Cadences : cursor'[c] >= cursor[c] /\ cursor'[c] <= run[r].through
  BY <1>5, <1>8
<1>10. /\ r \in Runs /\ \A s \in Runs : /\ run'[s].state = "absent" <=> run[s].state = "absent"
                                        /\ run'[s].through = run[s].through
                                        /\ run'[s].kind = run[s].kind
                                        /\ run'[s].phase = run[s].phase
  BY <1>0, <1>2, <1>3
<1>11. RunsInOrder'
  <2>1. \A s \in Runs : run'[s].state = "completed" => run'[s].phase = "finalize"
    BY <1>2, <1>3 DEF GovernanceInv, RunsInOrder
  <2> QED BY <1>1, <1>4, <1>10, <2>1 DEF GovernanceInv, RunsInOrder
<1>12. CursorsBehind'
  <2>1. run'[r].state # "absent" /\ run'[r].through = run[r].through /\ run[r].through <= clock
    BY <1>0, <1>10 DEF GovernanceInv, RunsInOrder
  <2>2. \A c \in Cadences : cursor'[c] <= run'[r].through
    BY <1>9, <2>1
  <2>3. \A c \in Cadences : cursor'[c] <= clock' /\ cursor'[c] \in Nat
    BY <1>1, <1>5, <1>8, <2>1
  <2> QED BY <1>4, <1>10, <2>1, <2>2, <2>3 DEF CursorsBehind
<1>13. PagesFrozen'
  <2>1. \A key \in PageKeys : LeftBehind(key[1], key[2])' = LeftBehind(key[1], key[2])
    BY <1>10, Keys DEF LeftBehind
  <2> QED BY <1>1, <1>10, <2>1, Keys DEF GovernanceInv, PagesFrozen
<1>14. Answered'
  BY <1>4 DEF Answered
<1>15. ASSUME NEW c \in Cadences, NEW t \in 1..MaxClock, c = "weekly" \/ t % 2 = 1,
              t <= cursor'[c]
       PROVE  obligation'[<<c, t>>] = "satisfied"
  <2>0. t \in Nat /\ cursor'[c] \in Nat /\ run[r].through \in Nat /\ cursor'[c] <= run[r].through
    BY <1>5, <1>8, <1>9, <1>15, GovernanceConstants
  <2>a. t <= run[r].through
    BY <1>15, <2>0
  <2>1. <<c, t>> \in Occurrences /\ t \in Nat /\ t <= run[r].through /\ <<c, t>>[2] = t
    BY <1>15, <2>0, <2>a DEF Occurrences
  <2>2. obligation[<<c, t>>] \in {"linked", "satisfied"}
    BY <1>0, <1>15, <2>1 DEF GovernanceInv, Answered
  <2>3. obligation'[<<c, t>>] = IF obligation[<<c, t>>] = "linked" /\ <<c, t>>[2] <= run[r].through
                                THEN "satisfied" ELSE obligation[<<c, t>>]
    BY <1>1, <2>1, Zenon
  <2> QED BY <2>1, <2>2, <2>3
<1>16. ASSUME NEW m \in Governed, knowledge[m].by # "governance", 0 < knowledge[m].revised,
              knowledge[m].revised <= cursor'["weekly"]
       PROVE  \E s \in Runs, c \in Cadences :
                /\ run[s].phase = "finalize" /\ page[<<s, c, m>>].state = "applied"
                /\ page[<<s, c, m>>].revision >= knowledge[m].revision
  <2>0. "weekly" \in Cadences /\ knowledge[m].revised \in Nat /\ knowledge[m].revision \in Nat \ {0}
    BY <1>0, GovernanceConstants DEF Cadences, GovernanceColumns, KnowledgeRows
  <2>1. CASE knowledge[m].revised <= cursor["weekly"]
    BY <1>16, <2>1 DEF GovernanceInv, CoverageComplete
  <2>2. CASE ~ (knowledge[m].revised <= cursor["weekly"])
    <3>1. cursor["weekly"] < knowledge[m].revised
      BY <1>5, <2>0, <2>2
    <3>2. "weekly" \in CursorsMoved(r)
      BY <1>8, <1>16, <2>0, <2>2
    <3>3. run[r].weekly
      BY <3>2 DEF CursorsMoved
    <3>4. knowledge[m].revised <= run[r].through
      BY <1>8, <1>16, <2>0, <3>2
    <3>5. page[<<r, "weekly", m>>].revision = knowledge[m].revision
      BY <1>0, <1>16, <3>1, <3>3, <3>4 DEF GovernanceInv, Answered
    <3>6. page[<<r, "weekly", m>>].state = "applied"
      <4>1. <<r, "weekly", m>> \in PageKeys /\ <<r, "weekly", m>>[1] = r
        BY <1>10, <2>0, Keys
      <4>2. LeftBehind(r, "weekly")
        BY <1>0 DEF LeftBehind
      <4> QED BY <2>0, <3>5, <4>1, <4>2 DEF GovernanceInv, PagesFrozen
    <3> QED BY <1>0, <1>10, <2>0, <3>5, <3>6
  <2> QED BY <2>1, <2>2
<1>17. CoverageComplete'
  <2>1. ASSUME NEW m \in Governed, knowledge'[m].by # "governance", 0 < knowledge'[m].revised,
               knowledge'[m].revised <= cursor'["weekly"]
        PROVE  \E s \in Runs, c \in Cadences :
                /\ run'[s].phase = "finalize" /\ page'[<<s, c, m>>].state = "applied"
                /\ page'[<<s, c, m>>].revision >= knowledge'[m].revision
    <3>1. /\ m \in Governed /\ knowledge[m].by # "governance" /\ 0 < knowledge[m].revised
          /\ knowledge[m].revised <= cursor'["weekly"]
      BY <1>1, <2>1
    <3>2. PICK s \in Runs, c \in Cadences :
            /\ run[s].phase = "finalize" /\ page[<<s, c, m>>].state = "applied"
            /\ page[<<s, c, m>>].revision >= knowledge[m].revision
      BY <1>16, <3>1
    <3>3. run'[s].phase = "finalize"
      BY <1>10, <3>2
    <3> QED BY <1>1, <3>2, <3>3
  <2> QED BY <1>15, <2>1 DEF CoverageComplete
<1> QED BY <1>6, <1>7, <1>9, <1>11, <1>12, <1>13, <1>14, <1>17 DEF GovernanceInv

\* A new run answers what is due, and freezes what changed since the weekly cursor.
LEMMA RunScheduled ==
  ASSUME GovernanceInv, NEW r \in Runs, ScheduleRun(r)
  PROVE  GovernanceInv'
<1>0. GovernanceColumns /\ UnfinishedRuns = {} /\ run[r].state = "absent"
      /\ \A s \in Runs : s < r => run[s].state # "absent"
  BY GovernanceTypes DEF ScheduleRun, GovernanceInv
<1> DEFINE due(c) == \E t \in 1..MaxClock : Recorded[<<c, t>>] = "pending"
           kind == IF due("monthly") THEN "monthly" ELSE "weekly"
           d == [state |-> "pending", kind |-> kind, weekly |-> due("weekly"),
                 phase |-> IF due("weekly") THEN "weekly" ELSE "monthly", through |-> clock]
<1>1. /\ due("weekly") \/ due("monthly")
      /\ obligation' = [o \in Occurrences |-> IF Recorded[o] = "pending" THEN "linked" ELSE Recorded[o]]
      /\ run' = [run EXCEPT ![r] = d]
      /\ page' = [k \in PageKeys |->
                        IF k[1] = r /\ Member(k[2], kind, due("weekly"), k[3])
                        THEN [NoPage EXCEPT !.revision = knowledge[k[3]].revision] ELSE page[k]]
      /\ UNCHANGED <<clock, cursor, ledger, knowledge, governor>>
  <2>1. DOMAIN obligation = Occurrences
    BY <1>0 DEF GovernanceColumns
  <2> QED BY <2>1 DEF ScheduleRun
<1>2. /\ d \in RunRows /\ d.state = "pending" /\ d.kind = kind /\ d.weekly = due("weekly")
      /\ d.through = clock /\ d.phase = IF due("weekly") THEN "weekly" ELSE "monthly"
  BY <1>0 DEF RunRows, Cadences, GovernanceColumns
<1>3. due("weekly") \in BOOLEAN /\ (~ due("weekly") => kind = "monthly")
  BY <1>1
<1> HIDE DEF d, kind, due
<1>4. /\ run' \in [Runs -> RunRows] /\ run'[r] = d /\ \A s \in Runs : s # r => run'[s] = run[s]
  BY <1>0, <1>1, <1>2 DEF GovernanceColumns
<1>5. UnfinishedRuns' = {r}
  BY <1>0, <1>2, <1>4 DEF UnfinishedRuns
<1>6. /\ clock \in Nat /\ \A c \in Cadences : cursor[c] \in Nat
      /\ \A s \in Runs : run[s].through \in Nat
      /\ \A m \in Governed : knowledge[m].revised \in Nat /\ knowledge[m].revision \in 1..MaxGoverned
  BY <1>0, GovernanceConstants DEF GovernanceColumns, RunRows, KnowledgeRows
<1>7. /\ Recorded \in [Occurrences -> ObligationStates]
      /\ \A o \in Occurrences : /\ obligation[o] # "absent" => Recorded[o] = obligation[o]
                                /\ o[2] \in DueOccurrences(o[1]) => Recorded[o] # "absent"
  <2>1. DOMAIN obligation = Occurrences /\ \A o \in Occurrences : obligation[o] \in ObligationStates
    BY <1>0 DEF GovernanceColumns
  <2> QED BY <2>1 DEF Recorded, ObligationStates
<1>8. /\ obligation' \in [Occurrences -> ObligationStates]
      /\ \A o \in Occurrences : /\ obligation[o] = "satisfied" => obligation'[o] = "satisfied"
                                /\ Recorded[o] # "absent" => obligation'[o] \in {"linked", "satisfied"}
  BY <1>1, <1>7 DEF ObligationStates
<1>9. \A key \in PageKeys :
        \/ /\ key[1] = r /\ Member(key[2], kind, due("weekly"), key[3])
           /\ page'[key].revision = knowledge[key[3]].revision /\ page'[key].state = "absent"
           /\ page'[key] \in PageRows
        \/ /\ key[1] # r \/ ~ Member(key[2], kind, due("weekly"), key[3])
           /\ page'[key] = page[key] /\ page'[key] \in PageRows
  <2> SUFFICES ASSUME NEW key \in PageKeys
               PROVE  \/ /\ key[1] = r /\ Member(key[2], kind, due("weekly"), key[3])
                         /\ page'[key].revision = knowledge[key[3]].revision
                         /\ page'[key].state = "absent" /\ page'[key] \in PageRows
                      \/ /\ key[1] # r \/ ~ Member(key[2], kind, due("weekly"), key[3])
                         /\ page'[key] = page[key] /\ page'[key] \in PageRows
    OBVIOUS
  <2> DEFINE revision == knowledge[key[3]].revision
             p == [NoPage EXCEPT !.revision = revision]
  <2>1. revision \in 0..MaxGoverned
    BY <1>6, Keys, GovernanceConstants
  <2>2. p \in PageRows /\ p.revision = revision /\ p.state = "absent"
    BY <2>1, GovernanceConstants DEF PageRows
  <2>3. page'[key] = IF key[1] = r /\ Member(key[2], kind, due("weekly"), key[3]) THEN p ELSE page[key]
    BY <1>1
  <2>4. page[key] \in PageRows
    BY <1>0 DEF GovernanceColumns
  <2> HIDE DEF p, revision
  <2> QED BY <2>2, <2>3, <2>4 DEF revision
<1>10. GovernanceTypeOK'
  <2>1. page' \in [PageKeys -> PageRows]
    BY <1>1, <1>9
  <2>2. GovernanceColumns'
    BY <1>0, <1>1, <1>4, <1>8, <2>1 DEF GovernanceColumns
  <2> QED BY <2>2 DEF GovernanceTypeOK, GovernanceColumns, RunRows, Steps, ObligationStates,
                      Occurrences
<1>11. OneStep'
  <2>1. \A w \in Governors : governor[w] = Governing
    BY <1>0 DEF GovernanceInv, OneStep, Working
  <2> QED BY <1>1, <2>1, GovernanceConstants DEF OneStep, Working
<1>12. \A s \in Runs : s > r => run[s].state = "absent"
  BY <1>0 DEF GovernanceInv, RunsInOrder
<1>13. RunsInOrder'
  <2>1. \A s \in Runs : run[s].state # "absent" \/ s = r => s <= r
    BY <1>12, GovernanceConstants
  <2>2. \A s \in Runs : run'[s].state # "absent" <=> (run[s].state # "absent" \/ s = r)
    BY <1>2, <1>4
  <2>3. \A q, s \in Runs : s < q /\ run'[q].state # "absent" => run'[s].state # "absent"
    BY <1>0, <2>2, GovernanceConstants DEF GovernanceInv, RunsInOrder
  <2>4. \A s \in Runs : run'[s].state # "absent" => run'[s].through <= clock
    BY <1>2, <1>4, <1>6 DEF GovernanceInv, RunsInOrder
  <2>5. \A s \in Runs : run'[s].state = "completed" => run'[s].phase = "finalize"
    BY <1>2, <1>4 DEF GovernanceInv, RunsInOrder
  <2>6. run'[r].phase # "finalize"
    BY <1>2, <1>4
  <2> QED BY <1>1, <1>5, <2>1, <2>2, <2>3, <2>4, <2>5, <2>6 DEF RunsInOrder
<1>14. CursorsBehind'
  <2>1. \A c \in Cadences : cursor[c] <= clock
    BY DEF GovernanceInv, CursorsBehind
  <2>2. run'[r].through = clock /\ run'[r].state # "absent"
    BY <1>2, <1>4
  <2> QED BY <1>1, <1>5, <2>1, <2>2 DEF CursorsBehind
<1>15. PagesFrozen'
  <2> SUFFICES ASSUME NEW key \in PageKeys
               PROVE  /\ page'[key].revision = 0 => page'[key].state = "absent"
                      /\ page'[key].revision # 0 =>
                           /\ run'[key[1]].state # "absent"
                           /\ key[2] = "monthly" => run'[key[1]].kind = "monthly"
                           /\ LeftBehind(key[1], key[2])' => page'[key].state = "applied"
    BY DEF PagesFrozen, LeftBehind
  <2>1. key[1] \in Runs /\ key[2] \in Cadences /\ key[3] \in Governed
    BY Keys
  <2>2. CASE key[1] # r
    <3>1. run'[key[1]] = run[key[1]] /\ page'[key] = page[key]
      BY <1>4, <1>9, <2>1, <2>2
    <3> QED BY <3>1 DEF GovernanceInv, PagesFrozen, LeftBehind
  <2>3. CASE key[1] = r /\ Member(key[2], kind, due("weekly"), key[3])
    <3>1. page'[key].state = "absent" /\ page'[key].revision # 0
      BY <1>6, <1>9, <2>1, <2>3
    <3>2. key[2] = "monthly" => kind = "monthly"
      BY <2>1, <2>3 DEF Member
    <3>3. key[2] = "weekly" => due("weekly")
      BY <2>3 DEF Member
    <3>4. ~ LeftBehind(r, key[2])'
      BY <1>2, <1>4, <3>3 DEF LeftBehind
    <3> QED BY <1>2, <1>4, <2>3, <3>1, <3>2, <3>4
  <2>4. CASE key[1] = r /\ ~ Member(key[2], kind, due("weekly"), key[3])
    <3>1. page'[key] = page[key] /\ page[key].revision = 0 /\ page[key].state = "absent"
      BY <1>0, <1>9, <2>4 DEF GovernanceInv, PagesFrozen
    <3> QED BY <3>1
  <2> QED BY <2>2, <2>3, <2>4
<1>16. Answered'
  <2>1. ASSUME NEW c \in Cadences, NEW t \in 1..MaxClock, c = "weekly" \/ t % 2 = 1, t <= clock
        PROVE  obligation'[<<c, t>>] \in {"linked", "satisfied"}
    <3>0. <<c, t>> \in Occurrences /\ <<c, t>>[1] = c /\ <<c, t>>[2] = t /\ t \in Nat
          /\ cursor[c] \in Nat
      BY <1>6, GovernanceConstants DEF Occurrences
    <3>1. CASE t <= cursor[c]
      <4>1. obligation[<<c, t>>] = "satisfied"
        BY <2>1, <3>1 DEF GovernanceInv, CoverageComplete
      <4> QED BY <1>8, <3>0, <4>1
    <3>2. CASE ~ (t <= cursor[c])
      <4>1. t \in cursor[c] + 1 .. clock
        BY <1>6, <2>1, <3>0, <3>2
      <4>2. t \in DueOccurrences(c)
        BY <2>1, <4>1 DEF DueOccurrences
      <4>3. Recorded[<<c, t>>] # "absent"
        BY <1>7, <3>0, <4>2
      <4> QED BY <1>8, <3>0, <4>3
    <3> QED BY <3>1, <3>2
  <2>2. ASSUME due("weekly"), NEW m \in Governed, cursor["weekly"] < knowledge[m].revised
        PROVE  page'[<<r, "weekly", m>>].revision = knowledge[m].revision
    <3>0. /\ <<r, "weekly", m>> \in PageKeys /\ <<r, "weekly", m>>[1] = r
          /\ <<r, "weekly", m>>[2] = "weekly" /\ <<r, "weekly", m>>[3] = m
      BY Keys DEF Cadences
    <3>1. Member("weekly", kind, due("weekly"), m)
      BY <1>6, <2>2 DEF Member, Cadences
    <3> QED BY <1>9, <3>0, <3>1
  <2>3. run'[r].through = clock /\ run'[r].weekly = due("weekly")
    BY <1>2, <1>4
  <2> QED BY <1>1, <1>5, <2>1, <2>2, <2>3 DEF Answered
<1>17. CoverageComplete'
  <2>1. ASSUME NEW m \in Governed, knowledge[m].by # "governance", 0 < knowledge[m].revised,
               knowledge[m].revised <= cursor["weekly"]
        PROVE  \E s \in Runs, c \in Cadences :
                /\ run'[s].phase = "finalize" /\ page'[<<s, c, m>>].state = "applied"
                /\ page'[<<s, c, m>>].revision >= knowledge[m].revision
    <3>1. PICK s \in Runs, c \in Cadences :
            /\ run[s].phase = "finalize" /\ page[<<s, c, m>>].state = "applied"
            /\ page[<<s, c, m>>].revision >= knowledge[m].revision
      BY <2>1 DEF GovernanceInv, CoverageComplete
    <3>2. <<s, c, m>> \in PageKeys /\ <<s, c, m>>[1] = s
      BY Keys
    <3>3. s # r
      BY <1>0, <3>1, <3>2 DEF GovernanceInv, PagesFrozen
    <3>4. run'[s] = run[s] /\ page'[<<s, c, m>>] = page[<<s, c, m>>]
      BY <1>4, <1>9, <3>2, <3>3
    <3> QED BY <3>1, <3>4
  <2>2. ASSUME NEW c \in Cadences, NEW t \in 1..MaxClock, c = "weekly" \/ t % 2 = 1, t <= cursor[c]
        PROVE  obligation'[<<c, t>>] = "satisfied"
    <3>1. <<c, t>> \in Occurrences
      BY DEF Occurrences
    <3> QED BY <1>8, <2>2, <3>1 DEF GovernanceInv, CoverageComplete
  <2> QED BY <1>1, <2>1, <2>2 DEF CoverageComplete
<1> QED BY <1>10, <1>11, <1>13, <1>14, <1>15, <1>16, <1>17 DEF GovernanceInv


\* Every step keeps the invariant and moves no cursor back.
LEMMA GovernanceStep ==
  ASSUME OneGovernance, GovernanceInv, [GovernanceNext]_governanceVars
  PROVE  GovernanceInv' /\ \A c \in Cadences : cursor'[c] >= cursor[c]
<1>0. \A c \in Cadences : cursor[c] \in Int
  BY GovernanceTypes, GovernanceConstants DEF GovernanceInv, GovernanceColumns
<1>1. CASE GovernanceTick \/ RecordOccurrences
  BY <1>0, <1>1, ClockTicks DEF GovernanceTick, RecordOccurrences
<1>2. ASSUME NEW m \in Governed, KnowledgeRevised(m) PROVE GovernanceInv' /\ UNCHANGED cursor
  BY <1>2, Revised DEF KnowledgeRevised
<1>3. ASSUME NEW r \in Runs, ScheduleRun(r) PROVE GovernanceInv' /\ UNCHANGED cursor
  BY <1>3, RunScheduled DEF ScheduleRun
<1>4. ASSUME NEW w \in Governors, NEW r \in Runs,
             AdvancePhase(w, r) \/ ClaimPage(w, r) \/ ReadCovered(w, r)
      PROVE  GovernanceInv' /\ UNCHANGED cursor
  BY <1>4, PhaseAdvances, PageClaimed, StepMoves DEF AdvancePhase, ClaimPage, ReadCovered
<1>5. ASSUME NEW w \in Governors,
             \/ PageReviewed(w) \/ PageFailed(w) \/ SuccessNotRecorded(w) \/ PageApplied(w)
             \/ ActOnTarget(w) \/ RecordAction(w) \/ StepAborted(w)
      PROVE  GovernanceInv' /\ UNCHANGED cursor
  BY <1>5, ReviewEnds, ActedOnTarget, StepMoves
     DEF PageReviewed, PageFailed, SuccessNotRecorded, PageApplied, ActOnTarget, RecordAction,
         StepAborted
<1>6. ASSUME NEW key \in PageKeys, PageLeaseExpires(key) PROVE GovernanceInv' /\ UNCHANGED cursor
  BY <1>6, LeaseExpires DEF PageLeaseExpires
<1>7. CASE UNCHANGED governanceVars
  <2>1. GovernanceTypeOK' /\ CoverageComplete' /\ Answered'
    <3>1. UNCHANGED <<clock, cursor, obligation, run, page, ledger, knowledge, governor>>
      BY <1>7 DEF governanceVars
    <3>2. GovernanceColumns'
      BY <3>1, GovernanceTypes DEF GovernanceInv, GovernanceColumns
    <3>3. GovernanceTypeOK'
      BY <3>2 DEF GovernanceTypeOK, GovernanceColumns, RunRows, Steps, ObligationStates,
                  Occurrences
    <3>4. CoverageComplete'
      BY <3>1 DEF GovernanceInv, CoverageComplete
    <3>5. Answered'
      BY <3>1 DEF GovernanceInv, Answered, UnfinishedRuns
    <3> QED BY <3>3, <3>4, <3>5
  <2>2. OneStep' /\ clock <= clock'
    BY <1>7, SameSteps, GovernanceTypes, GovernanceConstants
       DEF governanceVars, GovernanceInv, GovernanceColumns
  <2> QED BY <1>0, <1>7, <2>1, <2>2, AroundRuns DEF governanceVars
<1>8. CASE GovernanceNext
  BY <1>0, <1>1, <1>2, <1>3, <1>4, <1>5, <1>6, <1>8, RunFinalized DEF GovernanceNext
<1> QED BY <1>7, <1>8

\* A step changes at most one run, and not one that is finished.
LEMMA FinishedRunStays ==
  ASSUME OneGovernance, GovernanceInv, [GovernanceNext]_governanceVars
  PROVE  \A r \in Runs : run[r].state = "completed" => run'[r].state = "completed"
<1>0. GovernanceColumns
  BY GovernanceTypes DEF GovernanceInv
<1>1. ASSUME NEW r \in Runs, run[r].state # "completed", \A s \in Runs \ {r} : run'[s] = run[s]
      PROVE  \A s \in Runs : run[s].state = "completed" => run'[s].state = "completed"
  BY <1>1
<1>2. ASSUME NEW w \in Governors, NEW r \in Runs,
             AdvancePhase(w, r) \/ ClaimPage(w, r) \/ FinalizeRun(w, r)
      PROVE  run[r].state # "completed" /\ \A s \in Runs \ {r} : run'[s] = run[s]
  <2>1. r \in UnfinishedRuns
    BY <1>2, TakesUp DEF AdvancePhase, ClaimPage, FinalizeRun
  <2> QED BY <1>0, <1>2, <2>1
          DEF AdvancePhase, ClaimPage, FinalizeRun, UnfinishedRuns, GovernanceColumns
<1>3. ASSUME NEW w \in Governors, PageFailed(w) \/ SuccessNotRecorded(w)
      PROVE  LET r == governor[w].key[1]
             IN r \in Runs /\ run[r].state # "completed" /\ \A s \in Runs \ {r} : run'[s] = run[s]
  <2>1. governor[w].key[1] \in UnfinishedRuns
    BY <1>3, WorksAlone DEF PageFailed, SuccessNotRecorded
  <2> QED BY <1>0, <1>3, <2>1
          DEF PageFailed, SuccessNotRecorded, UnfinishedRuns, GovernanceColumns
<1>4. ASSUME NEW r \in Runs, ScheduleRun(r)
      PROVE  run[r].state # "completed" /\ \A s \in Runs \ {r} : run'[s] = run[s]
  <2>1. PICK d : run' = [run EXCEPT ![r] = d]
    BY <1>4 DEF ScheduleRun
  <2> QED BY <1>0, <1>4, <2>1 DEF ScheduleRun, GovernanceColumns
<1>5. CASE \/ GovernanceTick \/ RecordOccurrences
           \/ \E m \in Governed : KnowledgeRevised(m)
           \/ \E w \in Governors, r \in Runs : ReadCovered(w, r)
           \/ \E w \in Governors : \/ PageReviewed(w) \/ ActOnTarget(w) \/ RecordAction(w)
                                   \/ PageApplied(w) \/ StepAborted(w)
           \/ \E key \in PageKeys : PageLeaseExpires(key)
           \/ UNCHANGED governanceVars
  <2>1. run' = run
    BY <1>5 DEF GovernanceTick, RecordOccurrences, KnowledgeRevised, ReadCovered, PageReviewed,
                ActOnTarget, RecordAction, PageApplied, StepAborted, PageLeaseExpires,
                governanceVars
  <2> QED BY <2>1
<1> QED BY <1>1, <1>2, <1>3, <1>4, <1>5 DEF GovernanceNext

\* Only the application of a page writes for governance, on the revision that the page
\* froze or on one that its run wrote.
LEMMA ReviewedIsActedOn ==
  ASSUME GovernanceInv, [GovernanceNext]_governanceVars, NEW m \in Governed,
         knowledge'[m].revision # knowledge[m].revision, knowledge'[m].by = "governance"
  PROVE  \/ \E key \in PageKeys : /\ key[3] = m /\ key[1] = knowledge'[m].chain
                                  /\ page[key].revision = knowledge[m].revision
         \/ knowledge[m].chain = knowledge'[m].chain
<1>0. GovernanceColumns
  BY GovernanceTypes DEF GovernanceInv
<1>1. PICK w \in Governors : ActOnTarget(w)
  <2>1. ASSUME NEW n \in Governed, KnowledgeRevised(n) PROVE FALSE
    <3>1. PICK writer \in {"agent", "owner"}, archived \in {FALSE, knowledge[n].archived} :
            knowledge' = [knowledge EXCEPT ![n].revision = @ + 1, ![n].by = writer,
                                           ![n].archived = archived, ![n].revised = clock]
      BY <2>1 DEF KnowledgeRevised
    <3>2. knowledge \in [Governed -> KnowledgeRows] /\ knowledge[n] \in KnowledgeRows
      BY <1>0 DEF GovernanceColumns
    <3>3. n = m
      BY <3>1, <3>2
    <3> QED BY <3>1, <3>2, <3>3 DEF KnowledgeRows
  <2>2. CASE \/ GovernanceTick \/ RecordOccurrences
             \/ \E r \in Runs : ScheduleRun(r)
             \/ \E v \in Governors, r \in Runs :
                  AdvancePhase(v, r) \/ ClaimPage(v, r) \/ ReadCovered(v, r) \/ FinalizeRun(v, r)
             \/ \E v \in Governors : \/ PageReviewed(v) \/ PageFailed(v) \/ SuccessNotRecorded(v)
                                     \/ RecordAction(v) \/ PageApplied(v) \/ StepAborted(v)
             \/ \E key \in PageKeys : PageLeaseExpires(key)
             \/ UNCHANGED governanceVars
    <3>1. knowledge' = knowledge
      BY <2>2 DEF GovernanceTick, RecordOccurrences, ScheduleRun, AdvancePhase, ClaimPage,
                  ReadCovered, FinalizeRun, PageReviewed, PageFailed, SuccessNotRecorded,
                  RecordAction, PageApplied, StepAborted, PageLeaseExpires, governanceVars
    <3> QED BY <3>1
  <2> QED BY <2>1, <2>2 DEF GovernanceNext
<1> DEFINE key == governor[w].key
<1>2. key \in PageKeys /\ key[3] \in Governed
  BY <1>1, WorksAlone, Keys DEF ActOnTarget
<1>3. /\ OnKnownRevision(key)
      /\ knowledge' = [knowledge EXCEPT ![key[3]] = ActedOn(knowledge[key[3]], key)]
  BY <1>1 DEF ActOnTarget
<1>4. key[3] = m /\ knowledge'[m] = ActedOn(knowledge[m], key)
  BY <1>0, <1>2, <1>3 DEF GovernanceColumns
<1>5. knowledge[m] \in KnowledgeRows
  BY <1>0 DEF GovernanceColumns
<1>6. knowledge'[m].chain = key[1]
  BY <1>4, <1>5 DEF ActedOn, KnowledgeRows
<1> QED BY <1>2, <1>3, <1>4, <1>6 DEF OnKnownRevision

\* Scheduled governance, one Worker at a time (src/src/governance/worker.ts): the step in
\* progress works on a page its run still has to review, the unfinished run answers every
\* occurrence and froze every change before its time, and no page is left behind.
THEOREM GovernanceInvariant ==
  ASSUME OneGovernance
  PROVE  GovernanceSpec => []GovernanceInv
<1>1. GovernanceInv /\ [GovernanceNext]_governanceVars => GovernanceInv'
  BY GovernanceStep
<1> QED BY <1>1, GovernanceStarts, PTL DEF GovernanceSpec

\* A run is finished only with all its pages applied (finalizeRun); what a cursor has
\* passed is satisfied and was frozen by a run; governance replaces only a revision that
\* was reviewed or that the same run wrote (applyAgentAction); a finished run stays so,
\* and no cursor moves back.
THEOREM GovernanceKeptAlways ==
  ASSUME OneGovernance
  PROVE  GovernanceSpec => GovernanceKept
<1>1. GovernanceInv => FinishedIsReviewed /\ CoverageComplete
  <2>1. GovernanceInv => FinishedIsReviewed
    BY Keys DEF GovernanceInv, RunsInOrder, PagesFrozen, LeftBehind, FinishedIsReviewed
  <2> QED BY <2>1 DEF GovernanceInv
<1>2. GovernanceInv /\ [GovernanceNext]_governanceVars =>
        [\A m \in Governed :
           knowledge'[m].revision # knowledge[m].revision /\ knowledge'[m].by = "governance" =>
             \/ \E key \in PageKeys : key[3] = m /\ key[1] = knowledge'[m].chain
                                      /\ page[key].revision = knowledge[m].revision
             \/ knowledge[m].chain = knowledge'[m].chain]_governanceVars
  BY ReviewedIsActedOn
<1>3. GovernanceInv /\ [GovernanceNext]_governanceVars =>
        [\A r \in Runs : run[r].state = "completed" => run'[r].state = "completed"]_governanceVars
  BY FinishedRunStays
<1>4. GovernanceInv /\ [GovernanceNext]_governanceVars =>
        [\A c \in Cadences : cursor'[c] >= cursor[c]]_governanceVars
  BY GovernanceStep
<1>5. GovernanceSpec => ActsOnReviewed
  BY <1>2, GovernanceInvariant, PTL DEF GovernanceSpec, ActsOnReviewed
<1>6. GovernanceSpec => FinishedStays
  BY <1>3, GovernanceInvariant, PTL DEF GovernanceSpec, FinishedStays
<1>7. GovernanceSpec => CursorsAdvance
  BY <1>4, GovernanceInvariant, PTL DEF GovernanceSpec, CursorsAdvance
<1>8. GovernanceSpec => []FinishedIsReviewed /\ []CoverageComplete
  BY <1>1, GovernanceInvariant, PTL
<1> QED BY <1>5, <1>6, <1>7, <1>8 DEF GovernanceKept

-----------------------------------------------------------------------------
(* Dreaming                                                                  *)

(***************************************************************************)
(* A run that selects has claimed nothing yet; what it claims it reads, as   *)
(* long as the selection cannot die half way.                               *)
(***************************************************************************)
SegmentsRead ==
    SelectDies = FALSE =>
      /\ \A r \in DreamIds, s \in DreamSessions :
           dream[r] \in {"absent", "select"} => segment[s].run # r /\ chunk[<<r, s>>] = "absent"
      /\ ClaimedIsRead

\* A run has no candidate before it extracts; an item is kept under one of its members.
CandidatesMerged ==
    /\ \A r \in DreamIds : dream[r] \in {"absent", "select"} => CandidatesOf(r) = {}
    /\ \A k \in ItemIds : item[k].members # {} => k[2] \in item[k].members
    /\ EachInOneItem

\* Two memories that dreaming wrote do not state the same; one that is not there yet is empty.
MemoriesDiffer ==
    /\ \A m, n \in DreamedIds :
         m # n /\ remembered[m].listed /\ remembered[n].listed
           /\ remembered[m].statement = remembered[n].statement => remembered[m].statement = "merged"
    /\ \A m \in DreamedIds : remembered[m].state = "absent" =>
         remembered[m].facts = {} /\ ~ remembered[m].human

(***************************************************************************)
(* The batch has one decision for each claim; no memory states yet what it   *)
(* still writes, and what it still revises has the text it has read.         *)
(***************************************************************************)
DecisionsHold ==
    /\ dreamer.done \subseteq {d.claim : d \in dreamer.decided}
    /\ \A d, e \in dreamer.decided : d.claim = e.claim => d = e
    /\ \A d \in dreamer.decided :
         /\ d.what \in {"refines", "conflicts", "review_due"} => d.target \in DreamedIds
         /\ d.claim \notin dreamer.done /\ d.what \in {"written", "refines", "conflicts"} =>
              \A m \in KnownAs(d.claim) : d.claim = "merged"
         /\ d.claim \notin dreamer.done /\ d.what \in {"refines", "conflicts"}
              /\ d.target \notin dreamer.revised =>
              /\ remembered[d.target].facts = d.read
              /\ remembered[d.target].state # "absent"

DreamInv ==
    /\ DreamingTypeOK /\ SegmentsRead /\ CandidatesMerged /\ EndedIsApplied /\ MemoriesDiffer
    /\ DecisionsHold

LEMMA DreamingStarts == DreamingInit => DreamInv
<1> SUFFICES ASSUME DreamingInit PROVE DreamInv
  OBVIOUS
<1> USE DreamingAssumption
<1>1. DreamingTypeOK
  <2>1. PICK k \in Known : remembered = [m \in DreamedIds |->
          IF m = 1 THEN [NoMemory EXCEPT !.state = "active", !.facts = {k}, !.statement = k,
                                         !.listed = TRUE]
          ELSE NoMemory]
    BY DEF DreamingInit
  <2>2. remembered \in [DreamedIds ->
          [state: {"absent", "active", "archived"}, facts: SUBSET Statements,
           statement: Statements \cup {"merged"}, human: BOOLEAN, review: BOOLEAN,
           listed: BOOLEAN]]
    BY <2>1 DEF NoMemory, Statements
  <2>3. dreamer \in [run: 0..MaxDreams, decided: SUBSET Decision, done: SUBSET Claims,
                     revised: SUBSET DreamedIds]
    BY DEF DreamingInit, NoBatch
  <2>4. item \in [ItemIds ->
         [progress: {"absent", "merged", "prepared", "verified", "negative", "defended"},
          members: SUBSET Claims, tier: {"none", "inject", "review", "other"},
          applied: {"none", "pending", "failed"} \cup Verdicts]]
    BY DEF DreamingInit, NoItem
  <2> QED BY <2>2, <2>3, <2>4 DEF DreamingInit, DreamingTypeOK, DreamIds
<1>2. SegmentsRead
  BY DEF DreamingInit, SegmentsRead, ClaimedIsRead, DreamIds
<1>3. CandidatesMerged /\ EndedIsApplied
  <2>1. \A k \in ItemIds : item[k].members = {} /\ item[k].applied = "none"
    BY DEF DreamingInit, NoItem
  <2>2. \A r \in DreamIds, c \in Claims : <<r, c>> \in ItemIds
    BY DEF ItemIds
  <2> QED BY <2>1, <2>2 DEF DreamingInit, CandidatesMerged, EndedIsApplied, EachInOneItem,
             CandidatesOf, Unassigned, Queued, ItemIds
<1>4. MemoriesDiffer
  BY DEF DreamingInit, MemoriesDiffer, NoMemory
<1>5. DecisionsHold
  BY DEF DreamingInit, DecisionsHold, NoBatch
<1> QED BY <1>1, <1>2, <1>3, <1>4, <1>5 DEF DreamInv

LEMMA SegmentsStep ==
  ASSUME DreamInv, DreamingNext PROVE SegmentsRead'
<1> SUFFICES ASSUME SelectDies = FALSE
             PROVE  /\ \A q \in DreamIds, t \in DreamSessions :
                         dream'[q] \in {"absent", "select"} =>
                           segment'[t].run # q /\ chunk'[<<q, t>>] = "absent"
                    /\ ClaimedIsRead'
  BY DEF SegmentsRead
<1> USE DEF DreamInv
<1>a. /\ dream \in [DreamIds -> {"absent"} \cup Stages]
      /\ segment \in [DreamSessions -> [run: 0..MaxDreams, through: 0..MaxActivity]]
      /\ chunk \in [DreamIds \X DreamSessions -> {"absent", "pending", "completed", "failed"}]
  BY DEF DreamingTypeOK
<1>b. \A q \in DreamIds, t \in DreamSessions :
        /\ dream[q] \in {"absent", "select"} => segment[t].run # q /\ chunk[<<q, t>>] = "absent"
        /\ segment[t].run = q /\ dream[q] # "select" => chunk[<<q, t>>] # "absent"
        /\ dream[q] \notin {"absent", "select", "extract"} => chunk[<<q, t>>] # "pending"
  BY DEF SegmentsRead, ClaimedIsRead
<1>1. CASE UNCHANGED <<dream, segment, chunk>>
  BY <1>1, <1>b DEF ClaimedIsRead
<1>2. ASSUME NEW r \in DreamIds, ScheduleDream(r) PROVE SegmentsRead'
  BY <1>2, <1>a, <1>b DEF ScheduleDream, Advance, SegmentsRead, ClaimedIsRead
<1>3. ASSUME NEW r \in DreamIds, SelectSessions(r) PROVE SegmentsRead'
  <2>0. PICK quiet \in SUBSET {s \in DreamSessions : QuietSession(s)} :
          \E enqueued \in SUBSET quiet :
            /\ segment' = [s \in DreamSessions |->
                             IF s \in quiet THEN [run |-> r, through |-> activity[s]]
                             ELSE segment[s]]
            /\ chunk' = [k \in DOMAIN chunk |->
                           IF k[1] = r /\ k[2] \in enqueued THEN "pending" ELSE chunk[k]]
            /\ enqueued = quiet
            /\ Advance(r, IF quiet = {} THEN "report" ELSE "extract")
    BY <1>3, Zenon DEF SelectSessions
  <2>1. /\ segment' = [s \in DreamSessions |->
                         IF s \in quiet THEN [run |-> r, through |-> activity[s]]
                         ELSE segment[s]]
        /\ chunk' = [k \in DOMAIN chunk |->
                       IF k[1] = r /\ k[2] \in quiet THEN "pending" ELSE chunk[k]]
        /\ Advance(r, IF quiet = {} THEN "report" ELSE "extract")
    BY <2>0
  <2>2. dream[r] = "select"
    BY <1>3 DEF SelectSessions, Stepping
  <2>3. \A q \in DreamIds : dream'[q] = IF q = r
                                         THEN (IF quiet = {} THEN "report" ELSE "extract")
                                         ELSE dream[q]
    BY <2>1, <1>a DEF Advance
  <2>4. \A q \in DreamIds, t \in DreamSessions :
          /\ segment'[t].run = IF t \in quiet THEN r ELSE segment[t].run
          /\ chunk'[<<q, t>>] = IF q = r /\ t \in quiet THEN "pending" ELSE chunk[<<q, t>>]
    BY <2>1, <1>a
  <2> QED BY <2>2, <2>3, <2>4, <1>b DEF SegmentsRead, ClaimedIsRead
<1>4. ASSUME NEW r \in DreamIds, NEW s \in DreamSessions, ExtractChunk(r, s) \/ ChunkFails(r, s)
      PROVE SegmentsRead'
  <2>1. /\ dream[r] = "extract" /\ chunk[<<r, s>>] = "pending"
        /\ UNCHANGED <<dream, segment>>
    BY <1>4 DEF ExtractChunk, ChunkFails, Stepping, Unread
  <2>2. \E v \in {"pending", "completed", "failed"} : chunk' = [chunk EXCEPT ![<<r, s>>] = v]
    BY <1>4, <2>1 DEF ExtractChunk, ChunkFails
  <2>3. \A q \in DreamIds, t \in DreamSessions :
          IF q = r /\ t = s THEN chunk'[<<q, t>>] \in {"pending", "completed", "failed"}
          ELSE chunk'[<<q, t>>] = chunk[<<q, t>>]
    BY <2>2, <1>a
  <2> QED BY <2>1, <2>3, <1>b DEF SegmentsRead, ClaimedIsRead
<1>5. ASSUME NEW r \in DreamIds, ExtractionDone(r) PROVE SegmentsRead'
  <2>1. dream' = [dream EXCEPT ![r] = "merge"] /\ UNCHANGED <<segment, chunk>>
        /\ dream[r] = "extract" /\ \A t \in DreamSessions : chunk[<<r, t>>] # "pending"
    BY <1>5 DEF ExtractionDone, Advance, Stepping, Unread
  <2> QED BY <2>1, <1>a, <1>b DEF SegmentsRead, ClaimedIsRead
<1>6. ASSUME NEW r \in DreamIds,
             \/ MergeCandidates(r) \/ MergeDone(r) \/ PrepareItems(r) \/ VerifyItems(r)
             \/ DefendItems(r) \/ TierItems(r) \/ CompleteDream(r)
      PROVE SegmentsRead'
  <2>1. /\ UNCHANGED <<segment, chunk>>
        /\ dream[r] \in {"merge", "prepare", "verify", "defend", "tier", "report"}
        /\ \/ UNCHANGED dream
           \/ \E v \in {"prepare", "verify", "defend", "tier", "report", "completed"} :
                dream' = [dream EXCEPT ![r] = v]
    BY <1>6 DEF MergeCandidates, MergeDone, PrepareItems, VerifyItems, DefendItems, JudgeItems,
                TierItems, CompleteDream, Advance, Stepping
  <2> QED BY <2>1, <1>a, <1>b DEF SegmentsRead, ClaimedIsRead
<1> QED
  BY <1>1, <1>2, <1>3, <1>4, <1>5, <1>6
  DEF DreamingNext, SegmentsRead, SessionContinues, OwnerRevises, RolledBack, BeginApply, WriteNew,
      WriteUnlisted, Revise, ReviewDue, LeftAlone, FinishApply, ApplyDies

ItemRecord ==
  [progress: {"absent", "merged", "prepared", "verified", "negative", "defended"},
   members: SUBSET Claims, tier: {"none", "inject", "review", "other"},
   applied: {"none", "pending", "failed"} \cup Verdicts]

(***************************************************************************)
(* What a step does to the items of a run: only merging changes members,     *)
(* and only the stages tier and report what is to be applied.               *)
(***************************************************************************)
MembersStay == \A k \in ItemIds : item'[k].members = item[k].members

LEMMA Pairs == \A r \in DreamIds, c \in Claims : <<r, c>> \in ItemIds
BY DEF ItemIds

LEMMA ItemsTyped ==
  ASSUME DreamingTypeOK PROVE item \in [ItemIds -> ItemRecord]
BY DEF DreamingTypeOK, ItemRecord

LEMMA JudgedKeeps ==
  ASSUME DreamInv, NEW r \in DreamIds, NEW stage, NEW from, NEW next,
         NEW to \in SUBSET {"prepared", "verified", "negative", "defended"},
         JudgeItems(r, stage, from, to, next)
  PROVE  /\ item' \in [ItemIds -> ItemRecord] /\ MembersStay
         /\ \A k \in ItemIds : item'[k].applied = item[k].applied
         /\ UNCHANGED dream \/ Advance(r, next)
         /\ dream[r] = stage /\ UNCHANGED <<activity, segment, chunk, proposed, remembered, dreamer>>
<1>1. item \in [ItemIds -> ItemRecord]
  BY ItemsTyped DEF DreamInv
<1>2. CASE UNCHANGED item /\ Advance(r, next)
  BY <1>1, <1>2 DEF JudgeItems, MembersStay, Stepping
<1>3. ASSUME NEW c \in Claims, NEW p \in to, Progresses(r, c, p), UNCHANGED dream
      PROVE  /\ item' \in [ItemIds -> ItemRecord] /\ MembersStay
             /\ \A k \in ItemIds : item'[k].applied = item[k].applied
  <2>1. <<r, c>> \in ItemIds
    BY Pairs
  <2>2. item' = [item EXCEPT ![<<r, c>>].progress = p]
    BY <1>3 DEF Progresses
  <2> QED BY <2>1, <2>2, <1>1 DEF ItemRecord, MembersStay
<1> QED BY <1>2, <1>3 DEF JudgeItems, Stepping, ItemsAt

LEMMA TierKeeps ==
  ASSUME DreamInv, NEW r \in DreamIds, TierItems(r)
  PROVE  /\ item' \in [ItemIds -> ItemRecord] /\ MembersStay
         /\ \A k \in ItemIds : k[1] # r => item'[k].applied = item[k].applied
<1>1. item \in [ItemIds -> ItemRecord]
  BY ItemsTyped DEF DreamInv
<1>2. PICK tier \in [Claims -> {"inject", "review", "other"}] :
         item' = [k \in ItemIds |->
           IF k[1] # r \/ item[k].progress = "absent" THEN item[k]
           ELSE [item[k] EXCEPT !.tier = tier[k[2]],
                                !.applied = IF \/ tier[k[2]] = "inject"
                                               \/ tier[k[2]] = "review" /\ KnownAs(k[2]) # {}
                                            THEN "pending" ELSE @]]
  BY DEF TierItems
<1>3. \A k \in ItemIds : tier[k[2]] \in {"inject", "review", "other"}
  BY DEF ItemIds
<1> QED BY <1>1, <1>2, <1>3 DEF ItemRecord, MembersStay

LEMMA FinishKeeps ==
  ASSUME DreamInv, FinishApply
  PROVE  /\ item' \in [ItemIds -> ItemRecord] /\ MembersStay
         /\ \A k \in ItemIds : item'[k].applied = "pending" => item[k].applied = "pending"
<1>1. item \in [ItemIds -> ItemRecord]
  BY ItemsTyped DEF DreamInv
<1>2. /\ dreamer.decided \subseteq Decision
      /\ dreamer.done \subseteq {d.claim : d \in dreamer.decided}
  BY DEF DreamInv, DreamingTypeOK, DecisionsHold
<1> DEFINE Chosen(c) == CHOOSE d \in dreamer.decided : d.claim = c
<1>3. ASSUME NEW c \in dreamer.done PROVE Chosen(c).what \in Verdicts
  <2>1. \E d \in dreamer.decided : d.claim = c
    BY <1>2
  <2>2. Chosen(c) \in dreamer.decided
    BY <2>1
  <2> QED BY <2>2, <1>2 DEF Decision
<1>4. item' = [k \in ItemIds |->
         IF k[1] = dreamer.run /\ k[2] \in dreamer.done
         THEN [item[k] EXCEPT !.applied = Chosen(k[2]).what]
         ELSE item[k]]
  BY DEF FinishApply
<1> HIDE DEF Chosen
<1>5. ASSUME NEW k \in ItemIds
      PROVE  /\ item'[k] \in ItemRecord /\ item'[k].members = item[k].members
             /\ item'[k].applied = "pending" => item[k].applied = "pending"
  BY <1>1, <1>3, <1>4 DEF ItemRecord, Verdicts
<1> QED BY <1>4, <1>5 DEF MembersStay

LEMMA MergeGroups ==
  ASSUME DreamInv, NEW r \in DreamIds, MergeCandidates(r)
  PROVE  /\ item' \in [ItemIds -> ItemRecord]
         /\ \A k \in ItemIds : k[1] # r => item'[k] = item[k]
         /\ \A c \in Claims : item'[<<r, c>>].members # {} => c \in item'[<<r, c>>].members
         /\ \A c, d \in Claims :
              c # d => item'[<<r, c>>].members \cap item'[<<r, d>>].members = {}
<1>1. item \in [ItemIds -> ItemRecord]
  BY ItemsTyped DEF DreamInv
<1>2. PICK group \in SUBSET Unassigned(r), lead \in Unassigned(r), same \in SUBSET Unassigned(r) :
        /\ lead \in same /\ same \subseteq group
        /\ item' = [k \in ItemIds |->
             IF k[1] # r \/ k[2] \notin (group \ same) \cup {lead} THEN item[k]
             ELSE [NoItem EXCEPT !.progress = "merged",
                                 !.members = IF k[2] = lead THEN same ELSE {k[2]}]]
  BY Zenon DEF MergeCandidates
<1>3. \A c \in Unassigned(r) : c \in Claims /\ \A d \in Claims : c \notin item[<<r, d>>].members
  BY DEF Unassigned, CandidatesOf, MembersOf
<1>4. \A c \in Claims : item[<<r, c>>].members # {} => c \in item[<<r, c>>].members
  BY Pairs DEF DreamInv, CandidatesMerged
<1>5. \A c, d \in Claims : c # d => item[<<r, c>>].members \cap item[<<r, d>>].members = {}
  BY DEF DreamInv, CandidatesMerged, EachInOneItem
<1> DEFINE New == (group \ same) \cup {lead}
<1>6. ASSUME NEW c \in Claims
      PROVE  item'[<<r, c>>].members = IF c \notin New THEN item[<<r, c>>].members
                                       ELSE IF c = lead THEN same ELSE {c}
  BY <1>2, Pairs DEF NoItem
<1>7. /\ lead \in same /\ same \subseteq group
      /\ \A c \in New : c \in Unassigned(r)
      /\ \A c \in New : c # lead => c \notin same
  BY <1>2
<1>8. ASSUME NEW c \in Claims, item'[<<r, c>>].members # {}
      PROVE  c \in item'[<<r, c>>].members
  <2>1. item'[<<r, c>>].members = IF c \notin New THEN item[<<r, c>>].members
                                  ELSE IF c = lead THEN same ELSE {c}
    BY <1>6
  <2> HIDE DEF New
  <2> QED BY <2>1, <1>4, <1>7, <1>8
<1>9. ASSUME NEW c \in Claims, NEW d \in Claims, c # d
      PROVE  item'[<<r, c>>].members \cap item'[<<r, d>>].members = {}
  <2>0. /\ item'[<<r, c>>].members = IF c \notin New THEN item[<<r, c>>].members
                                      ELSE IF c = lead THEN same ELSE {c}
        /\ item'[<<r, d>>].members = IF d \notin New THEN item[<<r, d>>].members
                                      ELSE IF d = lead THEN same ELSE {d}
    BY <1>6
  <2>a. \A e \in same : e \in Unassigned(r)
    BY <1>2
  <2> HIDE DEF New
  <2>1. CASE c \notin New /\ d \notin New
    BY <2>0, <2>1, <1>5, <1>9
  <2>2. CASE c \in New /\ d \notin New
    BY <2>0, <2>2, <2>a, <1>3, <1>7
  <2>3. CASE c \notin New /\ d \in New
    BY <2>0, <2>3, <2>a, <1>3, <1>7
  <2>4. CASE c \in New /\ d \in New
    BY <2>0, <2>4, <1>7, <1>9
  <2> QED BY <2>1, <2>2, <2>3, <2>4
<1>10. item' \in [ItemIds -> ItemRecord]
  <2>1. same \subseteq Claims
    BY <1>2, <1>3
  <2> QED BY <1>1, <1>2, <2>1 DEF ItemRecord, NoItem, ItemIds
<1>11. \A k \in ItemIds : k[1] # r => item'[k] = item[k]
  BY <1>2
<1> QED BY <1>8, <1>9, <1>10, <1>11

LEMMA MergedStep ==
  ASSUME DreamInv, DreamingNext PROVE CandidatesMerged'
<1>a. dream \in [DreamIds -> {"absent"} \cup Stages]
  BY DEF DreamInv, DreamingTypeOK
<1>b. /\ \A q \in DreamIds : dream[q] \in {"absent", "select"} => CandidatesOf(q) = {}
      /\ \A k \in ItemIds : item[k].members # {} => k[2] \in item[k].members
      /\ \A q \in DreamIds :
           /\ \A c, d \in Claims : c # d => item[<<q, c>>].members \cap item[<<q, d>>].members = {}
           /\ dream[q] \notin {"absent", "select", "extract", "merge"} => Unassigned(q) = {}
  BY DEF DreamInv, CandidatesMerged, EachInOneItem
<1>1. ASSUME MembersStay, UNCHANGED proposed,
             \A q \in DreamIds :
               /\ dream'[q] \in {"absent", "select"} => dream[q] \in {"absent", "select"}
               /\ dream'[q] \notin {"absent", "select", "extract", "merge"} =>
                    dream[q] \notin {"absent", "select", "extract", "merge"} \/ Unassigned(q) = {}
      PROVE  CandidatesMerged'
  <2>1. \A q \in DreamIds : /\ CandidatesOf(q)' = CandidatesOf(q)
                            /\ MembersOf(q)' = MembersOf(q)
                            /\ Unassigned(q)' = Unassigned(q)
    <3>1. \A q \in DreamIds, c \in Claims : item'[<<q, c>>].members = item[<<q, c>>].members
      BY <1>1, Pairs DEF MembersStay
    <3>2. \A q \in DreamIds : MembersOf(q)' = MembersOf(q)
      BY <3>1 DEF MembersOf
    <3> QED BY <3>2, <1>1 DEF CandidatesOf, Unassigned
  <2>2. \A k \in ItemIds : item'[k].members # {} => k[2] \in item'[k].members
    BY <1>1, <1>b DEF MembersStay
  <2>3. \A q \in DreamIds, c, d \in Claims :
           c # d => item'[<<q, c>>].members \cap item'[<<q, d>>].members = {}
    BY <1>1, <1>b, Pairs DEF MembersStay
  <2> QED BY <2>1, <2>2, <2>3, <1>1, <1>b DEF CandidatesMerged, EachInOneItem
<1>2. CASE UNCHANGED <<dream, proposed, item>>
  BY <1>1, <1>2 DEF MembersStay
<1>3. ASSUME NEW r \in DreamIds, ScheduleDream(r) PROVE CandidatesMerged'
  BY <1>3, <1>1, <1>a DEF ScheduleDream, Advance, MembersStay
<1>4. ASSUME NEW r \in DreamIds, SelectSessions(r) PROVE CandidatesMerged'
  <2>1. dream[r] = "select" /\ UNCHANGED <<proposed, item>>
    BY <1>4 DEF SelectSessions, Stepping
  <2>2. UNCHANGED dream \/ Advance(r, "report") \/ Advance(r, "extract")
    BY <1>4, Zenon DEF SelectSessions
  <2>3. Unassigned(r) = {}
    BY <2>1, <1>b DEF Unassigned
  <2> QED BY <1>1, <1>a, <2>1, <2>2, <2>3 DEF MembersStay, Advance
<1>5. ASSUME NEW r \in DreamIds, NEW s \in DreamSessions, ExtractChunk(r, s)
      PROVE CandidatesMerged'
  <2>1. dream[r] = "extract" /\ UNCHANGED <<dream, item>>
    BY <1>5 DEF ExtractChunk, Stepping
  <2>2. PICK found \in SUBSET Claims : proposed' = proposed \cup ({r} \X found)
    BY <1>5 DEF ExtractChunk
  <2>3. \A q \in DreamIds \ {r} : CandidatesOf(q)' = CandidatesOf(q)
    BY <2>2 DEF CandidatesOf
  <2>4. \A q \in DreamIds \ {r} : Unassigned(q)' = Unassigned(q)
    BY <2>1, <2>3 DEF Unassigned, MembersOf
  <2> QED BY <2>1, <2>3, <2>4, <1>b DEF CandidatesMerged, EachInOneItem
<1>6. ASSUME NEW r \in DreamIds, NEW s \in DreamSessions, ChunkFails(r, s)
      PROVE CandidatesMerged'
  BY <1>2, <1>6 DEF ChunkFails
<1>7. ASSUME NEW r \in DreamIds, ExtractionDone(r) PROVE CandidatesMerged'
  BY <1>7, <1>1, <1>a DEF ExtractionDone, Advance, MembersStay
<1>8. ASSUME NEW r \in DreamIds, MergeCandidates(r) PROVE CandidatesMerged'
  <2>1. dream[r] = "merge" /\ UNCHANGED <<dream, proposed>>
    BY <1>8 DEF MergeCandidates, Stepping
  <2>2. /\ \A k \in ItemIds : k[1] # r => item'[k] = item[k]
        /\ \A c \in Claims : item'[<<r, c>>].members # {} => c \in item'[<<r, c>>].members
        /\ \A c, d \in Claims :
             c # d => item'[<<r, c>>].members \cap item'[<<r, d>>].members = {}
    BY <1>8, MergeGroups
  <2>3. \A q \in DreamIds \ {r}, c \in Claims : item'[<<q, c>>] = item[<<q, c>>]
    BY <2>2, Pairs
  <2>4. \A q \in DreamIds : CandidatesOf(q)' = CandidatesOf(q)
    BY <2>1 DEF CandidatesOf
  <2>5. \A q \in DreamIds \ {r} : Unassigned(q)' = Unassigned(q)
    BY <2>3, <2>4 DEF Unassigned, MembersOf
  <2>6. \A k \in ItemIds : item'[k].members # {} => k[2] \in item'[k].members
    <3> TAKE k \in ItemIds
    <3>1. k = <<k[1], k[2]>> /\ k[1] \in DreamIds /\ k[2] \in Claims
      BY DEF ItemIds
    <3>2. CASE k[1] = r
      BY <3>1, <3>2, <2>2
    <3>3. CASE k[1] # r
      BY <3>3, <2>2, <1>b
    <3> QED BY <3>2, <3>3
  <2>7. \A q \in DreamIds, c, d \in Claims :
           c # d => item'[<<q, c>>].members \cap item'[<<q, d>>].members = {}
    <3> TAKE q \in DreamIds, c, d \in Claims
    <3>1. CASE q = r
      BY <3>1, <2>2
    <3>2. CASE q # r
      BY <3>2, <2>3, <1>b
    <3> QED BY <3>1, <3>2
  <2> QED BY <2>1, <2>4, <2>5, <2>6, <2>7, <1>b DEF CandidatesMerged, EachInOneItem
<1>9. ASSUME NEW r \in DreamIds, MergeDone(r) PROVE CandidatesMerged'
  BY <1>9, <1>1, <1>a DEF MergeDone, MergedAll, Advance, MembersStay, Stepping
<1>10. ASSUME NEW r \in DreamIds, PrepareItems(r) \/ VerifyItems(r) \/ DefendItems(r)
       PROVE CandidatesMerged'
  <2>1. PICK next \in {"verify", "defend", "tier"} :
          /\ MembersStay /\ UNCHANGED proposed
          /\ UNCHANGED dream \/ Advance(r, next)
          /\ dream[r] \in {"prepare", "verify", "defend"}
    BY <1>10, JudgedKeeps DEF PrepareItems, VerifyItems, DefendItems
  <2> QED BY <2>1, <1>1, <1>a DEF Advance
<1>11. ASSUME NEW r \in DreamIds, TierItems(r) PROVE CandidatesMerged'
  <2>1. MembersStay
    BY <1>11, TierKeeps
  <2> QED BY <2>1, <1>11, <1>1, <1>a DEF TierItems, Advance, Stepping
<1>12. ASSUME NEW r \in DreamIds, CompleteDream(r) PROVE CandidatesMerged'
  BY <1>12, <1>1, <1>a DEF CompleteDream, Advance, Stepping, MembersStay
<1>13. CASE FinishApply
  <2>1. MembersStay
    BY <1>13, FinishKeeps
  <2> QED BY <2>1, <1>13, <1>1 DEF FinishApply
<1> QED
  BY <1>2, <1>3, <1>4, <1>5, <1>6, <1>7, <1>8, <1>9, <1>10, <1>11, <1>12, <1>13
  DEF DreamingNext, SessionContinues, OwnerRevises, RolledBack, BeginApply, WriteNew,
      WriteUnlisted, Revise, ReviewDue, LeftAlone, ApplyDies

LEMMA EndedStep ==
  ASSUME DreamInv, DreamingNext PROVE EndedIsApplied'
<1>a. dream \in [DreamIds -> {"absent"} \cup Stages]
  BY DEF DreamInv, DreamingTypeOK
<1>b. \A q \in DreamIds : dream[q] = "completed" => \A c \in Claims : item[<<q, c>>].applied # "pending"
  BY DEF DreamInv, EndedIsApplied, Queued
<1>1. ASSUME \A q \in DreamIds : dream'[q] = "completed" =>
               \A c \in Claims : item'[<<q, c>>].applied # "pending"
      PROVE EndedIsApplied'
  BY <1>1 DEF EndedIsApplied, Queued
<1>2. CASE UNCHANGED <<dream, item>>
  BY <1>1, <1>2, <1>b
<1>3. ASSUME NEW r \in DreamIds, ScheduleDream(r) \/ ExtractionDone(r) \/ MergeDone(r)
      PROVE EndedIsApplied'
  <2>1. PICK next \in {"select", "merge", "prepare"} : Advance(r, next) /\ UNCHANGED item
    BY <1>3 DEF ScheduleDream, ExtractionDone, MergeDone
  <2> QED BY <2>1, <1>1, <1>a, <1>b DEF Advance
<1>4. ASSUME NEW r \in DreamIds, SelectSessions(r) PROVE EndedIsApplied'
  <2>1. UNCHANGED item
    BY <1>4 DEF SelectSessions
  <2>2. UNCHANGED dream \/ Advance(r, "report") \/ Advance(r, "extract")
    BY <1>4, Zenon DEF SelectSessions
  <2> QED BY <1>1, <1>a, <1>b, <2>1, <2>2 DEF Advance
<1>5. ASSUME NEW r \in DreamIds, NEW s \in DreamSessions, ExtractChunk(r, s) \/ ChunkFails(r, s)
      PROVE EndedIsApplied'
  BY <1>2, <1>5 DEF ExtractChunk, ChunkFails
<1>6. ASSUME NEW r \in DreamIds, MergeCandidates(r) PROVE EndedIsApplied'
  <2>1. dream[r] = "merge" /\ UNCHANGED dream
    BY <1>6 DEF MergeCandidates, Stepping
  <2>2. \A q \in DreamIds \ {r}, c \in Claims : item'[<<q, c>>] = item[<<q, c>>]
    BY <1>6, MergeGroups, Pairs
  <2> QED BY <2>1, <2>2, <1>1, <1>b
<1>7. ASSUME NEW r \in DreamIds, PrepareItems(r) \/ VerifyItems(r) \/ DefendItems(r)
      PROVE EndedIsApplied'
  <2>1. PICK next \in {"verify", "defend", "tier"} :
          /\ \A k \in ItemIds : item'[k].applied = item[k].applied
          /\ UNCHANGED dream \/ Advance(r, next)
    BY <1>7, JudgedKeeps DEF PrepareItems, VerifyItems, DefendItems
  <2>2. \A q \in DreamIds, c \in Claims : item'[<<q, c>>].applied = item[<<q, c>>].applied
    BY <2>1, Pairs
  <2>3. \A q \in DreamIds : dream'[q] = "completed" => dream[q] = "completed"
    BY <2>1, <1>a DEF Advance
  <2>4. ASSUME NEW q \in DreamIds, dream'[q] = "completed", NEW c \in Claims
        PROVE  item'[<<q, c>>].applied # "pending"
    BY <2>2, <2>3, <2>4, <1>b
  <2> QED BY <2>4, <1>1
<1>8. ASSUME NEW r \in DreamIds, TierItems(r) PROVE EndedIsApplied'
  <2>1. \A q \in DreamIds \ {r}, c \in Claims : item'[<<q, c>>].applied = item[<<q, c>>].applied
    BY <1>8, TierKeeps, Pairs
  <2>2. Advance(r, "report")
    BY <1>8 DEF TierItems
  <2>3. \A q \in DreamIds : dream'[q] = "completed" => q # r /\ dream[q] = "completed"
    BY <2>2, <1>a DEF Advance
  <2>4. ASSUME NEW q \in DreamIds, dream'[q] = "completed", NEW c \in Claims
        PROVE  item'[<<q, c>>].applied # "pending"
    BY <2>1, <2>3, <2>4, <1>b
  <2> QED BY <2>4, <1>1
<1>9. ASSUME NEW r \in DreamIds, CompleteDream(r) PROVE EndedIsApplied'
  BY <1>9, <1>1, <1>a, <1>b DEF CompleteDream, Advance, Queued
<1>10. CASE FinishApply
  <2>1. \A q \in DreamIds, c \in Claims :
          item'[<<q, c>>].applied = "pending" => item[<<q, c>>].applied = "pending"
    BY <1>10, FinishKeeps, Pairs
  <2> QED BY <2>1, <1>10, <1>1, <1>b DEF FinishApply
<1> QED
  BY <1>2, <1>3, <1>4, <1>5, <1>6, <1>7, <1>8, <1>9, <1>10
  DEF DreamingNext, SessionContinues, OwnerRevises, RolledBack, BeginApply, WriteNew,
      WriteUnlisted, Revise, ReviewDue, LeftAlone, ApplyDies

MemoryRecord ==
  [state: {"absent", "active", "archived"}, facts: SUBSET Statements,
   statement: Statements \cup {"merged"}, human: BOOLEAN, review: BOOLEAN, listed: BOOLEAN]

BatchRecord == [run: 0..MaxDreams, decided: SUBSET Decision, done: SUBSET Claims,
                revised: SUBSET DreamedIds]

\* What KnowledgeKept says of one step.
KnowledgeStep ==
  \A m \in DreamedIds :
    /\ \/ remembered[m].facts \subseteq remembered'[m].facts
       \/ \E d \in dreamer.decided : d.what = "conflicts" /\ d.target = m
                                   /\ d.claim \in dreamer'.done \ dreamer.done
    /\ remembered[m].human => remembered'[m].facts = remembered[m].facts

\* All that a step on the memories or on the batch has to show.
MemoryStep ==
  /\ remembered' \in [DreamedIds -> MemoryRecord] /\ dreamer' \in BatchRecord
  /\ MemoriesDiffer' /\ DecisionsHold' /\ KnowledgeStep

LEMMA MemoriesTyped ==
  ASSUME DreamingTypeOK
  PROVE  /\ remembered \in [DreamedIds -> MemoryRecord] /\ dreamer \in BatchRecord
         /\ dreamer.decided \subseteq Decision /\ dreamer.done \subseteq Claims
         /\ dreamer.revised \subseteq DreamedIds
BY DEF DreamingTypeOK, MemoryRecord, BatchRecord

LEMMA NoBatchTyped ==
  /\ NoBatch \in BatchRecord /\ NoBatch.decided = {} /\ NoBatch.done = {} /\ NoBatch.revised = {}
BY DreamingAssumption DEF NoBatch, BatchRecord

LEMMA DecidedBatch ==
  ASSUME DreamInv, NEW d \in dreamer.decided, Decided(d)
  PROVE  /\ dreamer' \in BatchRecord
         /\ dreamer'.decided = dreamer.decided /\ dreamer'.revised = dreamer.revised
         /\ dreamer'.done = dreamer.done \cup {d.claim}
BY MemoriesTyped DEF DreamInv, Decided, BatchRecord, Decision

(***************************************************************************)
(* A step that leaves what the memories say alone, and decides at most one   *)
(* thing or drops the batch.                                                *)
(***************************************************************************)
LEMMA WordsKept ==
  ASSUME DreamInv, remembered' \in [DreamedIds -> MemoryRecord],
         \A m \in DreamedIds :
           /\ remembered'[m].facts = remembered[m].facts
           /\ remembered'[m].statement = remembered[m].statement
           /\ remembered'[m].listed = remembered[m].listed
           /\ remembered'[m].state = "absent" <=> remembered[m].state = "absent"
           /\ remembered'[m].state = "absent" => remembered'[m].human = remembered[m].human,
         \/ UNCHANGED dreamer
         \/ \E d \in dreamer.decided : Decided(d)
         \/ dreamer' = NoBatch
  PROVE  MemoryStep
<1>1. KnowledgeStep
  BY DEF KnowledgeStep
<1>2. MemoriesDiffer'
  BY DEF DreamInv, MemoriesDiffer
<1>3. \A c : KnownAs(c)' = KnownAs(c)
  BY DEF KnownAs
<1>4. CASE dreamer' = NoBatch
  BY <1>1, <1>2, <1>4, NoBatchTyped DEF MemoryStep, DecisionsHold
<1>5. ASSUME dreamer' \in BatchRecord, dreamer'.decided = dreamer.decided,
             dreamer'.revised = dreamer.revised, dreamer.done \subseteq dreamer'.done,
             dreamer'.done \subseteq {d.claim : d \in dreamer.decided}
      PROVE  MemoryStep
  <2>1. \A m \in DreamedIds : /\ remembered'[m].facts = remembered[m].facts
                             /\ remembered'[m].state # "absent" <=> remembered[m].state # "absent"
    OBVIOUS
  <2>2. ASSUME NEW e \in dreamer.decided
        PROVE  /\ e.what \in {"refines", "conflicts", "review_due"} => e.target \in DreamedIds
               /\ e.claim \notin dreamer'.done /\ e.what \in {"written", "refines", "conflicts"} =>
                    \A m \in KnownAs(e.claim)' : e.claim = "merged"
               /\ e.claim \notin dreamer'.done /\ e.what \in {"refines", "conflicts"}
                    /\ e.target \notin dreamer'.revised =>
                      /\ remembered'[e.target].facts = e.read
                      /\ remembered'[e.target].state # "absent"
    <3>1. KnownAs(e.claim)' = KnownAs(e.claim)
      BY <1>3
    <3> QED BY <2>1, <3>1, <1>5 DEF DreamInv, DecisionsHold
  <2>3. \A d, e \in dreamer.decided : d.claim = e.claim => d = e
    BY DEF DreamInv, DecisionsHold
  <2>4. DecisionsHold'
    BY <1>5, <2>2, <2>3 DEF DecisionsHold
  <2> QED BY <1>1, <1>2, <1>5, <2>4 DEF MemoryStep
<1>6. CASE UNCHANGED dreamer
  <2>1. dreamer' \in BatchRecord
    BY <1>6, MemoriesTyped DEF DreamInv
  <2>2. dreamer'.done \subseteq {d.claim : d \in dreamer.decided}
    BY <1>6 DEF DreamInv, DecisionsHold
  <2> QED BY <2>1, <2>2, <1>5, <1>6
<1>7. ASSUME NEW d \in dreamer.decided, Decided(d) PROVE MemoryStep
  <2>1. /\ dreamer' \in BatchRecord
        /\ dreamer'.decided = dreamer.decided /\ dreamer'.revised = dreamer.revised
        /\ dreamer'.done = dreamer.done \cup {d.claim}
    BY <1>7, DecidedBatch
  <2>2. dreamer'.done \subseteq {e.claim : e \in dreamer.decided}
    BY <2>1 DEF DreamInv, DecisionsHold
  <2> QED BY <2>1, <2>2, <1>5
<1> QED BY <1>4, <1>6, <1>7

(***************************************************************************)
(* A decision that is due is not done yet, and the text it writes is new.    *)
(***************************************************************************)
LEMMA DueIsOpen ==
  ASSUME DreamInv, NEW d \in dreamer.decided, d \in DueDecisions
  PROVE  d.claim \notin dreamer.done /\ d \in Decision
BY MemoriesTyped DEF DreamInv, DueDecisions

LEMMA WritesOwn ==
  ASSUME DreamInv, NEW d \in dreamer.decided, d \in DueDecisions, WritesNew(d),
         NEW m \in DreamedIds, UnusedId(m),
         NEW new \in MemoryRecord, new.state = "active", new.facts = {d.claim},
         new.statement = d.claim,
         remembered' = [remembered EXCEPT ![m] = new],
         Decided(d) \/ dreamer' = NoBatch
  PROVE  MemoryStep
<1>1. remembered \in [DreamedIds -> MemoryRecord] /\ d \in Decision /\ d.claim \notin dreamer.done
  BY MemoriesTyped, DueIsOpen DEF DreamInv
<1>2. /\ new \in MemoryRecord
      /\ new.facts = {d.claim} /\ new.statement = d.claim /\ new.state = "active"
  OBVIOUS
<1>3. /\ remembered' \in [DreamedIds -> MemoryRecord] /\ remembered'[m] = new
      /\ \A n \in DreamedIds \ {m} : remembered'[n] = remembered[n]
  BY <1>1, <1>2
<1>4. remembered[m].state = "absent" /\ remembered[m].facts = {} /\ ~ remembered[m].human
  BY DEF UnusedId, DreamInv, MemoriesDiffer
<1>5. KnowledgeStep
  BY <1>3, <1>4 DEF KnowledgeStep
<1>6. \A n \in KnownAs(d.claim) : d.claim = "merged"
  BY <1>1 DEF WritesNew, DreamInv, DecisionsHold
<1>7. MemoriesDiffer'
  <2>1. ASSUME NEW p \in DreamedIds, NEW n \in DreamedIds, p # n,
               remembered'[p].listed, remembered'[n].listed,
               remembered'[p].statement = remembered'[n].statement
        PROVE  remembered'[p].statement = "merged"
    <3>1. CASE p = m
      BY <2>1, <3>1, <1>2, <1>3, <1>6 DEF KnownAs
    <3>2. CASE n = m
      BY <2>1, <3>2, <1>2, <1>3, <1>6 DEF KnownAs
    <3> QED BY <2>1, <3>1, <3>2, <1>3 DEF DreamInv, MemoriesDiffer
  <2>2. \A n \in DreamedIds : remembered'[n].state = "absent" =>
          remembered'[n].facts = {} /\ ~ remembered'[n].human
    BY <1>2, <1>3 DEF DreamInv, MemoriesDiffer
  <2> QED BY <2>1, <2>2 DEF MemoriesDiffer
<1>8. CASE dreamer' = NoBatch
  BY <1>3, <1>5, <1>7, <1>8, NoBatchTyped DEF MemoryStep, DecisionsHold
<1>9. CASE Decided(d)
  <2>1. /\ dreamer' \in BatchRecord
        /\ dreamer'.decided = dreamer.decided /\ dreamer'.revised = dreamer.revised
        /\ dreamer'.done = dreamer.done \cup {d.claim}
    BY <1>9, DecidedBatch
  <2>2. ASSUME NEW c, c # d.claim PROVE KnownAs(c)' \subseteq KnownAs(c)
    BY <2>2, <1>2, <1>3 DEF KnownAs
  <2>3. \A n \in DreamedIds : remembered[n].state # "absent" => remembered'[n] = remembered[n]
    BY <1>3, <1>4
  <2>4. DecisionsHold'
    BY <2>1, <2>2, <2>3 DEF DreamInv, DecisionsHold
  <2> QED BY <1>3, <1>5, <1>7, <2>1, <2>4 DEF MemoryStep
<1> QED BY <1>8, <1>9

LEMMA RevisesOwn ==
  ASSUME DreamInv, NEW d \in dreamer.decided, Revise(d) PROVE MemoryStep
<1> DEFINE facts == IF d.what = "refines" THEN d.read \cup {d.claim} ELSE {d.claim}
           t == d.target
<1>1. /\ remembered \in [DreamedIds -> MemoryRecord] /\ dreamer \in BatchRecord
      /\ d \in Decision /\ d.claim \notin dreamer.done
      /\ d.what \in {"refines", "conflicts"} /\ ~ remembered[t].human
      /\ t \notin dreamer.revised
  BY MemoriesTyped, DueIsOpen DEF DreamInv, Revise, WritesNew, RevisedAlready
<1>2. /\ t \in DreamedIds /\ remembered[t].facts = d.read /\ remembered[t].state # "absent"
      /\ \A m \in KnownAs(d.claim) : d.claim = "merged"
  BY <1>1 DEF DreamInv, DecisionsHold
<1>3. remembered' = [remembered EXCEPT ![t].facts = facts, ![t].review = FALSE,
                       ![t].statement = IF facts = {d.claim} THEN d.claim ELSE "merged"]
  BY DEF Revise
<1>4. facts \in SUBSET Statements
  BY <1>1 DEF Decision, Statements
<1>f. d.what = "refines" => d.read \subseteq facts
  OBVIOUS
<1> HIDE DEF facts
<1>5. /\ remembered' \in [DreamedIds -> MemoryRecord]
      /\ remembered'[t].facts = facts /\ remembered'[t].statement \in {d.claim, "merged"}
      /\ remembered'[t].listed = remembered[t].listed /\ remembered'[t].state = remembered[t].state
      /\ \A n \in DreamedIds \ {t} : remembered'[n] = remembered[n]
  <2> DEFINE statement == IF facts = {d.claim} THEN d.claim ELSE "merged"
             new == [remembered[t] EXCEPT !.facts = facts, !.review = FALSE,
                                          !.statement = statement]
  <2>1. remembered' = [remembered EXCEPT ![t].facts = facts, ![t].review = FALSE,
                                         ![t].statement = statement]
    BY <1>3
  <2>2. statement \in {d.claim, "merged"} /\ d.claim \in Statements
    BY <1>1 DEF Decision, Statements
  <2> HIDE DEF statement
  <2>3. remembered' = [remembered EXCEPT ![t] = new]
    BY <1>1, <1>2, <2>1 DEF MemoryRecord
  <2>4. /\ new \in MemoryRecord /\ new.facts = facts /\ new.statement = statement
        /\ new.listed = remembered[t].listed /\ new.state = remembered[t].state
    <3>1. remembered[t] \in MemoryRecord
      BY <1>1, <1>2
    <3> QED BY <3>1, <1>4, <2>2 DEF MemoryRecord
  <2> HIDE DEF new
  <2> QED BY <1>1, <1>2, <2>2, <2>3, <2>4
<1>6. /\ dreamer' \in BatchRecord /\ dreamer'.decided = dreamer.decided
      /\ dreamer'.done = dreamer.done \cup {d.claim}
      /\ dreamer'.revised = dreamer.revised \cup {t}
  BY <1>1, <1>2 DEF Revise, BatchRecord, Decision
<1>7. KnowledgeStep
  <2>1. remembered[t].facts \subseteq remembered'[t].facts
          \/ \E e \in dreamer.decided : e.what = "conflicts" /\ e.target = t
                                      /\ e.claim \in dreamer'.done \ dreamer.done
    BY <1>1, <1>2, <1>5, <1>6, <1>f
  <2> QED BY <2>1, <1>1, <1>5 DEF KnowledgeStep
<1>8. MemoriesDiffer'
  <2>1. ASSUME NEW p \in DreamedIds, NEW n \in DreamedIds, p # n,
               remembered'[p].listed, remembered'[n].listed,
               remembered'[p].statement = remembered'[n].statement
        PROVE  remembered'[p].statement = "merged"
    <3>1. CASE p = t
      BY <2>1, <3>1, <1>2, <1>5 DEF KnownAs
    <3>2. CASE n = t
      BY <2>1, <3>2, <1>2, <1>5 DEF KnownAs
    <3> QED BY <2>1, <3>1, <3>2, <1>5 DEF DreamInv, MemoriesDiffer
  <2>2. \A n \in DreamedIds : remembered'[n].state = "absent" =>
          remembered'[n].facts = {} /\ ~ remembered'[n].human
    BY <1>2, <1>5 DEF DreamInv, MemoriesDiffer
  <2> QED BY <2>1, <2>2 DEF MemoriesDiffer
<1>9. DecisionsHold'
  <2>2. ASSUME NEW c, c # d.claim, NEW m \in KnownAs(c)'
        PROVE  m \in KnownAs(c) \/ c = "merged"
    BY <2>2, <1>5 DEF KnownAs
  <2>3. \A n \in DreamedIds : n \notin dreamer'.revised => remembered'[n] = remembered[n]
    BY <1>5, <1>6
  <2> QED BY <1>6, <2>2, <2>3 DEF DreamInv, DecisionsHold
<1> QED BY <1>5, <1>6, <1>7, <1>8, <1>9 DEF MemoryStep

(***************************************************************************)
(* What applyBatch may decide about one item.                               *)
(***************************************************************************)
LEMMA WhatIsDecided ==
  ASSUME DreamInv, NEW r, NEW c \in Claims, NEW d \in Decisions(r, c)
  PROVE  /\ d \in Decision /\ d.claim = c
         /\ d.what \in {"refines", "conflicts", "review_due"} => d.target \in DreamedIds
         /\ d.what \in {"written", "refines", "conflicts"} => KnownAs(c) = {}
         /\ d.what \in {"refines", "conflicts"} =>
              remembered[d.target].facts = d.read /\ remembered[d.target].state # "absent"
         /\ \E w \in Verdicts, m \in 0..MaxDreamed : d = Decide(c, w, m)
<1>1. remembered \in [DreamedIds -> MemoryRecord]
  BY MemoriesTyped DEF DreamInv
<1>2. MaxDreamed \in Nat /\ DreamedIds \subseteq 0..MaxDreamed /\ 0 \in 0..MaxDreamed
      /\ 0 \notin DreamedIds
  BY DreamingAssumption DEF DreamedIds
<1>3. ASSUME NEW w \in Verdicts, NEW m \in 0..MaxDreamed, d = Decide(c, w, m)
      PROVE  /\ d \in Decision /\ d.claim = c /\ d.what = w /\ d.target = m
             /\ m # 0 => m \in DreamedIds /\ d.read = remembered[m].facts
  <2>1. m # 0 => m \in DreamedIds
    BY <1>2 DEF DreamedIds
  <2>2. (IF m = 0 THEN {} ELSE remembered[m].facts) \in SUBSET Statements
    BY <2>1, <1>1 DEF MemoryRecord
  <2> QED BY <1>3, <2>1, <2>2 DEF Decide, Decision
<1>4. ASSUME NEW m \in KnownAs(c), NEW w \in {"review_due", "observed", "skipped"},
             d = Decide(c, w, m)
      PROVE  /\ \E v \in Verdicts, n \in 0..MaxDreamed : d = Decide(c, v, n)
             /\ d.what = w /\ d.target \in DreamedIds
  BY <1>4, <1>2, <1>3 DEF KnownAs, Verdicts
<1>5. CASE \E m \in KnownAs(c), w \in {"review_due", "observed", "skipped"} : d = Decide(c, w, m)
  BY <1>3, <1>4, <1>5
<1>6. CASE d = Decide(c, "skipped", 0)
  BY <1>2, <1>3, <1>6 DEF Verdicts
<1>7. CASE KnownAs(c) = {} /\ d = Decide(c, "written", 0)
  BY <1>2, <1>3, <1>7 DEF Verdicts
<1>8. ASSUME KnownAs(c) = {}, NEW m \in Comparable,
             NEW w \in {"refines", "conflicts", "observed", "skipped"}, d = Decide(c, w, m)
      PROVE  /\ d \in Decision /\ d.claim = c /\ d.target \in DreamedIds
             /\ remembered[d.target].facts = d.read /\ remembered[d.target].state # "absent"
             /\ \E v \in Verdicts, n \in 0..MaxDreamed : d = Decide(c, v, n)
  <2>1. m \in DreamedIds /\ m \in 0..MaxDreamed /\ m # 0 /\ remembered[m].state = "active"
    BY <1>2 DEF Comparable
  <2>2. w \in Verdicts
    BY DEF Verdicts
  <2> QED BY <2>1, <2>2, <1>3, <1>8
<1>9. \/ \E m \in KnownAs(c), w \in {"review_due", "observed", "skipped"} : d = Decide(c, w, m)
      \/ d = Decide(c, "skipped", 0)
      \/ KnownAs(c) = {} /\ d = Decide(c, "written", 0)
      \/ /\ KnownAs(c) = {}
         /\ \E m \in Comparable, w \in {"refines", "conflicts", "observed", "skipped"} :
              d = Decide(c, w, m)
  <2>1. CASE item[<<r, c>>].tier = "review"
    BY <2>1 DEF Decisions
  <2>2. CASE item[<<r, c>>].tier # "review" /\ KnownAs(c) # {}
    BY <2>2 DEF Decisions
  <2>3. CASE item[<<r, c>>].tier # "review" /\ KnownAs(c) = {}
    BY <2>3 DEF Decisions
  <2> QED BY <2>1, <2>2, <2>3
<1> QED BY <1>5, <1>6, <1>7, <1>8, <1>9

LEMMA DecisionsFinite ==
  ASSUME DreamInv, NEW r, NEW c \in Claims PROVE IsFiniteSet(Decisions(r, c))
<1> DEFINE D == Verdicts \X (0..MaxDreamed)
           f == [p \in D |-> Decide(c, p[1], p[2])]
           R == {f[p] : p \in D}
<1>1. IsFiniteSet(D)
  <2>1. IsFiniteSet(0..MaxDreamed)
    BY FS_Interval, DreamingAssumption
  <2>2. IsFiniteSet(Verdicts)
    <3> DEFINE some == {"written", "refines", "conflicts"}
               more == {"written", "refines", "conflicts", "observed", "review_due"}
    <3>1. IsFiniteSet({"written"})
      BY FS_Singleton
    <3>2. IsFiniteSet({"written"} \cup {"refines"})
      BY <3>1, FS_AddElement
    <3>3. IsFiniteSet(({"written"} \cup {"refines"}) \cup {"conflicts"})
      BY <3>2, FS_AddElement
    <3>4. some = ({"written"} \cup {"refines"}) \cup {"conflicts"}
      OBVIOUS
    <3>5. IsFiniteSet(some)
      BY <3>3, <3>4, Zenon
    <3>6. IsFiniteSet((some \cup {"observed"}) \cup {"review_due"})
      <4> HIDE DEF some
      <4>1. IsFiniteSet(some \cup {"observed"})
        BY <3>5, FS_AddElement
      <4> QED BY <4>1, FS_AddElement
    <3>7. more = (some \cup {"observed"}) \cup {"review_due"}
      OBVIOUS
    <3>8. IsFiniteSet(more)
      BY <3>6, <3>7, Zenon
    <3>9. IsFiniteSet(more \cup {"skipped"})
      <4> HIDE DEF more
      <4> QED BY <3>8, FS_AddElement
    <3>10. Verdicts = more \cup {"skipped"}
      BY DEF Verdicts
    <3> QED BY <3>9, <3>10, Zenon
  <2> QED BY <2>1, <2>2, FS_Product
<1>2. f \in Surjection(D, R)
  BY DEF Surjection
<1>3. IsFiniteSet(R)
  BY <1>1, <1>2, FS_Surjection
<1>4. ASSUME NEW d \in Decisions(r, c) PROVE d \in R
  <2>1. PICK w \in Verdicts, m \in 0..MaxDreamed : d = Decide(c, w, m)
    BY WhatIsDecided
  <2>2. <<w, m>> \in D /\ f[<<w, m>>] = d
    BY <2>1
  <2> QED BY <2>2
<1> QED BY <1>3, <1>4, FS_Subset

LEMMA BatchBegins ==
  ASSUME DreamInv, NEW r \in DreamIds, BeginApply(r) PROVE MemoryStep
<1>1. PICK decided \in SUBSET UNION {Decisions(r, c) : c \in Queued(r)} :
        /\ \A c \in Queued(r) : Cardinality({d \in decided : d.claim = c}) = 1
        /\ dreamer' = [NoBatch EXCEPT !.run = r, !.decided = decided]
  BY DEF BeginApply
<1>2. ASSUME NEW d \in decided
      PROVE  d.claim \in Queued(r) /\ d.claim \in Claims /\ d \in Decisions(r, d.claim)
  <2>1. PICK c \in Queued(r) : d \in Decisions(r, c)
    BY <1>1
  <2>2. c \in Claims
    BY DEF Queued
  <2>3. d.claim = c
    BY <2>1, <2>2, WhatIsDecided
  <2> QED BY <2>1, <2>2, <2>3
<1>3. ASSUME NEW d \in decided, NEW e \in decided, d.claim = e.claim PROVE d = e
  <2> DEFINE S == {x \in decided : x.claim = d.claim}
  <2>1. IsFiniteSet(S)
    <3>1. S \subseteq Decisions(r, d.claim)
      BY <1>2
    <3> QED BY <3>1, <1>2, DecisionsFinite, FS_Subset
  <2>2. Cardinality(S) = 1
    BY <1>1, <1>2
  <2>3. \E x : S = {x}
    BY <2>1, <2>2, FS_Singleton
  <2> QED BY <2>3, <1>3
<1>4. \A d \in decided :
        /\ d \in Decision
        /\ d.what \in {"refines", "conflicts", "review_due"} => d.target \in DreamedIds
        /\ d.what \in {"written", "refines", "conflicts"} => KnownAs(d.claim) = {}
        /\ d.what \in {"refines", "conflicts"} =>
             remembered[d.target].facts = d.read /\ remembered[d.target].state # "absent"
  BY <1>2, WhatIsDecided
<1>5. UNCHANGED remembered
  BY DEF BeginApply
<1>6. dreamer' \in BatchRecord
      /\ dreamer'.decided = decided /\ dreamer'.done = {} /\ dreamer'.revised = {}
  <2>1. decided \subseteq Decision /\ r \in 0..MaxDreams
    BY <1>4, DreamingAssumption DEF DreamIds
  <2> QED BY <1>1, <2>1 DEF NoBatch, BatchRecord
<1>7. DecisionsHold'
  <2>1. \A c : KnownAs(c)' = KnownAs(c)
    BY <1>5 DEF KnownAs
  <2> QED BY <1>3, <1>4, <1>5, <1>6, <2>1 DEF DecisionsHold
<1>8. KnowledgeStep
  BY <1>5 DEF KnowledgeStep
<1>9. MemoriesDiffer' /\ remembered' \in [DreamedIds -> MemoryRecord]
  BY <1>5, MemoriesTyped DEF DreamInv, MemoriesDiffer
<1> QED BY <1>6, <1>7, <1>8, <1>9 DEF MemoryStep

(***************************************************************************)
(* Every step on the memories or on the batch.                              *)
(***************************************************************************)
LEMMA MemoriesMove ==
  ASSUME DreamInv,
         \/ \E m \in DreamedIds : OwnerRevises(m) \/ RolledBack(m)
         \/ \E r \in DreamIds : BeginApply(r)
         \/ \E d \in dreamer.decided :
              WriteNew(d) \/ WriteUnlisted(d) \/ Revise(d) \/ ReviewDue(d) \/ LeftAlone(d)
         \/ FinishApply \/ ApplyDies
  PROVE  MemoryStep
<1>1. remembered \in [DreamedIds -> MemoryRecord]
  BY MemoriesTyped DEF DreamInv
<1>2. ASSUME NEW m \in DreamedIds, OwnerRevises(m) \/ RolledBack(m) PROVE MemoryStep
  <2>1. remembered[m].state = "active" /\ UNCHANGED dreamer
    BY <1>2 DEF OwnerRevises, RolledBack
  <2>2. \/ remembered' = [remembered EXCEPT ![m].human = TRUE]
        \/ remembered' = [remembered EXCEPT ![m].state = "archived"]
    BY <1>2 DEF OwnerRevises, RolledBack
  <2>3. remembered' \in [DreamedIds -> MemoryRecord]
    <3>1. CASE remembered' = [remembered EXCEPT ![m].human = TRUE]
      BY <1>1, <3>1 DEF MemoryRecord
    <3>2. CASE remembered' = [remembered EXCEPT ![m].state = "archived"]
      BY <1>1, <3>2 DEF MemoryRecord
    <3> QED BY <2>2, <3>1, <3>2
  <2>4. \A n \in DreamedIds :
          /\ remembered'[n].facts = remembered[n].facts
          /\ remembered'[n].statement = remembered[n].statement
          /\ remembered'[n].listed = remembered[n].listed
          /\ remembered'[n].state = "absent" <=> remembered[n].state = "absent"
          /\ remembered'[n].state = "absent" => remembered'[n].human = remembered[n].human
    BY <1>1, <2>1, <2>2 DEF MemoryRecord
  <2> QED BY <2>1, <2>3, <2>4, WordsKept
<1>3. ASSUME NEW d \in dreamer.decided, WriteNew(d) PROVE MemoryStep
  <2> DEFINE new == [NoMemory EXCEPT !.state = "active", !.facts = {d.claim},
                                     !.statement = d.claim, !.listed = TRUE]
  <2>1. PICK m \in DreamedIds : UnusedId(m) /\ remembered' = [remembered EXCEPT ![m] = new]
    BY <1>3 DEF WriteNew
  <2>2. d \in DueDecisions /\ WritesNew(d) /\ Decided(d)
    BY <1>3 DEF WriteNew
  <2>3. /\ new \in MemoryRecord /\ new.state = "active" /\ new.facts = {d.claim}
        /\ new.statement = d.claim
    BY <2>2, DueIsOpen DEF NoMemory, MemoryRecord, Statements, Decision
  <2> HIDE DEF new
  <2> QED BY <2>1, <2>2, <2>3, WritesOwn
<1>4. ASSUME NEW d \in dreamer.decided, WriteUnlisted(d) PROVE MemoryStep
  <2> DEFINE new == [NoMemory EXCEPT !.state = "active", !.facts = {d.claim},
                                     !.statement = d.claim]
  <2>1. PICK m \in DreamedIds : UnusedId(m) /\ remembered' = [remembered EXCEPT ![m] = new]
    BY <1>4 DEF WriteUnlisted
  <2>2. d \in DueDecisions /\ WritesNew(d) /\ dreamer' = NoBatch
    BY <1>4 DEF WriteUnlisted
  <2>3. /\ new \in MemoryRecord /\ new.state = "active" /\ new.facts = {d.claim}
        /\ new.statement = d.claim
    BY <2>2, DueIsOpen DEF NoMemory, MemoryRecord, Statements, Decision
  <2> HIDE DEF new
  <2> QED BY <2>1, <2>2, <2>3, WritesOwn
<1>5. ASSUME NEW d \in dreamer.decided, ReviewDue(d) PROVE MemoryStep
  <2>1. remembered' = [remembered EXCEPT ![d.target].review = TRUE] /\ Decided(d)
    BY <1>5 DEF ReviewDue
  <2>2. remembered' \in [DreamedIds -> MemoryRecord]
    BY <1>1, <2>1 DEF MemoryRecord
  <2>3. \A n \in DreamedIds :
          /\ remembered'[n].facts = remembered[n].facts
          /\ remembered'[n].statement = remembered[n].statement
          /\ remembered'[n].listed = remembered[n].listed
          /\ remembered'[n].state = remembered[n].state
          /\ remembered'[n].human = remembered[n].human
    BY <1>1, <2>1 DEF MemoryRecord
  <2> QED BY <2>1, <2>2, <2>3, WordsKept
<1>6. ASSUME NEW d \in dreamer.decided, LeftAlone(d) PROVE MemoryStep
  <2>1. UNCHANGED remembered /\ Decided(d)
    BY <1>6 DEF LeftAlone
  <2> QED BY <1>1, <2>1, WordsKept
<1>7. CASE FinishApply \/ ApplyDies
  <2>1. UNCHANGED remembered /\ dreamer' = NoBatch
    BY <1>7 DEF FinishApply, ApplyDies
  <2> QED BY <1>1, <2>1, WordsKept
<1> QED BY <1>2, <1>3, <1>4, <1>5, <1>6, <1>7, BatchBegins, RevisesOwn

(***************************************************************************)
(* The other steps leave them alone.                                        *)
(***************************************************************************)
LEMMA MemoriesRest ==
  ASSUME DreamInv, UNCHANGED <<remembered, dreamer>> PROVE MemoryStep
BY MemoriesTyped, WordsKept DEF DreamInv

LEMMA MemoriesStep == ASSUME DreamInv, DreamingNext PROVE MemoryStep
<1>1. ASSUME NEW s \in DreamSessions, SessionContinues(s) PROVE UNCHANGED <<remembered, dreamer>>
  BY <1>1 DEF SessionContinues
<1>2. ASSUME NEW r \in DreamIds,
             \/ ScheduleDream(r) \/ SelectSessions(r)
             \/ \E s \in DreamSessions : ExtractChunk(r, s) \/ ChunkFails(r, s)
             \/ ExtractionDone(r) \/ MergeCandidates(r) \/ MergeDone(r)
             \/ PrepareItems(r) \/ VerifyItems(r) \/ DefendItems(r) \/ TierItems(r)
             \/ CompleteDream(r)
      PROVE UNCHANGED <<remembered, dreamer>>
  BY <1>2 DEF ScheduleDream, SelectSessions, ExtractChunk, ChunkFails, ExtractionDone,
              MergeCandidates, MergeDone, PrepareItems, VerifyItems, DefendItems, JudgeItems,
              TierItems, CompleteDream
<1> QED BY <1>1, <1>2, MemoriesMove, MemoriesRest DEF DreamingNext

LEMMA TypedStep == ASSUME DreamInv, DreamingNext PROVE DreamingTypeOK'
<1> DEFINE Around == /\ activity' \in [DreamSessions -> 0..MaxActivity]
                     /\ dream' \in [DreamIds -> {"absent"} \cup Stages]
                     /\ segment' \in [DreamSessions -> [run: 0..MaxDreams,
                                                        through: 0..MaxActivity]]
                     /\ chunk' \in [DreamIds \X DreamSessions ->
                                      {"absent", "pending", "completed", "failed"}]
                     /\ proposed' \subseteq ItemIds
<1>a. /\ activity \in [DreamSessions -> 0..MaxActivity]
      /\ dream \in [DreamIds -> {"absent"} \cup Stages]
      /\ segment \in [DreamSessions -> [run: 0..MaxDreams, through: 0..MaxActivity]]
      /\ chunk \in [DreamIds \X DreamSessions -> {"absent", "pending", "completed", "failed"}]
      /\ proposed \subseteq ItemIds
  BY DEF DreamInv, DreamingTypeOK
<1>b. item \in [ItemIds -> ItemRecord]
  BY ItemsTyped DEF DreamInv
<1>c. MaxActivity \in Nat /\ MaxDreams \in Nat /\ DreamIds \subseteq 0..MaxDreams
  BY DreamingAssumption DEF DreamIds
<1>1. ASSUME Around, item' \in [ItemIds -> ItemRecord] PROVE DreamingTypeOK'
  <2>1. remembered' \in [DreamedIds -> MemoryRecord] /\ dreamer' \in BatchRecord
    BY MemoriesStep DEF MemoryStep
  <2> QED BY <1>1, <2>1 DEF DreamingTypeOK, ItemRecord, MemoryRecord, BatchRecord
<1>2. ASSUME NEW r \in DreamIds, NEW stage \in Stages, Advance(r, stage)
      PROVE  dream' \in [DreamIds -> {"absent"} \cup Stages]
  BY <1>2, <1>a DEF Advance
<1> HIDE DEF Around
<1>3. ASSUME UNCHANGED <<activity, segment, chunk, proposed>>,
             UNCHANGED dream \/ \E r \in DreamIds, stage \in Stages : Advance(r, stage)
      PROVE  Around
  BY <1>3, <1>2, <1>a DEF Around
<1>4. ASSUME NEW s \in DreamSessions, SessionContinues(s) PROVE DreamingTypeOK'
  <2>1. activity' \in [DreamSessions -> 0..MaxActivity]
    BY <1>4, <1>a, <1>c DEF SessionContinues
  <2>2. Around /\ UNCHANGED item
    BY <1>4, <2>1, <1>a DEF Around, SessionContinues
  <2> QED BY <2>2, <1>1, <1>b
<1>5. ASSUME NEW r \in DreamIds,
             \/ ScheduleDream(r) \/ ExtractionDone(r) \/ MergeDone(r) \/ CompleteDream(r)
      PROVE DreamingTypeOK'
  <2>1. \E stage \in {"select", "merge", "prepare", "completed"} : Advance(r, stage)
    BY <1>5 DEF ScheduleDream, ExtractionDone, MergeDone, CompleteDream
  <2>2. UNCHANGED <<activity, segment, chunk, proposed, item>>
    BY <1>5 DEF ScheduleDream, ExtractionDone, MergeDone, CompleteDream
  <2>3. Around
    BY <2>1, <2>2, <1>3 DEF Stages
  <2> QED BY <2>2, <2>3, <1>1, <1>b
<1>6. ASSUME NEW r \in DreamIds, SelectSessions(r) PROVE DreamingTypeOK'
  <2>1. UNCHANGED <<activity, proposed, item>>
    BY <1>6 DEF SelectSessions
  <2>2. UNCHANGED dream \/ Advance(r, "report") \/ Advance(r, "extract")
    BY <1>6, Zenon DEF SelectSessions
  <2>3. dream' \in [DreamIds -> {"absent"} \cup Stages]
    BY <2>2, <1>2, <1>a DEF Stages
  <2>4. segment' \in [DreamSessions -> [run: 0..MaxDreams, through: 0..MaxActivity]]
    BY <1>6, <1>a, <1>c DEF SelectSessions
  <2>5. chunk' \in [DreamIds \X DreamSessions -> {"absent", "pending", "completed", "failed"}]
    BY <1>6, <1>a DEF SelectSessions
  <2> QED BY <2>1, <2>3, <2>4, <2>5, <1>1, <1>a, <1>b DEF Around
<1>7. ASSUME NEW r \in DreamIds, NEW s \in DreamSessions, ExtractChunk(r, s) \/ ChunkFails(r, s)
      PROVE DreamingTypeOK'
  <2>1. UNCHANGED <<activity, dream, segment, item>>
    BY <1>7 DEF ExtractChunk, ChunkFails
  <2>2. \E v \in {"pending", "completed", "failed"} : chunk' = [chunk EXCEPT ![<<r, s>>] = v]
    <3>1. chunk[<<r, s>>] = "pending"
      BY <1>7 DEF ExtractChunk, ChunkFails, Unread
    <3> QED BY <3>1, <1>7 DEF ExtractChunk, ChunkFails
  <2>3. chunk' \in [DreamIds \X DreamSessions -> {"absent", "pending", "completed", "failed"}]
    BY <2>2, <1>a
  <2>4. proposed' \subseteq ItemIds
    BY <1>7, <1>a DEF ExtractChunk, ChunkFails, ItemIds
  <2> QED BY <2>1, <2>3, <2>4, <1>1, <1>a, <1>b DEF Around
<1>8. ASSUME NEW r \in DreamIds, MergeCandidates(r) PROVE DreamingTypeOK'
  <2>1. UNCHANGED <<activity, dream, segment, chunk, proposed>>
    BY <1>8 DEF MergeCandidates
  <2>2. item' \in [ItemIds -> ItemRecord]
    BY <1>8, MergeGroups
  <2> QED BY <2>1, <2>2, <1>1, <1>3
<1>9. ASSUME NEW r \in DreamIds, PrepareItems(r) \/ VerifyItems(r) \/ DefendItems(r)
      PROVE DreamingTypeOK'
  <2>1. PICK next \in {"verify", "defend", "tier"} :
          /\ item' \in [ItemIds -> ItemRecord]
          /\ UNCHANGED <<activity, segment, chunk, proposed>>
          /\ UNCHANGED dream \/ Advance(r, next)
    BY <1>9, JudgedKeeps DEF PrepareItems, VerifyItems, DefendItems
  <2>2. next \in Stages
    BY DEF Stages
  <2> QED BY <2>1, <2>2, <1>1, <1>3
<1>10. ASSUME NEW r \in DreamIds, TierItems(r) PROVE DreamingTypeOK'
  <2>1. UNCHANGED <<activity, segment, chunk, proposed>> /\ Advance(r, "report")
    BY <1>10 DEF TierItems
  <2>2. item' \in [ItemIds -> ItemRecord] /\ "report" \in Stages
    BY <1>10, TierKeeps DEF Stages
  <2> QED BY <2>1, <2>2, <1>1, <1>3
<1>11. CASE UNCHANGED <<activity, dream, segment, chunk, proposed, item>>
  BY <1>11, <1>1, <1>3, <1>b
<1>12. CASE FinishApply
  <2>1. UNCHANGED <<activity, dream, segment, chunk, proposed>>
    BY <1>12 DEF FinishApply
  <2> QED BY <2>1, <1>12, <1>1, <1>3, FinishKeeps
<1> QED
  BY <1>4, <1>5, <1>6, <1>7, <1>8, <1>9, <1>10, <1>11, <1>12
  DEF DreamingNext, OwnerRevises, RolledBack, BeginApply, WriteNew, WriteUnlisted, Revise,
      ReviewDue, LeftAlone, ApplyDies

LEMMA DreamingStep ==
  ASSUME DreamInv, [DreamingNext]_dreamVars PROVE DreamInv' /\ KnowledgeStep
<1>1. CASE DreamingNext
  <2>1. MemoryStep
    BY <1>1, MemoriesStep
  <2> QED BY <1>1, <2>1, TypedStep, SegmentsStep, MergedStep, EndedStep DEF DreamInv, MemoryStep
<1>2. CASE UNCHANGED dreamVars
  <2>1. UNCHANGED <<activity, dream, segment, chunk, proposed, item, remembered, dreamer>>
    BY <1>2 DEF dreamVars
  <2>2. DreamingTypeOK' /\ SegmentsRead' /\ CandidatesMerged' /\ EndedIsApplied'
    BY <2>1 DEF DreamInv, DreamingTypeOK, SegmentsRead, ClaimedIsRead, CandidatesMerged,
                CandidatesOf, EachInOneItem, Unassigned, MembersOf, EndedIsApplied, Queued
  <2>3. MemoryStep
    BY <2>1, MemoriesRest
  <2> QED BY <2>2, <2>3 DEF DreamInv, MemoryStep
<1> QED BY <1>1, <1>2

(***************************************************************************)
(* DreamInv is an invariant of dreaming, for any Sessions, statements and    *)
(* runs, whatever dies.                                                     *)
(***************************************************************************)
THEOREM DreamingInvariant == DreamingSpec => []DreamInv
<1>1. DreamInv /\ [DreamingNext]_dreamVars => DreamInv'
  BY DreamingStep
<1> QED BY <1>1, DreamingStarts, PTL DEF DreamingSpec

LEMMA RolledBackFollows == DreamInv => RolledBackStays
<1> SUFFICES ASSUME DreamInv, NEW m \in DreamedIds, NEW n \in DreamedIds,
                    remembered[m].state = "archived", remembered[m].listed,
                    remembered[m].statement # "merged",
                    remembered[n].state = "active", remembered[n].listed
             PROVE  remembered[n].statement # remembered[m].statement
  BY DEF RolledBackStays
<1>1. m # n
  OBVIOUS
<1> QED BY <1>1 DEF DreamInv, MemoriesDiffer

(***************************************************************************)
(* Dreaming takes no fact out of a memory except for a conflicting one, and  *)
(* touches nothing the owner wrote: applyBatch in dreaming/apply.ts, with a  *)
(* Worker that may die at any of its steps.                                 *)
(***************************************************************************)
THEOREM KnowledgeKeptAlways == DreamingSpec => KnowledgeKept
<1>1. DreamInv /\ [DreamingNext]_dreamVars => [KnowledgeStep]_dreamVars
  BY DreamingStep
<1>2. KnowledgeKept <=> [][KnowledgeStep]_dreamVars
  BY DEF KnowledgeKept, KnowledgeStep
<1> QED BY <1>1, <1>2, DreamingInvariant, PTL DEF DreamingSpec

(***************************************************************************)
(* No candidate is lost or used twice, a run that ends leaves no item to     *)
(* apply, and nothing rolled back is written again, also when the stage      *)
(* select dies half way.                                                    *)
(***************************************************************************)
THEOREM ItemsSettledAlways ==
  DreamingSpec => [](EachInOneItem /\ EndedIsApplied /\ RolledBackStays)
<1>1. DreamInv => EachInOneItem /\ EndedIsApplied /\ RolledBackStays
  BY RolledBackFollows DEF DreamInv, CandidatesMerged
<1> QED BY <1>1, DreamingInvariant, PTL

(***************************************************************************)
(* No activity unread, no candidate lost or used twice, no item left behind, *)
(* nothing rolled back written again and no knowledge taken away, as long as *)
(* the stage select cannot die half way.                                    *)
(***************************************************************************)
THEOREM DreamingKeptAlways ==
  ASSUME SelectDies = FALSE PROVE DreamingSpec => DreamingKept
<1>1. DreamInv => DreamingSafe
  BY RolledBackFollows DEF DreamInv, DreamingSafe, SegmentsRead, CandidatesMerged
<1> QED BY <1>1, DreamingInvariant, KnowledgeKeptAlways, PTL DEF DreamingKept


-----------------------------------------------------------------------------
(***************************************************************************)
(* The types alone, however many Workers govern at once.  A run that is taken *)
(* up is one of the runs, and a page that is claimed or read is one of its.   *)
(***************************************************************************)
LEMMA TakenRun ==
  ASSUME GovernanceColumns, NEW w \in Governors, NEW r \in Runs, Takeable(w, r),
         run[r].phase # "finalize"
  PROVE  run[r].phase \in Cadences
BY DEF GovernanceColumns, RunRows

LEMMA LeastPage ==
  ASSUME GovernanceColumns, NEW r \in Runs, run[r].phase \in Cadences, NEW states,
         PagesIn(r, states) # {}
  PROVE  <<r, run[r].phase, Min(PagesIn(r, states))>> \in PageKeys
<1>1. PagesIn(r, states) \subseteq Nat /\ PagesIn(r, states) \subseteq Governed
  BY GovernanceConstants DEF PagesIn
<1>2. Min(PagesIn(r, states)) \in Governed
  BY <1>1, LeastNumber
<1> QED BY <1>2, Keys

\* A Worker's step goes on with one of the pages, or ends.
LEMMA GovernorTyped ==
  ASSUME GovernanceColumns, NEW w \in Governors, NEW g \in Steps,
         governor' = [governor EXCEPT ![w] = g]
  PROVE  governor' \in [Governors -> Steps]
BY DEF GovernanceColumns

LEMMA StepEndsTyped ==
  ASSUME GovernanceColumns, NEW w \in Governors,
         governor' = [governor EXCEPT ![w] = Governing]
  PROVE  governor' \in [Governors -> Steps]
BY GovernorTyped, GovernanceConstants

LEMMA PageTyped ==
  ASSUME GovernanceColumns, NEW key \in PageKeys, NEW p \in PageRows,
         page' = [page EXCEPT ![key] = p]
  PROVE  page' \in [PageKeys -> PageRows]
BY DEF GovernanceColumns

LEMMA RunTyped ==
  ASSUME GovernanceColumns, NEW r \in Runs, NEW c \in RunRows, run' = [run EXCEPT ![r] = c]
  PROVE  run' \in [Runs -> RunRows]
BY DEF GovernanceColumns

LEMMA KeyOf ==
  ASSUME GovernanceColumns, NEW w \in Governors
  PROVE  /\ governor[w] \in Steps /\ governor[w].key \in PageKeys
         /\ governor[w].key[1] \in Runs /\ governor[w].key[3] \in Governed
         /\ page[governor[w].key] \in PageRows /\ run[governor[w].key[1]] \in RunRows
         /\ knowledge[governor[w].key[3]] \in KnowledgeRows
<1>1. governor[w] \in Steps /\ governor[w].key \in PageKeys
  BY DEF GovernanceColumns, Steps
<1> QED BY <1>1, Keys DEF GovernanceColumns

LEMMA ScheduledTyped ==
  ASSUME GovernanceColumns, NEW r \in Runs, ScheduleRun(r)
  PROVE  GovernanceColumns'
<1> DEFINE due(c) == \E t \in 1..MaxClock : Recorded[<<c, t>>] = "pending"
           kind == IF due("monthly") THEN "monthly" ELSE "weekly"
           row == [state |-> "pending", kind |-> kind, weekly |-> due("weekly"),
                   phase |-> IF due("weekly") THEN "weekly" ELSE "monthly", through |-> clock]
<1>1. row \in RunRows
  BY DEF GovernanceColumns, RunRows, Cadences
<1>2. run' = [run EXCEPT ![r] = row]
  BY DEF ScheduleRun
<1>3. run' \in [Runs -> RunRows]
  BY <1>1, <1>2, RunTyped
<1>4. Recorded \in [Occurrences -> ObligationStates]
  BY DEF GovernanceColumns, Recorded, ObligationStates
<1>5. obligation' \in [Occurrences -> ObligationStates]
  <2>1. obligation' = [o \in DOMAIN obligation |->
                         IF Recorded[o] = "pending" THEN "linked" ELSE Recorded[o]]
    BY DEF ScheduleRun
  <2> QED BY <1>4, <2>1 DEF GovernanceColumns, ObligationStates
<1>6. page' \in [PageKeys -> PageRows]
  <2>1. page' = [k \in PageKeys |->
                   IF k[1] = r /\ Member(k[2], kind, due("weekly"), k[3])
                   THEN [NoPage EXCEPT !.revision = knowledge[k[3]].revision] ELSE page[k]]
    BY DEF ScheduleRun
  <2>2. ASSUME NEW k \in PageKeys
        PROVE  [NoPage EXCEPT !.revision = knowledge[k[3]].revision] \in PageRows
    <3>1. knowledge[k[3]].revision \in 0..MaxGoverned
      <4>1. knowledge[k[3]] \in KnowledgeRows
        BY Keys DEF GovernanceColumns
      <4> QED BY <4>1, GovernanceConstants DEF KnowledgeRows
    <3> QED BY <3>1, GovernanceConstants DEF PageRows
  <2> QED BY <2>1, <2>2 DEF GovernanceColumns
<1> QED BY <1>3, <1>5, <1>6 DEF ScheduleRun, GovernanceColumns

LEMMA TakenUpTyped ==
  ASSUME GovernanceColumns, NEW w \in Governors, NEW r \in Runs,
         AdvancePhase(w, r) \/ ClaimPage(w, r) \/ ReadCovered(w, r) \/ FinalizeRun(w, r)
  PROVE  GovernanceColumns'
<1>0. run[r] \in RunRows
  BY DEF GovernanceColumns
<1>1. CASE AdvancePhase(w, r)
  <2> DEFINE c == [run[r] EXCEPT !.state = "pending",
                     !.phase = IF run[r].phase = "weekly" /\ run[r].kind = "monthly"
                               THEN "monthly" ELSE "finalize"]
  <2>1. c \in RunRows
    BY <1>0 DEF RunRows, Cadences
  <2>2. run' = [run EXCEPT ![r] = c]
    BY <1>1, <1>0 DEF AdvancePhase, GovernanceColumns, RunRows
  <2>3. run' \in [Runs -> RunRows]
    BY <2>1, <2>2, RunTyped
  <2> QED BY <1>1, <2>3 DEF AdvancePhase, GovernanceColumns
<1>2. CASE ClaimPage(w, r)
  <2> DEFINE key == <<r, run[r].phase, Min(RemainingPages(r))>>
             p == [page[key] EXCEPT !.state = "model_processing", !.holder = w, !.late = FALSE]
             g == [Governing EXCEPT !.pc = "model", !.key = key]
             c == [run[r] EXCEPT !.state = "processing"]
  <2>1. key \in PageKeys
    BY <1>2, TakenRun, LeastPage DEF ClaimPage, RemainingPages
  <2>2. p \in PageRows
    BY <2>1 DEF GovernanceColumns, PageRows
  <2>3. page' = [page EXCEPT ![key] = p]
    BY <1>2, <2>1 DEF ClaimPage, GovernanceColumns, PageRows
  <2>4. g \in Steps
    BY <2>1, GovernanceConstants DEF Steps
  <2>5. governor' = [governor EXCEPT ![w] = g]
    BY <1>2 DEF ClaimPage
  <2>6. c \in RunRows
    BY <1>0 DEF RunRows
  <2>7. run' = [run EXCEPT ![r] = c]
    BY <1>2, <1>0 DEF ClaimPage, GovernanceColumns, RunRows
  <2>8. /\ page' \in [PageKeys -> PageRows] /\ governor' \in [Governors -> Steps]
        /\ run' \in [Runs -> RunRows]
    BY <2>1, <2>2, <2>3, <2>4, <2>5, <2>6, <2>7, PageTyped, GovernorTyped, RunTyped
  <2> QED BY <1>2, <2>8 DEF ClaimPage, GovernanceColumns
<1>3. CASE ReadCovered(w, r)
  <2> DEFINE key == <<r, run[r].phase, Min(PagesIn(r, {"reviewed"}))>>
             done == page[key].proposal = "none" \/ key \in ledger
             g == [pc |-> IF done THEN "recorded" ELSE "read", key |-> key,
                   revision |-> IF done THEN 0 ELSE knowledge[key[3]].revision]
  <2>1. key \in PageKeys
    BY <1>3, TakenRun, LeastPage DEF ReadCovered
  <2>2. knowledge[key[3]].revision \in 0..MaxGoverned
    <3>1. knowledge[key[3]] \in KnowledgeRows
      BY <2>1, Keys DEF GovernanceColumns
    <3> QED BY <3>1, GovernanceConstants DEF KnowledgeRows
  <2>3. g \in Steps
    <3> HIDE DEF key, done
    <3> QED BY <2>1, <2>2, GovernanceConstants DEF Steps
  <2>4. governor' = [governor EXCEPT ![w] = g]
    BY <1>3 DEF ReadCovered
  <2>5. governor' \in [Governors -> Steps]
    BY <2>3, <2>4, GovernorTyped
  <2> QED BY <1>3, <2>5 DEF ReadCovered, GovernanceColumns
<1>4. CASE FinalizeRun(w, r)
  <2> DEFINE c == [run[r] EXCEPT !.state = IF run[r].state \in {"pending", "processing"}
                                           THEN "completed" ELSE run[r].state]
  <2>1. c \in RunRows
    BY <1>0 DEF RunRows
  <2>2. run' = [run EXCEPT ![r] = c]
    BY <1>4, <1>0 DEF FinalizeRun, GovernanceColumns, RunRows
  <2>3. run' \in [Runs -> RunRows]
    BY <2>1, <2>2, RunTyped
  <2>4. obligation' \in [Occurrences -> ObligationStates]
    BY <1>4 DEF FinalizeRun, GovernanceColumns, ObligationStates
  <2>5. cursor' \in [Cadences -> 0..MaxClock]
    BY <1>0, <1>4 DEF FinalizeRun, GovernanceColumns, RunRows
  <2> QED BY <1>4, <2>3, <2>4, <2>5 DEF FinalizeRun, GovernanceColumns
<1> QED BY <1>1, <1>2, <1>3, <1>4

LEMMA StepTyped ==
  ASSUME GovernanceColumns, NEW w \in Governors,
         \/ PageReviewed(w) \/ PageFailed(w) \/ SuccessNotRecorded(w)
         \/ ActOnTarget(w) \/ RecordAction(w) \/ PageApplied(w) \/ StepAborted(w)
  PROVE  GovernanceColumns'
<1> DEFINE key == governor[w].key
<1>0. /\ governor[w] \in Steps /\ key \in PageKeys /\ key[1] \in Runs /\ key[3] \in Governed
      /\ page[key] \in PageRows /\ run[key[1]] \in RunRows
      /\ knowledge[key[3]] \in KnowledgeRows
  BY KeyOf
<1> HIDE DEF key
<1>1. ASSUME NEW state \in {"retrying", "blocked"},
             run' = [run EXCEPT ![key[1]].state = state]
      PROVE  run' \in [Runs -> RunRows]
  <2>1. [run[key[1]] EXCEPT !.state = state] \in RunRows
    BY <1>0 DEF RunRows
  <2>2. run' = [run EXCEPT ![key[1]] = [run[key[1]] EXCEPT !.state = state]]
    BY <1>0, <1>1 DEF GovernanceColumns, RunRows
  <2> QED BY <1>0, <2>1, <2>2, RunTyped
<1>2. ASSUME NEW state \in {"prepared", "reviewed", "applied"}, NEW proposal \in Proposals,
             NEW h \in Governors \cup {NoGovernor},
             page' = [page EXCEPT ![key].state = state, ![key].proposal = proposal,
                                  ![key].holder = h]
      PROVE  page' \in [PageKeys -> PageRows]
  <2> DEFINE p == [page[key] EXCEPT !.state = state, !.proposal = proposal, !.holder = h]
  <2>1. p \in PageRows
    BY <1>0 DEF PageRows
  <2>2. page' = [page EXCEPT ![key] = p]
    BY <1>0, <1>2 DEF GovernanceColumns, PageRows
  <2> QED BY <1>0, <2>1, <2>2, PageTyped
<1>3. ASSUME NEW state \in {"prepared", "reviewed", "applied"},
             page' = [page EXCEPT ![key].state = state, ![key].holder = NoGovernor]
      PROVE  page' \in [PageKeys -> PageRows]
  <2> DEFINE p == [page[key] EXCEPT !.state = state, !.holder = NoGovernor]
  <2>1. p \in PageRows
    BY <1>0 DEF PageRows
  <2>2. page' = [page EXCEPT ![key] = p]
    BY <1>0, <1>3 DEF GovernanceColumns, PageRows
  <2> QED BY <1>0, <2>1, <2>2, PageTyped
<1>4. CASE PageReviewed(w)
  <2>1. PICK proposal \in Proposals :
          page' = [page EXCEPT ![key].state = "reviewed", ![key].proposal = proposal,
                               ![key].holder = NoGovernor]
    BY <1>4 DEF PageReviewed, Reviewable, key
  <2>2. page' \in [PageKeys -> PageRows]
    BY <1>2, <2>1
  <2>3. governor' \in [Governors -> Steps]
    BY <1>4, StepEndsTyped DEF PageReviewed
  <2> QED BY <1>4, <2>2, <2>3 DEF PageReviewed, GovernanceColumns
<1>5. CASE PageFailed(w)
  <2>1. page' \in [PageKeys -> PageRows]
    <3>1. \/ page' = page
          \/ page' = [page EXCEPT ![key].state = "prepared", ![key].holder = NoGovernor]
      BY <1>5 DEF PageFailed, key
    <3>2. page' = page => page' \in [PageKeys -> PageRows]
      BY DEF GovernanceColumns
    <3> QED BY <1>3, <3>1, <3>2
  <2>2. run' \in [Runs -> RunRows]
    <3>1. \/ run' = run
          \/ \E state \in {"retrying", "blocked"} : run' = [run EXCEPT ![key[1]].state = state]
      BY <1>5 DEF PageFailed, key
    <3>2. run' = run => run' \in [Runs -> RunRows]
      BY DEF GovernanceColumns
    <3> QED BY <1>1, <3>1, <3>2
  <2>3. governor' \in [Governors -> Steps]
    BY <1>5, StepEndsTyped DEF PageFailed
  <2> QED BY <1>5, <2>1, <2>2, <2>3 DEF PageFailed, GovernanceColumns
<1>6. CASE SuccessNotRecorded(w)
  <2>1. page' \in [PageKeys -> PageRows]
    BY <1>3, <1>6 DEF SuccessNotRecorded, key
  <2>2. run' \in [Runs -> RunRows]
    BY <1>1, <1>6 DEF SuccessNotRecorded, key
  <2>3. governor' \in [Governors -> Steps]
    BY <1>6, StepEndsTyped DEF SuccessNotRecorded
  <2> QED BY <1>6, <2>1, <2>2, <2>3 DEF SuccessNotRecorded, GovernanceColumns
<1>7. ASSUME NEW pc \in {"wrote", "recorded"}, governor' = [governor EXCEPT ![w].pc = pc]
      PROVE  governor' \in [Governors -> Steps]
  <2>1. [governor[w] EXCEPT !.pc = pc] \in Steps
    BY <1>0 DEF Steps
  <2>2. governor' = [governor EXCEPT ![w] = [governor[w] EXCEPT !.pc = pc]]
    BY <1>0, <1>7 DEF GovernanceColumns, Steps
  <2> QED BY <2>1, <2>2, GovernorTyped
<1>8. CASE ActOnTarget(w)
  <2>1. governor' \in [Governors -> Steps]
    BY <1>7, <1>8 DEF ActOnTarget
  <2>2. knowledge' \in [Governed -> KnowledgeRows]
    <3> DEFINE k == knowledge[key[3]]
    <3>1. \/ knowledge' = knowledge
          \/ k.revision < MaxGoverned
               /\ knowledge' = [knowledge EXCEPT ![key[3]] = ActedOn(k, key)]
      BY <1>8 DEF ActOnTarget, key
    <3>2. k.revision < MaxGoverned => ActedOn(k, key) \in KnowledgeRows
      <4>1. k.revision < MaxGoverned => k.revision + 1 \in 1..MaxGoverned
        BY <1>0, GovernanceConstants DEF KnowledgeRows
      <4>2. key[1] \in 0..MaxRuns /\ run[key[1]].through \in 0..MaxClock
        BY <1>0, GovernanceConstants DEF Runs, RunRows
      <4> QED BY <1>0, <4>1, <4>2 DEF ActedOn, KnowledgeRows
    <3> QED BY <1>0, <3>1, <3>2 DEF GovernanceColumns
  <2> QED BY <1>8, <2>1, <2>2 DEF ActOnTarget, GovernanceColumns
<1>9. CASE RecordAction(w)
  <2>1. governor' \in [Governors -> Steps]
    BY <1>7, <1>9 DEF RecordAction
  <2>2. ledger' \subseteq PageKeys
    BY <1>0, <1>9 DEF RecordAction, GovernanceColumns, key
  <2> QED BY <1>9, <2>1, <2>2 DEF RecordAction, GovernanceColumns
<1>10. CASE PageApplied(w)
  <2> DEFINE p == [page[key] EXCEPT !.state = IF page[key].state = "reviewed" THEN "applied"
                                              ELSE page[key].state]
  <2>1. p \in PageRows
    BY <1>0 DEF PageRows
  <2>2. page' = [page EXCEPT ![key] = p]
    BY <1>0, <1>10 DEF PageApplied, GovernanceColumns, PageRows, key
  <2>3. page' \in [PageKeys -> PageRows]
    BY <1>0, <2>1, <2>2, PageTyped
  <2>4. governor' \in [Governors -> Steps]
    BY <1>10, StepEndsTyped DEF PageApplied
  <2> QED BY <1>10, <2>3, <2>4 DEF PageApplied, GovernanceColumns
<1>11. CASE StepAborted(w)
  <2>1. governor' \in [Governors -> Steps]
    BY <1>11, StepEndsTyped DEF StepAborted
  <2> QED BY <1>11, <2>1 DEF StepAborted, GovernanceColumns
<1> QED BY <1>4, <1>5, <1>6, <1>8, <1>9, <1>10, <1>11

LEMMA GovernanceColumnsKept ==
  ASSUME GovernanceColumns, [GovernanceNext]_governanceVars
  PROVE  GovernanceColumns'
<1>1. CASE UNCHANGED governanceVars
  BY <1>1 DEF governanceVars, GovernanceColumns
<1>2. CASE GovernanceTick
  BY <1>2, GovernanceConstants DEF GovernanceTick, GovernanceColumns
<1>3. CASE RecordOccurrences
  <2>1. obligation' \in [Occurrences -> ObligationStates]
    BY <1>3 DEF RecordOccurrences, Recorded, GovernanceColumns, ObligationStates
  <2> QED BY <1>3, <2>1 DEF RecordOccurrences, GovernanceColumns
<1>4. ASSUME NEW m \in Governed, KnowledgeRevised(m)
      PROVE  GovernanceColumns'
  <2>1. PICK writer \in {"agent", "owner"}, archived \in {FALSE, knowledge[m].archived} :
          knowledge' = [knowledge EXCEPT ![m].revision = @ + 1, ![m].by = writer,
                                         ![m].archived = archived, ![m].revised = clock]
    BY <1>4 DEF KnowledgeRevised
  <2> DEFINE k == [knowledge[m] EXCEPT !.revision = knowledge[m].revision + 1, !.by = writer,
                                       !.archived = archived, !.revised = clock]
  <2>2. knowledge[m] \in KnowledgeRows /\ clock \in 0..MaxClock
    BY DEF GovernanceColumns
  <2>3. knowledge[m].revision + 1 \in 1..MaxGoverned /\ archived \in BOOLEAN
    <3>1. knowledge[m].revision \in 1..MaxGoverned /\ knowledge[m].archived \in BOOLEAN
      BY <2>2 DEF KnowledgeRows
    <3>2. archived = FALSE \/ archived = knowledge[m].archived
      OBVIOUS
    <3>3. archived \in BOOLEAN
      BY <3>1, <3>2, Zenon
    <3> QED BY <1>4, <3>1, <3>3, GovernanceConstants DEF KnowledgeRevised
  <2>4. k \in KnowledgeRows
    BY <2>2, <2>3 DEF KnowledgeRows
  <2>5. knowledge' = [knowledge EXCEPT ![m] = k]
    BY <2>1, <2>2 DEF GovernanceColumns, KnowledgeRows
  <2>6. knowledge' \in [Governed -> KnowledgeRows]
    BY <2>4, <2>5 DEF GovernanceColumns
  <2> QED BY <1>4, <2>6 DEF KnowledgeRevised, GovernanceColumns
<1>5. ASSUME NEW key \in PageKeys, PageLeaseExpires(key)
      PROVE  GovernanceColumns'
  <2>1. [page[key] EXCEPT !.late = TRUE] \in PageRows
    BY DEF GovernanceColumns, PageRows
  <2>2. page' = [page EXCEPT ![key] = [page[key] EXCEPT !.late = TRUE]]
    BY <1>5 DEF PageLeaseExpires, GovernanceColumns, PageRows
  <2>3. page' \in [PageKeys -> PageRows]
    BY <2>1, <2>2, PageTyped
  <2> QED BY <1>5, <2>3 DEF PageLeaseExpires, GovernanceColumns
<1> QED BY <1>1, <1>2, <1>3, <1>4, <1>5, ScheduledTyped, TakenUpTyped, StepTyped DEF GovernanceNext

\* Governance keeps its types with any number of Workers at once, leases expiring under
\* those still at work.
THEOREM GovernanceTyped == GovernanceSpec => []GovernanceTypeOK
<1>1. GovernanceInit => GovernanceTypeOK
  BY GovernanceStarts DEF GovernanceInv
<1>2. GovernanceTypeOK /\ [GovernanceNext]_governanceVars => GovernanceTypeOK'
  BY GovernanceTypes, GovernanceColumnsKept
    DEF GovernanceTypeOK, GovernanceColumns, RunRows, Steps, ObligationStates, Occurrences
<1> QED BY <1>1, <1>2, PTL DEF GovernanceSpec

(***************************************************************************)
(* Dreaming, governance, the health of the model and quality share no state: *)
(* each behaviour of the four together is, seen through the variables of one, *)
(* a behaviour of that one.                                                  *)
(***************************************************************************)
LEMMA UpkeepParts == AllSpec => DreamingSpec /\ GovernanceSpec /\ Spec /\ QualitySpec
<1>1. AllInit => DreamingInit /\ GovernanceInit /\ Init /\ QualityInit
  BY DEF AllInit
<1>2. [AllNext]_allVars => /\ [DreamingNext]_dreamVars /\ [GovernanceNext]_governanceVars
                           /\ [Next]_vars /\ [QualityNext]_qualityVars
  BY DEF AllNext, allVars
<1> QED BY <1>1, <1>2, PTL DEF AllSpec, DreamingSpec, GovernanceSpec, Spec, QualitySpec

\* Every Memory, run, page, incident and quality item that the background Worker works on
\* keeps its type, whichever component a behaviour of the suite is of, also with
\* governors that overlap.
THEOREM UpkeepTyped == AllSpec => []UpkeepTypeOK
<1>1. DreamInv => DreamingTypeOK
  BY DEF DreamInv
<1>2. QualityInv => QualityTypeOK
  BY DEF QualityInv
<1>3. /\ AllInit => part \in Components
      /\ part \in Components /\ [AllNext]_allVars => (part \in Components)'
  BY DEF AllInit, AllNext, allVars, Of, Components
<1>4. AllSpec => [](part \in Components)
  BY <1>3, PTL DEF AllSpec
<1>5. /\ part \in Components /\ DreamingTypeOK /\ GovernanceTypeOK /\ TypeOK /\ QualityTypeOK
      => UpkeepTypeOK
  BY DEF UpkeepTypeOK
<1> QED BY <1>1, <1>2, <1>4, <1>5, UpkeepParts, DreamingInvariant, GovernanceTyped, HealthTypes,
           QualityInvariant, PTL
=============================================================================
