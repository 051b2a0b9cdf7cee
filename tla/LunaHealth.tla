------------------------------ MODULE LunaHealth ------------------------------
(***************************************************************************)
(* The health of the background model: the singleton luna_health_state and *)
(* the table model_health_incidents, written by updateHealthForFailure and *)
(* updateHealthForSuccess of src/luna/operations.ts, and the notices that  *)
(* prepareNextModelHealthReminder of src/review/reminders.ts makes of them.*)
(*                                                                         *)
(* Reports carry a time.  The queue of Luna operations reports the time of *)
(* the outcome; governance, quality, duplicate and conflict work reports   *)
(* the time at which the Worker's iteration started, which a failure of    *)
(* the queue in the same iteration has overtaken.                          *)
(***************************************************************************)
EXTENDS Integers, FiniteSets

CONSTANTS
  DegradeFailures,   \* consecutive failures for "degraded" (3)
  DegradeSpan,       \* and the time they have to span (2 minutes)
  UnavailableSpan,   \* time without recovery for "unavailable" (30 minutes)
  SchemaLimit,       \* schema_invalid failures in a row for "unavailable" (5)
  MaxTime,           \* bound on the clock
  MaxFailures,       \* bound on consecutive_failures
  MaxIncidents,      \* bound on the incidents ever opened
  MaxTransitions     \* bound on transition_count

ASSUME LunaHealthAssumption ==
  /\ {DegradeFailures, DegradeSpan, UnavailableSpan, SchemaLimit} \subseteq Nat \ {0}
  /\ {MaxTime, MaxFailures, MaxIncidents, MaxTransitions} \subseteq Nat

VARIABLES
  health,      \* luna_health_state
  incidents,   \* model_health_incidents, in order of incident_id
  notices,     \* digests of the reminder_obligations ever inserted
  now,
  started,     \* "now" of the Worker's iteration
  successes    \* successes reported since the last failure, up to 2

vars == <<health, incidents, notices, now, started, successes>>

Unknown == -1     \* NULL for a time
NoIncident == 0

Time == 0..MaxTime
Failure == {"immediate", "schema_invalid", "transient"}

NewHealth == [state |-> "healthy", failures |-> 0, schema |-> 0,
              first |-> Unknown, last |-> Unknown, probe |-> Unknown,
              incident |-> NoIncident]

Init ==
  /\ health = NewHealth
  /\ incidents = [i \in {} |-> 0]
  /\ notices = {}
  /\ now = 0 /\ started = 0
  /\ successes = 0

-----------------------------------------------------------------------------
\* The times a report may carry.
ReportedAt == {now, started}

\* nextState of updateHealthForFailure.
StateAfter(category, failures, schema, span) ==
  IF category = "immediate" \/ schema >= SchemaLimit \/ span >= UnavailableSpan
  THEN "unavailable"
  ELSE IF failures >= DegradeFailures /\ span >= DegradeSpan
  THEN "degraded"
  ELSE health.state

NextIncident == Cardinality(DOMAIN incidents) + 1

\* Faulty: an open incident keeps its state, or does not count transitions.
IncidentKeepsState(next) ==
  IF next = "healthy" \/ next = health.state \/ health.incident # NoIncident
  THEN incidents
  ELSE [i \in DOMAIN incidents \cup {NextIncident} |->
          IF i = NextIncident
          THEN [state |-> next, transitions |-> 1, pending |-> TRUE]
          ELSE incidents[i]]

TransitionsNotCounted(next) ==
  IF next # "healthy" /\ next # health.state /\ health.incident # NoIncident
  THEN [incidents EXCEPT ![health.incident] = [@ EXCEPT !.state = next, !.pending = TRUE]]
  ELSE IncidentKeepsState(next)

\* A transition opens an incident, or moves the open one and notifies again.
IncidentsAfter(next) ==
  IF next = "healthy" \/ next = health.state
  THEN incidents
  ELSE IF health.incident = NoIncident
  THEN [i \in DOMAIN incidents \cup {NextIncident} |->
          IF i = NextIncident
          THEN [state |-> next, transitions |-> 1, pending |-> TRUE]
          ELSE incidents[i]]
  ELSE [incidents EXCEPT ![health.incident] =
          [state |-> next, transitions |-> @.transitions + 1, pending |-> TRUE]]

\* updateHealthForFailure.
Fail(category, at) ==
  LET failures == health.failures + 1
      schema == IF category = "schema_invalid" THEN health.schema + 1 ELSE 0
      first == IF health.first = Unknown THEN at ELSE health.first
      next == StateAfter(category, failures, schema, at - first)
      opened == next # "healthy" /\ health.incident = NoIncident
  IN /\ health.failures < MaxFailures
     /\ opened => NextIncident <= MaxIncidents
     /\ health' = [state |-> next, failures |-> failures, schema |-> schema,
                   first |-> first, last |-> at, probe |-> Unknown,
                   incident |-> IF opened THEN NextIncident ELSE health.incident]
     /\ incidents' = IncidentsAfter(next)
     /\ \A i \in DOMAIN incidents' : incidents'[i].transitions <= MaxTransitions
     /\ successes' = 0
     /\ UNCHANGED <<notices, now, started>>

\* Faulty: no probe is asked for.
RecoverAtOnce == health.state # "healthy"

CanRecover ==
  /\ health.state # "healthy"
  /\ health.probe # Unknown
  /\ health.last = Unknown \/ health.probe >= health.last

\* Faulty: the incident stays open, or its state is copied to the health.
RecoverSilently ==
  /\ CanRecover
  /\ health' = [NewHealth EXCEPT !.last = health.last]
  /\ UNCHANGED incidents

RecoverByCopy ==
  /\ CanRecover
  /\ health' = [NewHealth EXCEPT !.state = "recovered", !.last = health.last]
  /\ UNCHANGED incidents

\* updateHealthForSuccess.
Recover ==
  /\ CanRecover
  /\ incidents' = IF health.incident = NoIncident THEN incidents
                  ELSE [incidents EXCEPT ![health.incident] =
                          [@ EXCEPT !.state = "recovered", !.pending = TRUE]]
  /\ health' = [NewHealth EXCEPT !.last = health.last]

StayHealthy ==
  /\ health.state = "healthy"
  /\ health' = [NewHealth EXCEPT !.last = health.last, !.incident = health.incident]
  /\ UNCHANGED incidents

Probe(at) ==
  /\ health.state # "healthy" /\ ~CanRecover
  /\ health' = [health EXCEPT !.probe = IF @ = Unknown THEN at ELSE @]
  /\ UNCHANGED incidents

Succeed(at) ==
  /\ Recover \/ StayHealthy \/ Probe(at)
  /\ successes' = IF successes = 0 THEN 1 ELSE 2
  /\ UNCHANGED <<notices, now, started>>

\* prepareNextModelHealthReminder: INSERT OR IGNORE one obligation for all
\* pending incidents, under a digest of their states, and clear the flags.
Pending == {i \in DOMAIN incidents : incidents[i].pending}

PrepareReminder ==
  /\ Pending # {}
  /\ notices' = notices \cup
       {{<<i, incidents[i].state, incidents[i].transitions>> : i \in Pending}}
  /\ incidents' = [i \in DOMAIN incidents |-> [incidents[i] EXCEPT !.pending = FALSE]]
  /\ UNCHANGED <<health, now, started, successes>>

\* runWorker starts the next iteration.
StartIteration ==
  /\ started # now
  /\ started' = now
  /\ UNCHANGED <<health, incidents, notices, now, successes>>

Tick ==
  /\ now < MaxTime
  /\ now' = now + 1
  /\ UNCHANGED <<health, incidents, notices, started, successes>>

Next ==
  \/ \E at \in ReportedAt : Succeed(at) \/ \E category \in Failure : Fail(category, at)
  \/ PrepareReminder
  \/ StartIteration
  \/ Tick

Spec == Init /\ [][Next]_vars

-----------------------------------------------------------------------------
TypeOK ==
  /\ health \in [state: {"healthy", "degraded", "unavailable"},
                 failures: Nat, schema: Nat, first: Time \cup {Unknown},
                 last: Time \cup {Unknown}, probe: Time \cup {Unknown},
                 incident: DOMAIN incidents \cup {NoIncident}]
  /\ DOMAIN incidents = 1..Cardinality(DOMAIN incidents)
  /\ \A i \in DOMAIN incidents :
       incidents[i] \in [state: {"degraded", "unavailable", "recovered"},
                         transitions: Nat, pending: BOOLEAN]
  /\ now \in Time /\ started \in 0..now
  /\ successes \in 0..2

(***************************************************************************)
(* What the user is shown agrees with what the Worker acts on: there is an *)
(* unrecovered incident exactly while the model is unhealthy, it is the    *)
(* only one, and it has the model's state (operations.ts:297, 373).        *)
(***************************************************************************)
OneOpenIncident ==
  /\ {i \in DOMAIN incidents : incidents[i].state # "recovered"}
       = IF health.state = "healthy" THEN {} ELSE {health.incident}
  /\ health.state # "healthy" => incidents[health.incident].state = health.state

(***************************************************************************)
(* Two successes without a failure between them end every incident         *)
(* (SPEC.md:657), with one exception: a probe dated before the last        *)
(* failure keeps it open.  Neither the kind nor the number of failures,    *)
(* nor how far the incident has got, does (operations.ts:354).  And no     *)
(* single lucky call ends an incident (operations.ts:361).                 *)
(***************************************************************************)
RecoveryIsExact ==
  /\ [](successes = 2 /\ health.state # "healthy" =>
          health.probe # Unknown /\ health.probe < health.last)
  /\ [][health.state # "healthy" /\ health'.state = "healthy" => successes >= 1]_vars

(***************************************************************************)
(* INSERT OR IGNORE never swallows a notice: whenever the flag of an       *)
(* incident is cleared its digest is a new one (reminders.ts:94).          *)
(***************************************************************************)
EveryNoticeIsNew ==
  [][(\E i \in DOMAIN incidents : incidents[i].pending /\ ~incidents'[i].pending)
       => notices' # notices]_vars

(***************************************************************************)
(* Both: an incident ends exactly when it should, and the owner is told of   *)
(* each change once.                                                       *)
(***************************************************************************)
IncidentsKept == RecoveryIsExact /\ EveryNoticeIsNew

=============================================================================
