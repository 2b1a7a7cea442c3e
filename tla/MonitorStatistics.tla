------------------------- MODULE MonitorStatistics -------------------------
(***************************************************************************)
(* What Monitor measures and tells.  A probe (Evaluate) asks a plugin      *)
(* without the lock, adds the measurement with it, and clients are told of *)
(* a plugin that is shut down; at any moment other threads read or reset   *)
(* the statistics, register, change the limits, or see the plugin go.      *)
(* When probes come and what restarts is in Monitor.                       *)
(*                                                                         *)
(* External: the plugins, the framework, Core::MeasurementType.  Resident  *)
(* memory stands for the four measures, which are set together.            *)
(*                                                                         *)
(* Not so, and not claimed: a measurement that is taken while a reset has  *)
(* read and not yet cleared is told to nobody; Measurement() returns a     *)
(* reference, so that its lock protects no copy; resetstats without a      *)
(* callsign resets nothing though it answers; limits and measurements of   *)
(* an unknown callsign are answered with ERROR_NONE.                       *)
(***************************************************************************)
EXTENDS Integers, FiniteSets, SequencesExt

CONSTANTS Configured,  \* sequence of [callsign, operational, memory, memorylimit, restart]
          Unit,        \* bytes of a unit of memorylimit
          Residents,   \* what a plugin may use
          NewLimits,   \* [window, limit] that clients set
          Watchers,     \* who registers
          MaxCount     \* bound of the measurements that are told apart

VARIABLES
  limits,       \* callsign -> _restartWindow, _restartLimit
  source,       \* callsigns with a _source
  operational,  \* callsigns with _operational
  measurement,  \* callsign -> [count, min, max, last]
  probe,        \* the source a run holds and how far it is, or None
  resetting,    \* callsigns whose statistics a reset has read
  observers,    \* _monitorObservers
  owed          \* history: who was registered when a plugin was measured above
                \* its threshold, and was not told since

statisticsVars == <<limits, source, operational, measurement, probe, resetting, observers, owed>>

None == [at |-> "none"]

-----------------------------------------------------------------------------
(* Open.                                                                   *)

\* An entry needs an interval, and the first for a callsign is kept.
Entries == {i \in DOMAIN Configured : Configured[i].operational # 0 \/ Configured[i].memory # 0}
Observables == {Configured[i].callsign : i \in Entries}
EntryOf(p) == Configured[Min({i \in Entries : Configured[i].callsign = p})]

Threshold(p) == EntryOf(p).memorylimit * Unit
HasRestartAllowed(p) == EntryOf(p).operational >= 0

-----------------------------------------------------------------------------
(* MeasurementType.                                                        *)

Unmeasured == [count |-> 0, min |-> 0, max |-> 0, last |-> 0]

Low(a, b) == IF a < b THEN a ELSE b
High(a, b) == IF a < b THEN b ELSE a

Measured(m, value) ==
  [count |-> Low(m.count + 1, MaxCount), last |-> value,
   min |-> IF m.count = 0 THEN value ELSE Low(m.min, value), max |-> High(m.max, value)]

HasMeasurements(p) == measurement[p].count # 0

-----------------------------------------------------------------------------
(* What is told, in four ways.                                             *)

Data(p) == [name |-> p, measurement |-> measurement[p], operational |-> p \in operational]

\* Process, GET.
GetAll == {Data(p) : p \in {q \in Observables : HasMeasurements(q)}}
GetOne(name) == {Data(p) : p \in {q \in Observables \cap {name} : HasMeasurements(q)}}

\* get_status: also of what has no measurement; no name is all of them.
Status(name) ==
  {[data |-> Data(p), restart |-> IF HasRestartAllowed(p) THEN {limits[p]} ELSE {}] :
     p \in IF name = "" THEN Observables ELSE Observables \cap {name}}

\* IMemoryMonitor; an empty set is a parameter that is left as it was.
MeasurementData(name) == {Data(p) : p \in {q \in Observables \cap {name} : HasMeasurements(q)}}
RestartingLimits(name) == {limits[p] : p \in {q \in Observables \cap {name} : HasRestartAllowed(q)}}

-----------------------------------------------------------------------------
(* The plugin comes and goes.                                              *)

Activated(p) ==
  /\ p \notin source
  /\ source' = source \cup {p} /\ operational' = operational \cup {p}
  /\ UNCHANGED <<limits, measurement, probe, resetting, observers, owed>>

Deactivated(p) ==
  /\ p \in source
  /\ source' = source \ {p} /\ operational' = operational \ {p}
  /\ UNCHANGED <<limits, measurement, probe, resetting, observers, owed>>

-----------------------------------------------------------------------------
(* Evaluate.                                                               *)

Source(p) ==
  /\ probe = None /\ p \in source
  /\ probe' = [at |-> "asks", plugin |-> p, why |-> {}]
  /\ UNCHANGED <<limits, source, operational, measurement, resetting, observers, owed>>

\* Also of a plugin that is gone by now.
IsOperational ==
  /\ probe.at = "asks" /\ EntryOf(probe.plugin).operational # 0
  /\ \E answer \in BOOLEAN :
       /\ operational' = IF answer THEN operational \cup {probe.plugin}
                                   ELSE operational \ {probe.plugin}
       /\ probe' = [probe EXCEPT !.at = "measures",
                                 !.why = IF answer THEN {} ELSE {"NOT_OPERATIONAL"}]
  /\ UNCHANGED <<limits, source, measurement, resetting, observers, owed>>

NoOperationalSlot ==
  /\ probe.at = "asks"
  /\ probe' = [probe EXCEPT !.at = "measures"]
  /\ UNCHANGED <<limits, source, operational, measurement, resetting, observers, owed>>

Exceeds(p, resident) == Threshold(p) # 0 /\ resident > Threshold(p)

AddMeasurements ==
  /\ probe.at = "measures" /\ EntryOf(probe.plugin).memory # 0
  /\ \E resident \in Residents :
       LET p == probe.plugin IN
       /\ measurement' = [measurement EXCEPT ![p] = Measured(@, resident)]
       /\ probe' = [probe EXCEPT !.at = "acts",
                      !.why = @ \cup (IF Exceeds(p, resident) THEN {"EXCEEDED_MEMORY"} ELSE {})]
       /\ owed' = IF Threshold(p) # 0 /\ resident > Threshold(p)
                    THEN owed \cup (observers \X {p}) ELSE owed
  /\ UNCHANGED <<limits, source, operational, resetting, observers>>

NoMemorySlot ==
  /\ probe.at = "measures"
  /\ probe' = [probe EXCEPT !.at = "acts"]
  /\ UNCHANGED <<limits, source, operational, measurement, resetting, observers, owed>>

\* The reason that is told and given to the job.
Reason == IF "EXCEEDED_MEMORY" \in probe.why THEN "EXCEEDED_MEMORY" ELSE "NOT_OPERATIONAL"

\* Mutant: a plugin that has gone meanwhile is not worth a word.
ToldWhileThere == IF probe.plugin \in source THEN observers ELSE {}

\* NotifyStatusChanged: all in the list, with its lock.
NotifyStatusChanged == observers

Acts ==
  /\ probe.at = "acts"
  /\ probe' = None
  /\ owed' = IF probe.why # {} /\ Reason = "EXCEEDED_MEMORY"
               THEN owed \ (NotifyStatusChanged \X {probe.plugin}) ELSE owed
  /\ UNCHANGED <<limits, source, operational, measurement, resetting, observers>>

-----------------------------------------------------------------------------
(* Watchers.                                                                *)

Register(c) ==
  /\ c \notin observers
  /\ observers' = observers \cup {c}
  /\ UNCHANGED <<limits, source, operational, measurement, probe, resetting, owed>>

Unregister(c) ==
  /\ c \in observers
  /\ observers' = observers \ {c}
  /\ owed' = {o \in owed : o[1] # c}
  /\ UNCHANGED <<limits, source, operational, measurement, probe, resetting>>

\* Process, POST; restartlimits; RestartingLimits.
Update(name, new) ==
  /\ limits' = IF name \in Observables THEN [limits EXCEPT ![name] = new] ELSE limits
  /\ UNCHANGED <<source, operational, measurement, probe, resetting, observers, owed>>

\* Process, PUT; resetstats: the statistics are read...
ResetReads(p) ==
  /\ p \notin resetting
  /\ resetting' = resetting \cup {p}
  /\ UNCHANGED <<limits, source, operational, measurement, probe, observers, owed>>

\* ...and then cleared.
Reset(p) ==
  /\ p \in resetting
  /\ resetting' = resetting \ {p}
  /\ measurement' = [measurement EXCEPT ![p] = Unmeasured]
  /\ UNCHANGED <<limits, source, operational, probe, observers, owed>>

\* ResetStatistics answers whether there is such a plugin.
ResetStatistics(p) ==
  /\ measurement' = [measurement EXCEPT ![p] = Unmeasured]
  /\ UNCHANGED <<limits, source, operational, probe, resetting, observers, owed>>

-----------------------------------------------------------------------------
Init ==
  /\ limits = [p \in Observables |-> EntryOf(p).restart]
  /\ source = {} /\ operational = {} /\ probe = None /\ observers = {} /\ owed = {}
  /\ measurement = [p \in Observables |-> Unmeasured]
  /\ resetting = {}

Next ==
  \/ IsOperational \/ NoOperationalSlot \/ AddMeasurements \/ NoMemorySlot \/ Acts
  \/ \E p \in Observables : Activated(p) \/ Deactivated(p) \/ Source(p)
                            \/ ResetReads(p) \/ Reset(p) \/ ResetStatistics(p)
  \/ \E c \in Watchers : Register(c) \/ Unregister(c)
  \/ \E p \in {e.callsign : e \in ToSet(Configured)}, new \in NewLimits : Update(p, new)

Spec == Init /\ [][Next]_statisticsVars

-----------------------------------------------------------------------------
\* Who is registered when a plugin is measured above its threshold, and stays,
\* is told that it exceeded its memory before the run goes on, even if the
\* plugin or the statistics are gone by then (Evaluate, Dispatch,
\* NotifyStatusChanged).
ExceededIsTold ==
  \A o \in owed : probe # None /\ probe.plugin = o[2] /\ "EXCEEDED_MEMORY" \in probe.why

\* However clients ask, they are told the same: of what is configured with an
\* interval and was measured since its last reset, with a last value between
\* the extremes (the overloads of Snapshot).
AnswersAgree ==
  \A e \in ToSet(Configured) :
    LET p == e.callsign
        told == {s.data : s \in Status(p)}
    IN  /\ GetOne(p) = MeasurementData(p)
        /\ GetOne(p) = {d \in GetAll : d.name = p}
        /\ GetOne(p) = {d \in told : d.measurement.count # 0}
        /\ (told # {}) = (\E f \in ToSet(Configured) : f.callsign = p /\ (f.operational # 0 \/ f.memory # 0))
        /\ \A d \in GetOne(p) : d.measurement.last \in d.measurement.min .. d.measurement.max
        /\ \A s \in Status(p) : s.restart = RestartingLimits(p)

\* Both of it.
StatisticsAreTold == ExceededIsTold /\ AnswersAgree
=============================================================================
