------------------------------ MODULE Monitor ------------------------------
(***************************************************************************)
(* Monitor: a watchdog for plugins.  One job (MonitorObjects::Dispatch)    *)
(* probes every active observed plugin at its own interval and submits a   *)
(* job that deactivates the ones that fail; when such a plugin is gone     *)
(* (Deinitialized) it is restarted, unless that happened too often.        *)
(*                                                                         *)
(* Time is abstract: the next slot of a plugin may become due, and a       *)
(* restart window may end, at any moment.  What a probe reads from the     *)
(* plugin is any value.                                                    *)
(*                                                                         *)
(* External: the framework, which serializes the changes of one plugin,    *)
(* its worker pool, and its users.                                         *)
(***************************************************************************)
EXTENDS Integers, FiniteSets

CONSTANTS Plugins,              \* the observables
          Position,             \* of a plugin in the hash map
          OperationalInterval,  \* plugin -> _operationalInterval, 0 for none
          MemoryInterval,       \* plugin -> _memoryInterval, 0 for none
          Probeable,            \* plugins with a memory interface
          Restartable,          \* plugins that are restarted (_operationalEvaluate)
          Limits, Windows,      \* restart limits and windows that clients set
          MaxUint,              \* largest value of a counter, 2^w - 1
          MaxTried,             \* bounds of the history variables tried
          MaxAttempts,          \* and attempts
          Power                 \* n -> 2^n

ASSUME PositionAssumption == Position \in [Plugins -> Nat]
ASSUME IntervalAssumption ==
  /\ OperationalInterval \in [Plugins -> Nat] /\ MemoryInterval \in [Plugins -> Nat]
  /\ \A p \in Plugins : OperationalInterval[p] # 0 \/ MemoryInterval[p] # 0
ASSUME RestartAssumption ==
  /\ Probeable \subseteq Plugins /\ Restartable \subseteq Plugins
  /\ Limits \subseteq Nat /\ Windows \subseteq Nat
  /\ MaxUint \in Nat /\ MaxTried \in Nat \ {0} /\ MaxAttempts \in Nat \ {0}
\* The intervals and the limits fit a counter, whose number of values can be
\* had by doubling 1.
ASSUME WidthAssumption ==
  /\ \A p \in Plugins : OperationalInterval[p] <= MaxUint /\ MemoryInterval[p] <= MaxUint
  /\ \A l \in Limits : l <= MaxUint
  /\ \E S \in SUBSET (1 .. MaxUint + 1) :
       /\ 1 \in S /\ MaxUint + 1 \in S
       /\ \A n \in S : n = MaxUint + 1 \/ 2 * n \in S
ASSUME PowerAssumption ==
  /\ Power \in [0 .. MaxAttempts -> Nat] /\ Power[0] = 1
  /\ \A n \in 1 .. MaxAttempts : Power[n] = 2 * Power[n - 1]

VARIABLES
  \* the observed plugins, in the framework
  plugin,       \* "off", "starting", "on", "stopping" or, after a failure, "failing"
  kills,        \* plugins a job was submitted for that deactivates them
  starts,       \* plugins a job was submitted for that activates them
  \* MonitorObject
  active,       \* plugins with _active
  source,       \* plugins with a _source
  operationalSlots, memorySlots,
  due,          \* plugins with _nextSlot <= now
  inWindow,     \* plugins with _restartWindowStart > now
  restartCount,
  limit, window,  \* of the others they are not looked at
  \* Dispatch and its job
  job,          \* "idle", "submitted", "running", or "again": submitted while it runs
  wake,         \* the job waits for the slot of one of these; {}: for nothing
  todo,         \* plugins that this run has not come to
  slots,        \* those of them that were due at its scheduledTime
  probed,       \* plugin whose source the run holds
  \* history
  tried,        \* plugin -> restarts since its window opened
  attempts      \* plugin -> restarts since then, or since it was last given up

pluginVars  == <<plugin, kills, starts>>
slotVars    == <<operationalSlots, memorySlots>>
historyVars == <<tried, attempts>>
restartVars == <<inWindow, restartCount, historyVars>>
limitVars   == <<limit, window>>
runVars     == <<todo, slots, probed>>
vars == <<pluginVars, active, source, slotVars, due, restartVars, limitVars,
          job, wake, runVars>>

Init ==
  /\ plugin = [p \in Plugins |-> "off"] /\ kills = {} /\ starts = {}
  /\ active = {} /\ source = {}
  /\ operationalSlots = OperationalInterval /\ memorySlots = MemoryInterval
  /\ due = Plugins /\ inWindow = {}
  /\ restartCount = [p \in Plugins |-> 0] 
  /\ tried = [p \in Plugins |-> 0] /\ attempts = [p \in Plugins |-> 0]
  /\ limit \in [Restartable -> Limits] /\ window \in [Restartable -> Windows]
  /\ job = "submitted" /\ wake = {}
  /\ todo = {} /\ slots = {} /\ probed = {}

Wrap(n) == n % (MaxUint + 1)

-----------------------------------------------------------------------------
(* The plugins come and go.                                                *)

Becomes(p, s) == plugin' = [plugin EXCEPT ![p] = s]

\* The first half of Activated().
Activate(p) ==
  /\ plugin[p] = "off"
  /\ Becomes(p, "starting") /\ active' = active \cup {p}
  /\ UNCHANGED <<kills, source, slotVars, due, restartVars, limitVars, job, wake, runVars>>

\* A job that is scheduled for later is not submitted.
Submitted == CASE job = "idle"    -> "submitted"
               [] job = "running" -> "again"
               [] OTHER           -> job

\* Mutant: a plugin that appears is not waited for.
NotSubmitted == job

SubmittedByActivated == Submitted

\* The rest of it.
Activated(p) ==
  /\ plugin[p] = "starting" /\ Becomes(p, "on")
  /\ source' = source \cup ({p} \cap Probeable)
  /\ job' = SubmittedByActivated
  /\ wake' = IF job = "idle" THEN {} ELSE wake
  /\ UNCHANGED <<kills, starts, active, slotVars, due, restartVars, limitVars, runVars>>

\* Set(nullptr).
SourceDropped(p) == source \ {p}

\* Deactivated().
Deactivate(p, how) ==
  /\ plugin[p] = "on" /\ Becomes(p, how)
  /\ source' = SourceDropped(p) /\ active' = active \ {p}
  /\ UNCHANGED <<starts, slotVars, due, restartVars, limitVars, job, wake, runVars>>

ClientActivates(p)   == Activate(p) /\ UNCHANGED starts
ClientDeactivates(p) == Deactivate(p, "stopping") /\ UNCHANGED kills
\* Only the restart looks at the reason.
Crashes(p)           == p \in Restartable /\ Deactivate(p, "failing") /\ UNCHANGED kills

JobDeactivates(p) ==
  /\ p \in kills /\ kills' = kills \ {p}
  /\ IF plugin[p] = "on" THEN Deactivate(p, "failing")
     ELSE UNCHANGED <<plugin, starts, active, source, slotVars, due, restartVars,
                      limitVars, job, wake, runVars>>

JobActivates(p) ==
  /\ p \in starts /\ starts' = starts \ {p}
  /\ IF plugin[p] = "off" THEN Activate(p)
     ELSE UNCHANGED <<plugin, kills, active, source, slotVars, due, restartVars,
                      limitVars, job, wake, runVars>>

-----------------------------------------------------------------------------
(* Restarts.                                                               *)

WithinWindow(p) == p \in inWindow \/ window[p] = 0

\* Mutant: a restart outside the window is not counted inside the next.
CountedOnce(p) == IF WithinWindow(p) THEN restartCount[p] ELSE 0

Counted(p) == IF WithinWindow(p) THEN Wrap(2 * restartCount[p] + 1) ELSE 0

Allowed(p) == limit[p] = 0 \/ Counted(p) < limit[p]

CountAfter(p) == IF Allowed(p) THEN Counted(p) ELSE 0

RegisterRestart(p) ==
  /\ inWindow' = IF WithinWindow(p) THEN inWindow ELSE inWindow \cup {p}
  /\ restartCount' = [restartCount EXCEPT ![p] = CountAfter(p)]

OneMore(n, max) == IF n < max THEN n + 1 ELSE max

\* Deinitialized().
Restart(p) ==
  /\ RegisterRestart(p)
  /\ starts' = IF Allowed(p) THEN starts \cup {p} ELSE starts
  /\ tried' = [tried EXCEPT ![p] = IF ~Allowed(p) THEN @
                                   ELSE IF WithinWindow(p) THEN OneMore(@, MaxTried) ELSE 1]
  /\ attempts' = [attempts EXCEPT ![p] = IF ~Allowed(p) THEN 0
                                         ELSE IF WithinWindow(p) THEN OneMore(@, MaxAttempts) ELSE 1]

Deinitialized(p) ==
  /\ plugin[p] \in {"stopping", "failing"} /\ Becomes(p, "off")
  /\ IF plugin[p] = "failing" /\ p \in Restartable
       THEN Restart(p) ELSE UNCHANGED <<starts, restartVars>>
  /\ UNCHANGED <<kills, active, source, slotVars, due, limitVars, job, wake, runVars>>

WindowEnds(p) ==
  /\ p \in inWindow /\ inWindow' = inWindow \ {p}
  /\ UNCHANGED <<pluginVars, active, source, slotVars, due, restartCount, historyVars,
                 limitVars, job, wake, runVars>>

Update(p, w, l) ==
  /\ p \in Restartable
  /\ limit' = [limit EXCEPT ![p] = l] /\ window' = [window EXCEPT ![p] = w]
  /\ UNCHANGED <<pluginVars, active, source, slotVars, due, restartVars, job, wake, runVars>>

-----------------------------------------------------------------------------
(* Dispatch.                                                               *)

SlotIsDue(p) ==
  /\ p \notin due /\ due' = due \cup {p}
  /\ UNCHANGED <<pluginVars, active, source, slotVars, restartVars, limitVars, job, wake, runVars>>

\* The loop goes through _monitor in its order.
IsNext(p) == p \in todo /\ \A q \in todo : Position[p] <= Position[q]

DispatchStarts ==
  /\ job = "submitted" /\ (wake = {} \/ wake \cap due # {})
  /\ job' = "running" /\ wake' = {} /\ todo' = Plugins /\ slots' = due
  /\ UNCHANGED <<pluginVars, active, source, slotVars, due, restartVars, limitVars, probed>>

Skip(p) ==
  /\ probed = {} /\ IsNext(p) /\ p \notin active
  /\ todo' = todo \ {p} /\ slots' = slots \ {p}
  /\ UNCHANGED <<pluginVars, active, source, slotVars, due, restartVars, limitVars,
                 job, wake, probed>>

NotYet(p) ==
  /\ probed = {} /\ IsNext(p) /\ p \in active \ slots
  /\ todo' = todo \ {p} /\ wake' = wake \cup {p}
  /\ UNCHANGED <<pluginVars, active, source, slotVars, due, restartVars, limitVars,
                 job, slots, probed>>

\* _interval: the greatest common divisor, where 0 is divided by all.
Divides(d, n) == \E m \in 0 .. n : n = d * m
Common(p) == {d \in 1 .. OperationalInterval[p] + MemoryInterval[p] :
                Divides(d, OperationalInterval[p]) /\ Divides(d, MemoryInterval[p])}
Interval == [p \in Plugins |-> CHOOSE d \in Common(p) : \A e \in Common(p) : e <= d]

\* Evaluate() of a plugin that has no source.
EvaluateNothing(p) ==
  /\ probed = {} /\ IsNext(p) /\ p \in (active \cap slots) \ source
  /\ todo' = todo \ {p} /\ slots' = slots \ {p}
  /\ wake' = wake \cup {p} /\ due' = due \ {p}
  /\ UNCHANGED <<pluginVars, active, source, slotVars, restartVars, limitVars,
                 job, probed>>

\* It takes the source with the lock...
EvaluateStarts(p) ==
  /\ probed = {} /\ IsNext(p) /\ p \in active \cap slots \cap source
  /\ probed' = {p}
  /\ UNCHANGED <<pluginVars, active, source, slotVars, due, restartVars, limitVars,
                 job, wake, todo, slots>>

Left(slot, p) == Wrap(MaxUint + 1 + slot[p] - Interval[p])
Checks(slot, interval, p) == interval[p] # 0 /\ Left(slot, p) = 0

\* ...and asks it without.  What fails is deactivated, then Retrigger().
Evaluate(p) ==
  LET checks == \/ Checks(operationalSlots, OperationalInterval, p)
                \/ Checks(memorySlots, MemoryInterval, p)
      After(slot, interval) ==
        [slot EXCEPT ![p] = IF Checks(slot, interval, p) THEN interval[p] ELSE Left(slot, p)]
  IN
  /\ probed = {p} /\ probed' = {}
  /\ operationalSlots' = After(operationalSlots, OperationalInterval)
  /\ memorySlots' = After(memorySlots, MemoryInterval)
  /\ \/ UNCHANGED kills
     \/ checks /\ kills' = kills \cup {p}
  /\ todo' = todo \ {p} /\ slots' = slots \ {p}
  /\ wake' = wake \cup {p} /\ due' = due \ {p}
  /\ UNCHANGED <<plugin, starts, active, source, restartVars, limitVars, job>>

\* Mutant: the run that finds nothing forgets that it was submitted again.
EndsIdle == IF wake = {} THEN "idle" ELSE "submitted"

JobAfterRun == IF wake = {} /\ job = "running" THEN "idle" ELSE "submitted"

\* The job is scheduled for the first of the slots.  When it was submitted
\* meanwhile, the pool runs it at once or keeps that time.
DispatchEnds ==
  /\ job \in {"running", "again"} /\ todo = {}
  /\ job' = JobAfterRun
  /\ \/ UNCHANGED wake
     \/ job = "again" /\ wake' = {}
  /\ UNCHANGED <<pluginVars, active, source, slotVars, due, restartVars, limitVars, runVars>>

-----------------------------------------------------------------------------
Probes == \/ DispatchStarts \/ DispatchEnds
          \/ \E p \in Plugins : \/ Skip(p) \/ NotYet(p) \/ EvaluateNothing(p)
                                \/ EvaluateStarts(p) \/ Evaluate(p)

Handles(p) == Activated(p) \/ Deinitialized(p) \/ JobActivates(p) \/ JobDeactivates(p)

Clients(p) == \/ ClientActivates(p) \/ ClientDeactivates(p) \/ Crashes(p)
              \/ \E w \in Windows, l \in Limits : Update(p, w, l)

Next == Probes \/ \E p \in Plugins :
          Handles(p) \/ Clients(p) \/ SlotIsDue(p) \/ WindowEnds(p)

\* The pool runs the job, and time passes.  What the framework has begun need
\* not end.
Fairness == WF_vars(Probes) /\ \A p \in Plugins : WF_vars(SlotIsDue(p))

Spec == Init /\ [][Next]_vars /\ Fairness

-----------------------------------------------------------------------------
(* Properties                                                              *)

\* State of the monitor; only the run of the job holds a source.
TypeOK ==
  /\ plugin \in [Plugins -> {"off", "starting", "on", "stopping", "failing"}]
  /\ kills \subseteq Plugins /\ starts \subseteq Restartable
  /\ active = {p \in Plugins : plugin[p] \in {"starting", "on"}}
  /\ source \subseteq active
  /\ operationalSlots \in [Plugins -> 0 .. MaxUint] /\ memorySlots \in [Plugins -> 0 .. MaxUint]
  /\ due \subseteq Plugins /\ inWindow \subseteq Restartable
  /\ restartCount \in [Plugins -> 0 .. MaxUint]
  /\ tried \in [Plugins -> 0 .. MaxTried] /\ attempts \in [Plugins -> 0 .. MaxAttempts]
  /\ limit \in [Restartable -> Limits] /\ window \in [Restartable -> Windows]
  /\ job \in {"idle", "submitted", "running", "again"}
  /\ wake \subseteq Plugins /\ slots \subseteq todo /\ probed \subseteq todo
  /\ todo \subseteq Plugins /\ (todo # {} => job \in {"running", "again"})

\* The unsigned countdowns of two intervals, stepped by their common divisor,
\* hit zero: otherwise they wrap, and the check does not come for hours.
CountdownsHitZero ==
  \A p \in Plugins :
    /\ OperationalInterval[p] # 0 => operationalSlots[p] \in 1 .. OperationalInterval[p]
    /\ MemoryInterval[p] # 0 => memorySlots[p] \in 1 .. MemoryInterval[p]

\* As long as a plugin is active, the job that probes it is scheduled or runs:
\* it stops "due to lack of active observees" only.
ActiveIsWatched == (\E p \in Plugins : plugin[p] = "on") => job # "idle"

\* And its probes come: whoever is on and due is probed, or stops.
DueIsProbed == \A p \in Plugins :
  plugin[p] = "on" /\ p \in due ~> plugin[p] # "on" \/ p \notin due

GivenUp(p) == plugin[p] = "failing" /\ plugin'[p] = "off" /\ p \in Restartable /\ ~Allowed(p)

\* However windows end and limits change, a plugin is restarted as many times as
\* its limit allows before Deinitialized() gives it up, or its window ends.
RestartsInARow ==
  [][\A p \in Plugins :
       p \in starts' \ starts /\ limit[p] # 0 => attempts'[p] <= limit[p]]_vars

\* And it is not given up sooner than a count that doubles (0, 1, 3, 7) takes to
\* the limit: failures of an earlier window, or from before it was last given
\* up, are forgotten.
GivesUpNoSooner ==
  [][\A p \in Plugins :
       GivenUp(p) /\ attempts[p] < MaxAttempts => limit[p] < Power[attempts[p] + 1]]_vars

\* Restarts follow the count, between the two.
RestartsInOrder == RestartsInARow /\ GivesUpNoSooner

\* The job of the monitor, its countdowns and whom it watches.
JobInOrder == TypeOK /\ CountdownsHitZero /\ ActiveIsWatched

-----------------------------------------------------------------------------
(* Known not to hold.                                                      *)

\* "Maximum number or restarts to be attempted" within "Time period(in seconds)
\* within which failures must happen for the limit to be considered crossed"
\* (MonitorPlugin.md): no more restarts than the limit since the window opened.
\* But RegisterRestart() sets the count back when it gives up, and the window
\* stays open: a plugin that is activated by hand and fails is restarted again.
RestartsWithinLimit ==
  [][\A p \in Plugins :
       p \in starts' \ starts /\ limit[p] # 0 => tried'[p] <= limit[p]]_vars

\* Not checked: a job that deactivates a plugin meets the instance that failed.
\* The job names the plugin only: when the plugin failed by itself before the
\* job came, the instance that was restarted is deactivated as well.
KillsWhatFailed == \A p \in kills : p \notin starts

\* Not checked: "Giving up restarting of %s: Failed more than %d times within %d
\* seconds": Deinitialized() gives up after as many restarts as the limit allows.
\* But the count is raised by itself plus one: with the limit of 3 that
\* Monitor.conf.in configures there are two restarts.
GivesUpAtTheLimit ==
  [][\A p \in Plugins : GivenUp(p) => attempts[p] >= limit[p]]_vars
=============================================================================
