------------------------ MODULE PerformanceMetrics ------------------------
(***************************************************************************)
(* The plugin that observes other plugins, one by its callsign or all of a *)
(* class, from their activation to their deactivation, and logs how a      *)
(* browser starts its applications.  An observable holds interfaces of the *)
(* plugin that it observes and is registered with them, and so does its    *)
(* logger: the build has the one that writes to the system log or the one  *)
(* that traces.                                                            *)
(*                                                                         *)
(* External: Thunder, which tells a new observer of the plugins that are   *)
(* active already; the interfaces of a plugin.                             *)
(*                                                                         *)
(* Not so, and not claimed: a reference to IStateController is left behind *)
(* (CreateObservable never releases the one that it asked for); a browser  *)
(* with IStateControl and without IStateController is not survived; the    *)
(* metrics that a launch is logged with are those of the last URL change,  *)
(* which need not be that of the page that has finished.                   *)
(***************************************************************************)
EXTENDS Naturals, Sequences

CONSTANTS Plugins,    \* plugins that there are
          Faces,      \* plugin -> interfaces that it has, a controller if a control
          OfClass,    \* the plugins of the class of the configuration
          Named,      \* the plugin that the configuration may name
          URLs,       \* that a browser loads; "about:blank" is one
          Host,       \* url -> its host
          MaxCycles,  \* bound: activations of a plugin
          MaxLoads    \* bound: plugin -> loads that count

VARIABLES
  build,       \* the logger: "syslog" or "trace"
  handler,     \* _handler: "none" "callsign" "classname"
  listening,   \* _notification is registered
  up, cycles,  \* plugin -> is active; activations
  observable,  \* plugin -> "none" "basic" "state" "browser" "webbrowser"
  held,        \* plugin -> objects that it has references to
  registered,  \* plugin -> interfaces that the observable is registered with
  loads,       \* plugin -> loads counted since Enable: [good, bad]
  logger,      \* plugin -> [snapshot, did, last]
  launches     \* history: plugin -> hosts of the launches logged since Enable

metricsVars == <<build, handler, listening, up, cycles, observable, held, registered,
                 loads, logger, launches>>

NoLoads == [good |-> 0, bad |-> 0]
FreshLogger == [snapshot |-> "none", did |-> FALSE, last |-> "none"]

Watched(p) == CASE handler = "callsign" -> p = Named
                [] handler = "classname" -> p \in OfClass
                [] OTHER -> FALSE

-----------------------------------------------------------------------------
(* The observables.                                                        *)

\* CreateObservable: the richest that the interfaces allow.
Kind(p) ==
  CASE "webbrowser" \in Faces[p] -> "webbrowser"
    [] "webbrowser" \notin Faces[p] /\ "browser" \in Faces[p] -> "browser"
    [] Faces[p] \cap {"webbrowser", "browser"} = {} /\ {"control", "controller"} \subseteq Faces[p]
         -> "state"
    [] OTHER -> "basic"

\* What the loggers hold between Enable and Disable.
SysLogHolds(p) ==
  {"logger"} \cup (Faces[p] \cap {"memory"})
  \cup IF {"memory", "process"} \subseteq Faces[p] THEN {"process"} ELSE {}

TraceHolds(p) == Faces[p] \cap {"memory"}

BasicHolds(p) == {"service"} \cup IF build = "syslog" THEN SysLogHolds(p) ELSE TraceHolds(p)

\* A state observable registers with what the plugin has of the two, a browser
\* with the browser too.
States(p) == Faces[p] \cap {"control", "controller"}
StateHolds(p) == BasicHolds(p) \cup States(p)
BrowserHolds(p) == StateHolds(p) \cup {"browser"}
WebBrowserHolds(p) == StateHolds(p) \cup {"webbrowser"}

Registrations(p) ==
  CASE Kind(p) = "basic" -> {} [] Kind(p) = "state" -> States(p) [] OTHER -> {Kind(p)} \cup States(p)

\* What CreateObservable leaves: the controller that it asked for, too.
Holds(p) ==
  (Faces[p] \cap {"controller"})
  \cup CASE Kind(p) = "basic" -> BasicHolds(p)
         [] Kind(p) = "state" -> StateHolds(p)
         [] Kind(p) = "browser" -> BrowserHolds(p)
         [] OTHER -> WebBrowserHolds(p)

\* Mutant: the system log keeps the memory of the web process.
ProcessKept == {"logger", "memory"}

\* Disable of the loggers.
SysLogReleases == {"logger", "memory", "process"}
TraceReleases == {"memory"}

BasicReleases == {"service"} \cup IF build = "syslog" THEN SysLogReleases ELSE TraceReleases

\* Cleanup: one reference, and there are two to the controller if there is a
\* control, since the constructor has taken one then.
StateReleases(p) ==
  BasicReleases \cup {"control"} \cup IF "control" \in Faces[p] THEN {} ELSE {"controller"}
BrowserReleases(p) == {"browser"} \cup StateReleases(p)
WebBrowserReleases(p) == {"webbrowser"} \cup StateReleases(p)

Releases(p) ==
  CASE observable[p] = "basic" -> BasicReleases
    [] observable[p] = "state" -> StateReleases(p)
    [] observable[p] = "browser" -> BrowserReleases(p)
    [] OTHER -> WebBrowserReleases(p)

\* Activated and Deactivated of the handlers, for each plugin of P.
Observe(P) ==
  /\ observable' = [p \in Plugins |-> IF p \in P THEN Kind(p) ELSE observable[p]]
  /\ held' = [p \in Plugins |-> held[p] \cup IF p \in P THEN Holds(p) ELSE {}]
  /\ registered' = [p \in Plugins |-> IF p \in P THEN Registrations(p) ELSE registered[p]]
  /\ UNCHANGED <<loads, logger, launches>>

Disable(P) ==
  /\ observable' = [p \in Plugins |-> IF p \in P THEN "none" ELSE observable[p]]
  /\ held' = [p \in Plugins |-> held[p] \ IF p \in P THEN Releases(p) ELSE {}]
  /\ registered' = [p \in Plugins |-> IF p \in P THEN {} ELSE registered[p]]
  /\ loads' = [p \in Plugins |-> IF p \in P THEN NoLoads ELSE loads[p]]
  /\ logger' = [p \in Plugins |-> IF p \in P THEN FreshLogger ELSE logger[p]]
  /\ launches' = [p \in Plugins |-> IF p \in P THEN << >> ELSE launches[p]]

Unobserved == UNCHANGED <<observable, held, registered, loads, logger, launches>>

-----------------------------------------------------------------------------
(* The plugin.                                                             *)

\* A configuration that names both a callsign and a class, or neither, is an
\* error; Thunder calls Deinitialize after it.
Initialize(choice) ==
  /\ handler = "none" /\ choice \in {"callsign", "classname"}
  /\ handler' = choice /\ listening' = TRUE
  /\ Observe({p \in Plugins : up[p] /\ IF choice = "callsign" THEN p = Named ELSE p \in OfClass})
  /\ UNCHANGED <<build, up, cycles>>

InitializeFails ==
  /\ handler = "none"
  /\ Unobserved /\ UNCHANGED <<build, handler, listening, up, cycles>>

\* Unregister, then the observables of the plugins that are still active.
Deinitialize ==
  /\ handler # "none" /\ handler' = "none" /\ listening' = FALSE
  /\ Disable({p \in Plugins : observable[p] # "none"})
  /\ UNCHANGED <<build, up, cycles>>

PluginActivated(p) ==
  /\ ~up[p] /\ cycles[p] < MaxCycles
  /\ up' = [up EXCEPT ![p] = TRUE] /\ cycles' = [cycles EXCEPT ![p] = @ + 1]
  /\ IF listening /\ Watched(p) THEN Observe({p}) ELSE Unobserved
  /\ UNCHANGED <<build, handler, listening>>

PluginDeactivated(p) ==
  /\ up[p] /\ up' = [up EXCEPT ![p] = FALSE]
  /\ IF listening /\ Watched(p) /\ observable[p] # "none" THEN Disable({p}) ELSE Unobserved
  /\ UNCHANGED <<build, handler, listening, cycles>>

-----------------------------------------------------------------------------
(* The browser and the system log.                                         *)

Browsing(p) == registered[p] \cap {"webbrowser", "browser"} # {}

\* URLChange: metrics are taken, and kept for the next launch that is logged.
URLChange(p, url) ==
  /\ Browsing(p) /\ build = "syslog" /\ MaxLoads[p] > 0 /\ url # "about:blank"
  /\ logger' = [logger EXCEPT ![p].snapshot = url]
  /\ UNCHANGED <<build, handler, listening, up, cycles, observable, held, registered, loads,
                 launches>>

\* OutputLoadFinishedMetrics.
Log(l, url) == [l EXCEPT !.did = TRUE, !.last = Host[url]]

\* LoadFinished, and LoadFailed of a web browser.
LoadFinished(p, url, good) ==
  /\ Browsing(p) /\ loads[p].good + loads[p].bad < MaxLoads[p]
  /\ ~good => observable[p] = "webbrowser"
  /\ loads' = IF url = "about:blank" THEN loads
              ELSE [loads EXCEPT ![p] = IF good THEN [@ EXCEPT !.good = @ + 1]
                                        ELSE [@ EXCEPT !.bad = @ + 1]]
  /\ LET did == logger[p].did /\ Host[url] = logger[p].last
         log == build = "syslog" /\ url # "about:blank" /\ ~did
     IN  /\ logger' = IF log THEN [logger EXCEPT ![p] = Log(@, url)] ELSE logger
         /\ launches' = IF log THEN [launches EXCEPT ![p] = Append(@, Host[url])] ELSE launches
  /\ UNCHANGED <<build, handler, listening, up, cycles, observable, held, registered>>

-----------------------------------------------------------------------------

Init ==
  /\ build \in {"syslog", "trace"} /\ handler = "none" /\ listening = FALSE
  /\ up = [p \in Plugins |-> FALSE] /\ cycles = [p \in Plugins |-> 0]
  /\ observable = [p \in Plugins |-> "none"]
  /\ held = [p \in Plugins |-> {}] /\ registered = [p \in Plugins |-> {}]
  /\ loads = [p \in Plugins |-> NoLoads] /\ logger = [p \in Plugins |-> FreshLogger]
  /\ launches = [p \in Plugins |-> << >>]

Next ==
  \/ (\E choice \in {"callsign", "classname"} : Initialize(choice)) \/ InitializeFails
  \/ Deinitialize
  \/ \E p \in Plugins : PluginActivated(p) \/ PluginDeactivated(p)
  \/ \E p \in Plugins, url \in URLs : URLChange(p, url) \/ \E good \in BOOLEAN : LoadFinished(p, url, good)

Spec == Init /\ [][Next]_metricsVars

-----------------------------------------------------------------------------

\* While the plugin is active it observes those it has to that are active
\* themselves, whichever came first.  Of a plugin that it does not observe it
\* holds nothing, with the exception of the controller, and is registered
\* with nothing.
ObservesWhileActive ==
  \A p \in Plugins :
    /\ observable[p] # "none" <=> listening /\ Watched(p) /\ up[p]
    /\ observable[p] = "none" => /\ registered[p] = {}
                                 /\ held[p] \subseteq {"controller"}
    /\ registered[p] \subseteq held[p]

\* A launch is logged once: not again when further pages of the application
\* are loaded, and again when it comes back after another one.
LaunchesLoggedOnce ==
  \A p \in Plugins : \A i \in 1 .. Len(launches[p]) - 1 : launches[p][i] # launches[p][i + 1]

\* What is observed, and what is logged of it.
LaunchesAreMeasured == ObservesWhileActive /\ LaunchesLoggedOnce
=============================================================================
