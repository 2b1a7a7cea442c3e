----------------------------- MODULE ShellProxy -----------------------------
(***************************************************************************)
(* The proxy that BridgeLink shows for a plugin of another Thunder: what    *)
(* it is asked it asks the plugin's shell, or the dispatcher that it has    *)
(* while the plugin is reported as activated.  Both are taken under the    *)
(* lock of the proxy, with a reference, and called outside of it, while    *)
(* the link may report another state or unlink the proxy.                  *)
(***************************************************************************)
EXTENDS Naturals

CONSTANT Clients   \* threads that ask

VARIABLES
  shell,         \* _shell is not null
  dispatcher,    \* _dispatcher is not null
  state,         \* _state
  report,        \* _report
  shellRefs,     \* references to the shell that the proxy and its clients own
  dispatcherRefs,
  asks           \* client -> [at, what, of]: the call that it makes

proxyVars == <<shell, dispatcher, state, report, shellRefs, dispatcherRefs, asks>>

States == {"DEACTIVATED", "ACTIVATED", "UNAVAILABLE"}

Quiet == [at |-> "none", what |-> "none", of |-> "none"]

Init ==
  /\ shell = TRUE /\ dispatcher = FALSE /\ state = "none" /\ report = "none"
  /\ shellRefs = 1 /\ dispatcherRefs = 0 /\ asks = [c \in Clients |-> Quiet]

\* What is asked of the shell, and what the answer is without one.
Paths ==
  {"Model", "Background", "Accessor", "WebPrefix", "Locator", "ClassName", "Callsign",
   "PersistentPath", "VolatilePath", "DataPath", "ProxyStubPath", "SystemPath",
   "PluginPath", "SystemRootPath", "SetSystemRootPath"}
Configuration ==
  {"GetLibrarySearchPaths", "StartMode", "SetStartMode", "Substitute", "Resumed",
   "SetResumed", "HashKey", "ConfigLine", "SetConfigLine", "SubSystems", "Notify"}
Registrations == {"RegisterPlugin", "UnregisterPlugin", "RegisterExtended", "UnregisterExtended"}
Operations ==
  {"QueryInterfaceByCallsign", "Activate", "Deactivate", "Unavailable", "Hibernate",
   "Reason", "Metadata", "QueryInterface"}

OfShell == Paths \cup Configuration \cup Registrations \cup Operations

\* What is asked of the dispatcher.
OfDispatcher == {"Invoke", "Subscribe", "Unsubscribe"}

\* The question that the shell is asked.
Asked(what) == IF what = "ConfigLine" THEN "SystemRootPath" ELSE what

Default(what) ==
  CASE what \in {"Background", "Resumed"} -> "TRUE"
    [] what \in {"SetSystemRootPath", "SetStartMode", "SetResumed", "SetConfigLine", "Activate",
                 "Deactivate", "Unavailable", "Hibernate", "Metadata"} \cup OfDispatcher
         -> "ERROR_UNAVAILABLE"
    [] what = "StartMode" -> "UNAVAILABLE"
    [] what = "Reason" -> "FAILURE"
    [] OTHER -> "nothing"

\* State() of the proxy itself.
State == IF shell THEN state ELSE "DESTROYED"

-----------------------------------------------------------------------------
(* A client asks.                                                          *)

Takes(c, what, of) == asks' = [asks EXCEPT ![c] = [at |-> "calling", what |-> what, of |-> of]]

\* Mutant: no reference of its own.
SourceOnly(c, what) ==
  /\ shell /\ Takes(c, Asked(what), "shell")
  /\ UNCHANGED <<shellRefs, dispatcherRefs>>

Source(c, what) ==
  /\ shell /\ Takes(c, Asked(what), "shell") /\ shellRefs' = shellRefs + 1
  /\ UNCHANGED dispatcherRefs

Link(c, what) ==
  /\ dispatcher /\ Takes(c, what, "dispatcher") /\ dispatcherRefs' = dispatcherRefs + 1
  /\ UNCHANGED shellRefs

Answered(c, what) ==
  /\ asks' = [asks EXCEPT ![c] = [at |-> "default", what |-> Default(what), of |-> "none"]]
  /\ UNCHANGED <<shellRefs, dispatcherRefs>>

Ask(c) ==
  /\ asks[c].at # "calling"
  /\ \/ \E what \in OfShell : Source(c, what) \/ (~shell /\ Answered(c, what))
     \/ \E what \in OfDispatcher : Link(c, what) \/ (~dispatcher /\ Answered(c, what))
  /\ UNCHANGED <<shell, dispatcher, state, report>>

Return(c) ==
  /\ asks[c].at = "calling" /\ asks' = [asks EXCEPT ![c] = Quiet]
  /\ IF asks[c].of = "shell"
     THEN shellRefs' = shellRefs - 1 /\ UNCHANGED dispatcherRefs
     ELSE dispatcherRefs' = dispatcherRefs - 1 /\ UNCHANGED shellRefs
  /\ UNCHANGED <<shell, dispatcher, state, report>>

-----------------------------------------------------------------------------
(* The link.                                                               *)

Note ==
  /\ shell /\ \E s \in States : report' = s
  /\ UNCHANGED <<shell, dispatcher, state, shellRefs, dispatcherRefs, asks>>

\* What QueryInterface may answer: a plugin that is active need not have one.
HasDispatcher == {FALSE, report = "ACTIVATED"}

\* Report: with the state come and go the dispatcher and its reference.
Report ==
  /\ shell /\ report # state /\ state' = report
  /\ dispatcher' \in HasDispatcher
  /\ dispatcherRefs' = dispatcherRefs + (IF dispatcher' THEN 1 ELSE 0)
                                      - (IF dispatcher THEN 1 ELSE 0)
  /\ UNCHANGED <<shell, report, shellRefs, asks>>

Unlink ==
  /\ shell /\ shell' = FALSE /\ shellRefs' = shellRefs - 1
  /\ UNCHANGED <<dispatcher, state, report, dispatcherRefs, asks>>

Next == (\E c \in Clients : Ask(c) \/ Return(c)) \/ Note \/ Report \/ Unlink

-----------------------------------------------------------------------------
(* Properties.                                                             *)

\* Whoever is asked by a client lives as long as the call takes, whatever the
\* link does meanwhile (Source, Invoke), and a plugin that is not reported as
\* activated is not invoked any more.
LivesDuringCall ==
  /\ \A c \in Clients : asks[c].at = "calling" =>
       IF asks[c].of = "shell" THEN shellRefs > 0 ELSE dispatcherRefs > 0
  /\ dispatcher => state = "ACTIVATED"
=============================================================================
