---------------------------- MODULE PluginShell ----------------------------
(***************************************************************************)
(* How the plugins of this repository come and go.  Thunder calls          *)
(* Initialize and, after a failed Initialize as well as to stop a plugin,  *)
(* Deinitialize.  In between the implementation of most plugins runs in a  *)
(* process of its own, which may die at any moment: the plugin's handler   *)
(* of that event submits a job that deactivates it.                        *)
(*                                                                         *)
(* Initialize and Deinitialize are sequences of steps, one list per        *)
(* plugin.  A step is taken if everything it needs is there: `when' holds  *)
(* the conditions of the if statements around it.                          *)
(*                                                                         *)
(* External: Thunder (its order of calls, its worker pool, what becomes of *)
(* the registrations in a process that died).                              *)
(***************************************************************************)
EXTENDS Naturals, Sequences, Functions

CONSTANTS Plugins,    \* the plugins of this instance, a subset of Names
          MaxCycles   \* bound: activations, a number

VARIABLES
  plugin,    \* the plugin of this behaviour
  life,      \* "deactivated" "initializing" "activated" "deinitializing"
  todo,      \* steps left of Initialize or Deinitialize
  failed,    \* Initialize returned a message
  have,      \* member pointers that are not null, and calls that succeeded
  refs,      \* thing -> references that the plugin owns
  regs,      \* registrations in force
  process,   \* of the implementation: "none" "inside" "alive" "dead"
  job,       \* a job DEACTIVATED/FAILURE is in the worker pool
  stray,     \* history: unregistered what was not registered
  orphans,   \* history: sinks that were still registered with a live implementation
             \* when it was released
  cycles

shellVars == <<plugin, life, todo, failed, have, refs, regs, process, job, stray,
               orphans, cycles>>

Names == {"WebKitBrowser", "OCDM", "DisplayInfo", "PlayerInfo", "DeviceIdentification",
          "Messenger", "Packager", "SecurityAgent", "DeviceInfo", "RustBridge",
          "Monitor", "MessageControl", "PerformanceMetrics"}

Step(op, x, when, must) == [op |-> op, x |-> x, when |-> when, must |-> must]

\* An AddRef; an object that this process makes; what the implementation (or
\* Thunder) returns, or not; a call that may fail.  With Must, a failure is
\* the message of Initialize.
Hold(x, when)      == Step("hold", x, when, FALSE)
Take(x, when)      == Step("take", x, when, FALSE)
MustTake(x, when)  == Step("take", x, when, TRUE)
Ask(x, when)       == Step("ask", x, when, FALSE)
MustAsk(x, when)   == Step("ask", x, when, TRUE)

\* Root: starts the implementation.  RemoteConnection, for the observer of
\* the memory of the process.
Root               == Step("root", "root", {}, TRUE)
Watch(when)        == Step("watch", "memory", when, FALSE)
MustWatch(when)    == Step("watch", "memory", when, TRUE)

\* Register and Unregister; Release, of a member that is set to nullptr and
\* of one that is not kept.
Put(r, when)       == Step("put", r, when, FALSE)
Pull(r, when)      == Step("pull", r, when, FALSE)
Drop(x)            == Step("drop", x, {x}, FALSE)

-----------------------------------------------------------------------------
(* The steps of the plugins.                                               *)

WebKitBrowserInitialize ==
  LET application == {"root", "stateControl", "application"} IN
  << Hold("service", {}), Put("process", {}), Root,
     MustTake("stateControl", {"root"}),
     MustTake("application", {"root", "stateControl"}),
     Put("RegisterAll", application),
     Take("stateController", application),
     Put("JStateController", {"stateController"}),
     Put("stateControllerSink", {"stateController"}),
     Put("JWebBrowser", application), Put("JWebBrowserExt", application),
     Take("cookieJar", application), Put("JBrowserCookieJar", {"cookieJar"}),
     Take("browserScripting", application),
     Put("JBrowserScripting", {"browserScripting"}),
     Put("browserSink", application),
     Watch(application),
     MustAsk("Configure", application),
     Put("stateControlSink", {"Configure"}),
     Put("subSystemSink", {"stateControl", "alive"}),
     Drop("stateControl") >>

\* With a process that died, neither interface is there to unregister from.
WebKitBrowserDeinitialize ==
  << Pull("process", {}),
     Pull("subSystemSink", {"root", "alive"}),
     Pull("stateControlSink", {"root", "alive"}),
     Drop("memory"),
     Pull("JBrowserCookieJar", {"cookieJar"}), Drop("cookieJar"),
     Pull("JBrowserScripting", {"browserScripting"}), Drop("browserScripting"),
     Pull("JWebBrowserExt", {"application"}), Pull("JWebBrowser", {"application"}),
     Pull("JStateController", {"stateController"}), Drop("stateController"),
     Pull("RegisterAll", {"application"}), Pull("browserSink", {"application"}),
     Drop("application"), Drop("root"), Drop("service") >>

\* Without a process of its own, the implementation has no connection and the
\* plugin does not start.
OCDMInitialize ==
  << Hold("service", {}), Put("process", {}), MustAsk("persistent", {}),
     Root,
     Put("RegisterAll", {"root"}), Put("JOpenCDM", {"root"}),
     MustWatch({"root"}) >>

OCDMDeinitialize ==
  << Pull("process", {}), Drop("memory"),
     Pull("JOpenCDM", {"root"}), Pull("RegisterAll", {"root"}),
     Drop("root"), Drop("service") >>

DisplayInfoInitialize ==
  << Hold("service", {}), Put("process", {}), Root,
     Put("connectionSink", {"root"}), Put("JConnectionProperties", {"root"}),
     MustTake("graphics", {"root"}), Put("JGraphicsProperties", {"graphics"}),
     MustTake("hdr", {"graphics"}), Put("JHDRProperties", {"hdr"}),
     Take("display", {"hdr"}), Put("JDisplayProperties", {"display"}) >>

\* Mutant: the HDR interface is not released.
HDRKept ==
  << Pull("process", {}),
     Pull("connectionSink", {"root"}), Pull("JConnectionProperties", {"root"}),
     Pull("JHDRProperties", {"hdr"}),
     Pull("JGraphicsProperties", {"graphics"}), Drop("graphics"),
     Pull("JDisplayProperties", {"display"}), Drop("display"),
     Drop("root"), Drop("service") >>

DisplayInfoDeinitialize ==
  << Pull("process", {}),
     Pull("connectionSink", {"root"}), Pull("JConnectionProperties", {"root"}),
     Pull("JHDRProperties", {"hdr"}), Drop("hdr"),
     Pull("JGraphicsProperties", {"graphics"}), Drop("graphics"),
     Pull("JDisplayProperties", {"display"}), Drop("display"),
     Drop("root"), Drop("service") >>

PlayerInfoInitialize ==
  << Hold("service", {}), Put("process", {}), Root,
     MustTake("audioCodecs", {"root"}), MustTake("videoCodecs", {"audioCodecs"}),
     Put("JPlayerProperties", {"videoCodecs"}),
     Take("dolby", {"videoCodecs"}),
     Put("dolbySink", {"dolby"}), Put("JDolbyOutput", {"dolby"}) >>

PlayerInfoDeinitialize ==
  << Pull("process", {}),
     Pull("JPlayerProperties", {"audioCodecs", "videoCodecs"}),
     Drop("audioCodecs"), Drop("videoCodecs"),
     Pull("dolbySink", {"dolby"}), Pull("JDolbyOutput", {"dolby"}), Drop("dolby"),
     Drop("root"), Drop("service") >>

\* SubSystems() returns a reference; Set(IDENTIFIER, _identifier) takes one of
\* the implementation.
DeviceIdentificationInitialize ==
  << Hold("service", {}), Put("process", {}), Root,
     MustAsk("deviceId", {"root"}),
     Put("JDeviceIdentification", {"root"}),
     Hold("subSystems", {"deviceId"}), Hold("identifier", {"deviceId"}) >>

DeviceIdentificationDeinitialize ==
  << Pull("process", {}),
     Hold("subSystems", {"deviceId"}), Drop("identifier"),
     Pull("JDeviceIdentification", {"root"}),
     Drop("root"), Drop("service") >>

\* Mutant: the notification of the process is registered after its start.
RegisteredLate ==
  << Hold("service", {}), Put("channels", {}), Root,
     Put("roomSink", {"root"}), Put("JMessenger", {"root"}), Put("process", {}) >>

MessengerInitialize ==
  << Hold("service", {}), Put("process", {}), Put("channels", {}), Root,
     Put("roomSink", {"root"}), Put("JMessenger", {"root"}) >>

MessengerDeinitialize ==
  << Pull("JMessenger", {}), Pull("channels", {}), Pull("process", {}),
     Pull("roomSink", {"root"}), Drop("root"), Drop("service") >>

PackagerInitialize ==
  << Hold("service", {}), Put("process", {}), Root,
     MustAsk("Configure", {"root"}), Put("JPackager", {"Configure"}) >>

PackagerDeinitialize ==
  << Pull("process", {}), Pull("JPackager", {"root"}), Drop("root"), Drop("service") >>

\* The access control lists are not here.  The dispatcher goes if it does not
\* listen; only then is the subsystem not released, and not set either.
SecurityAgentInitialize ==
  << Hold("subSystems", {}), Take("dac", {}), Put("fileMonitor", {"dac"}),
     Take("dispatcher", {}), Put("SECURITY", {"dispatcher"}),
     Step("drop", "subSystems", {"dispatcher"}, FALSE), Put("JSecurityAgent", {}) >>

SecurityAgentDeinitialize ==
  << Pull("JSecurityAgent", {}), Drop("dispatcher"),
     Pull("fileMonitor", {"dac"}), Drop("dac") >>

\* SubSystems() returns a reference, to which AddRef adds a second one.
DeviceInfoInitialize ==
  << Hold("service", {}), Put("process", {}),
     MustTake("subSystems", {}), Hold("subSystems", {"subSystems"}),
     Put("updates", {"subSystems"}),
     Step("root", "root", {"subSystems"}, TRUE),
     MustTake("audio", {"root"}), MustTake("video", {"audio"}),
     Put("RegisterAll", {"video"}) >>

DeviceInfoDeinitialize ==
  << Pull("process", {}), Pull("updates", {"subSystems"}), Drop("subSystems"),
     Drop("audio"), Pull("RegisterAll", {"video"}), Drop("video"),
     Drop("root"), Drop("service") >>

RustBridgeInitialize ==
  << Hold("service", {}), Put("process", {}), Root, MustAsk("Configure", {"root"}) >>

RustBridgeDeinitialize ==
  << Pull("process", {}), Drop("root"), Drop("service") >>

MonitorInitialize ==
  << Hold("service", {}), Put("plugins", {}), Put("RegisterAll", {}),
     Put("JMemoryMonitor", {}) >>

MonitorDeinitialize ==
  << Pull("JMemoryMonitor", {}), Pull("RegisterAll", {}), Pull("plugins", {}),
     Drop("service") >>

\* No data buffer, no worker.
MessageControlInitialize ==
  << Hold("service", {}), Put("JMessagingControl", {}), Put("process", {}),
     Take("worker", {}), Put("callback", {"worker"}) >>

MessageControlDeinitialize ==
  << Pull("JMessagingControl", {}), Pull("callback", {"worker"}), Drop("worker"),
     Pull("process", {}), Drop("service") >>

\* The observed plugin is named by a callsign or by a class, not by both.
PerformanceMetricsInitialize ==
  << MustTake("handler", {}), Put("plugins", {"handler"}) >>

PerformanceMetricsDeinitialize ==
  << Pull("plugins", {"handler"}), Drop("handler") >>

InitializeOf ==
  [WebKitBrowser |-> WebKitBrowserInitialize, OCDM |-> OCDMInitialize,
   DisplayInfo |-> DisplayInfoInitialize, PlayerInfo |-> PlayerInfoInitialize,
   DeviceIdentification |-> DeviceIdentificationInitialize,
   Messenger |-> MessengerInitialize, Packager |-> PackagerInitialize,
   SecurityAgent |-> SecurityAgentInitialize, DeviceInfo |-> DeviceInfoInitialize,
   RustBridge |-> RustBridgeInitialize, Monitor |-> MonitorInitialize,
   MessageControl |-> MessageControlInitialize,
   PerformanceMetrics |-> PerformanceMetricsInitialize]

DeinitializeOf ==
  [WebKitBrowser |-> WebKitBrowserDeinitialize, OCDM |-> OCDMDeinitialize,
   DisplayInfo |-> DisplayInfoDeinitialize, PlayerInfo |-> PlayerInfoDeinitialize,
   DeviceIdentification |-> DeviceIdentificationDeinitialize,
   Messenger |-> MessengerDeinitialize, Packager |-> PackagerDeinitialize,
   SecurityAgent |-> SecurityAgentDeinitialize, DeviceInfo |-> DeviceInfoDeinitialize,
   RustBridge |-> RustBridgeDeinitialize, Monitor |-> MonitorDeinitialize,
   MessageControl |-> MessageControlDeinitialize,
   PerformanceMetrics |-> PerformanceMetricsDeinitialize]

-----------------------------------------------------------------------------
\* What comes from the implementation, and what is registered with it.
FromRoot ==
  {"stateControl", "application", "stateController", "cookieJar", "browserScripting",
   "graphics", "hdr", "display", "audioCodecs", "videoCodecs", "dolby", "identifier",
   "audio", "video", "Configure", "deviceId"}

Sinks ==
  {"stateControllerSink", "browserSink", "stateControlSink", "connectionSink",
   "dolbySink", "roomSink"}

Things ==
  {s.x : s \in UNION {Range(InitializeOf[p]) \cup Range(DeinitializeOf[p]) : p \in Names}}

Init ==
  /\ plugin \in Plugins /\ life = "deactivated" /\ todo = <<>> /\ failed = FALSE
  /\ have = {} /\ refs = [x \in Things |-> 0] /\ regs = {} /\ process = "none"
  /\ job = FALSE /\ stray = {} /\ orphans = {} /\ cycles = 0

\* The conditions around a step; "alive" stands for a QueryInterface in
\* Deinitialize that a process that died does not answer.
Reached(s) == s.when \subseteq have \cup (IF process = "dead" THEN {} ELSE {"alive"})

Got(x) == /\ have' = have \cup {x}
          /\ refs' = [refs EXCEPT ![x] = @ + 1]

Missed(s) == failed' = (failed \/ s.must) /\ UNCHANGED <<have, refs>>

\* Whom the step asks is there.
Answers(x) == x \in FromRoot => process # "dead"

Skip(s) ==
  /\ ~Reached(s)
  /\ UNCHANGED <<failed, have, refs, regs, process, stray, orphans>>

HoldStep(s) ==
  /\ s.op = "hold" /\ Reached(s) /\ Got(s.x)
  /\ UNCHANGED <<failed, regs, process, stray, orphans>>

TakeStep(s) ==
  /\ s.op = "take" /\ Reached(s)
  /\ \/ Answers(s.x) /\ Got(s.x) /\ UNCHANGED failed
     \/ Missed(s)
  /\ UNCHANGED <<regs, process, stray, orphans>>

AskStep(s) ==
  /\ s.op = "ask" /\ Reached(s)
  /\ \/ Answers(s.x) /\ have' = have \cup {s.x} /\ UNCHANGED <<refs, failed>>
     \/ Missed(s)
  /\ UNCHANGED <<regs, process, stray, orphans>>

RootStep(s) ==
  /\ s.op = "root" /\ Reached(s)
  /\ \/ Got("root") /\ process' \in {"inside", "alive"} /\ UNCHANGED failed
     \/ Missed(s) /\ UNCHANGED process
  /\ UNCHANGED <<regs, stray, orphans>>

WatchStep(s) ==
  /\ s.op = "watch" /\ Reached(s)
  /\ IF process = "alive" THEN Got(s.x) /\ UNCHANGED failed ELSE Missed(s)
  /\ UNCHANGED <<regs, process, stray, orphans>>

\* A sink cannot be registered with an implementation that died.
PutStep(s) ==
  /\ s.op = "put" /\ Reached(s)
  /\ regs' = IF s.x \in Sinks /\ process = "dead" THEN regs ELSE regs \cup {s.x}
  /\ UNCHANGED <<failed, have, refs, process, stray, orphans>>

PullStep(s) ==
  /\ s.op = "pull" /\ Reached(s)
  /\ regs' = regs \ {s.x}
  /\ stray' = IF s.x \in regs \/ (s.x \in Sinks /\ process = "dead")
              THEN stray ELSE stray \cup {s.x}
  /\ UNCHANGED <<failed, have, refs, process, orphans>>

\* With the implementation go the sinks it knew, and its process: Terminate.
DropStep(s) ==
  /\ s.op = "drop" /\ Reached(s)
  /\ have' = have \ {s.x}
  /\ refs' = [refs EXCEPT ![s.x] = @ - 1]
  /\ IF s.x = "root"
     THEN /\ orphans' = orphans \cup (regs \cap Sinks)
          /\ regs' = regs \ Sinks
          /\ process' = "none"
     ELSE UNCHANGED <<regs, process, orphans>>
  /\ UNCHANGED <<failed, stray>>

Execute ==
  /\ todo # <<>> /\ todo' = Tail(todo)
  /\ LET s == Head(todo) IN
     \/ Skip(s) \/ HoldStep(s) \/ TakeStep(s) \/ AskStep(s) \/ RootStep(s)
     \/ WatchStep(s) \/ PutStep(s) \/ PullStep(s) \/ DropStep(s)
  /\ UNCHANGED <<plugin, life, job, cycles>>

-----------------------------------------------------------------------------
(* Thunder.                                                                *)

Activate ==
  /\ life = "deactivated" /\ cycles < MaxCycles /\ cycles' = cycles + 1
  /\ life' = "initializing" /\ todo' = InitializeOf[plugin] /\ failed' = FALSE
  /\ have' = have \ {"Configure", "deviceId", "persistent"}
  /\ UNCHANGED <<plugin, refs, regs, process, job, stray, orphans>>

Stopping == life' = "deinitializing" /\ todo' = DeinitializeOf[plugin]

Unchanged == UNCHANGED <<plugin, failed, have, refs, regs, process, stray, orphans, cycles>>

Returned ==
  /\ todo = <<>>
  /\ \/ life = "initializing" /\ failed /\ Stopping
     \/ life = "initializing" /\ ~failed /\ life' = "activated" /\ UNCHANGED todo
     \/ life = "deinitializing" /\ life' = "deactivated" /\ UNCHANGED todo
  /\ Unchanged /\ UNCHANGED job

Deactivate == life = "activated" /\ Stopping /\ Unchanged /\ UNCHANGED job

\* The job waits for the lock of the shell, and finds the plugin activated
\* or has nothing to do.
Job ==
  /\ job /\ job' = FALSE /\ Unchanged
  /\ \/ life = "activated" /\ Stopping
     \/ life = "deactivated" /\ UNCHANGED <<life, todo>>

\* The process of the implementation dies.  If the plugin registered its
\* notification before, Deactivated compares the connection and submits the
\* job; what was registered in the process is gone.
Deactivated ==
  /\ process = "alive" /\ process' = "dead"
  /\ job' = (job \/ "process" \in regs)
  /\ regs' = regs \ Sinks
  /\ UNCHANGED <<plugin, life, todo, failed, have, refs, stray, orphans, cycles>>

Next == Execute \/ Activate \/ Returned \/ Deactivate \/ Job \/ Deactivated

\* Thunder runs what it started, and its worker pool runs its jobs.
Spec == Init /\ [][Next]_shellVars /\ WF_shellVars(Execute \/ Returned) /\ WF_shellVars(Job)

-----------------------------------------------------------------------------
(* Properties.                                                             *)

\* When a plugin releases its implementation, that is the last reference, as
\* the assertion of every Deinitialize says: neither it nor Thunder holds
\* anything of it any more, wherever Initialize gave up.  (Not said of a
\* process that died: its connection is closed anyhow.)
LastReference ==
  "root" \notin have /\ process = "none" =>
    /\ \A x \in FromRoot : refs[x] = 0
    /\ orphans \subseteq {"stateControllerSink"}

\* A plugin that is deactivated, after a failure, a crash or a stop, left
\* nothing behind: no registration, no reference.  What the code does leave:
\* the browser, its sink in the subsystems if its process died; the security
\* agent, the subsystem it set; and references of the subsystems.
CleanAfterwards ==
  life = "deactivated" =>
    /\ regs \subseteq {"subSystemSink", "SECURITY"}
    /\ \A x \in Things \ {"subSystems"} : refs[x] = 0
    /\ "subSystemSink" \in regs => plugin = "WebKitBrowser"

\* Deinitialize unregisters what Initialize registered, wherever that gave up,
\* and nothing else.  What the code does: see the exceptions.
OnlyItsOwn ==
  stray \subseteq (CASE plugin = "WebKitBrowser" -> {"stateControlSink", "subSystemSink"}
                     [] plugin = "Messenger"     -> {"JMessenger"}
                     [] plugin = "Packager"      -> {"JPackager"}
                     [] OTHER                    -> {})

\* All of it: what a plugin took it gives back, once, on every way out.
GivesBackWhatItTook == LastReference /\ CleanAfterwards /\ OnlyItsOwn

\* A plugin whose process died is deactivated, however early it died.
CrashEnds == process = "dead" ~> process # "dead"
=============================================================================
