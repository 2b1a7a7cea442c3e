------------------------------ MODULE MCBrowser ------------------------------
(***************************************************************************)
(* The browser, the metrics that are taken of it, and the messages that    *)
(* carry them.  The browser has too many inputs to try all of them         *)
(* together: each behaviour draws them from one group; its thread and its  *)
(* destructor run in every such group.  The cookie jar, the web extension, *)
(* PerformanceMetrics, MessageControl and its outputs share no state with  *)
(* it and are groups of their own.                                         *)
(***************************************************************************)
EXTENDS WebKitBrowser, TLC

CONSTANTS FewInputs,      \* bound of the group that has every call
          Cookies, Keys, MaxJarCalls, MaxWay,
          Pages, HeaderLists, MaxMessages,
          Conns, Controlled, Configs, MaxCycles,
          Channels, Limits, MaxQueue,
          Plugins, OfClass, Named, LaunchURLs

\* The browser has one view: the process of its web extension renders one page.
ASSUME PageAssumption == \A p, q \in Pages : p = q

VARIABLES group,
          key, copy, fresh, toPost, toNetwork, fromNetwork, store, getter, cloud,
          notified, jarCalls,
          alive, headers, wanted, objects, aamp, controllers, toPage, queries,
          phase, cycles, conn, observing, job, batch, instances, cleaning, files,
          printer, block, ring, buffered, sent, director, exporter, left, attached,
          server, options, reply, snapshot, kind, network, udp, queue,
          build, handler, listening, up, starts, observable, held, registered, loads,
          logger, launches

Jar == INSTANCE CookieJar WITH MaxCalls <- MaxJarCalls, posted <- toPost

Extension == INSTANCE WebExtension

Control == INSTANCE MessageControl WITH worker <- printer, MaxMessages <- 1

\* Without the options that are handled like one of these.
Mentions == {{o} : o \in {"FileName", "LineNumber", "ClassName", "IncludingDate", "ProcessId",
                          "Paused"}} \cup {{"FileName", "LineNumber"}}

Outs == INSTANCE MessageOutput WITH Limit <- Limits

Faces == ("web"   :> {"webbrowser", "control", "controller", "memory", "process"}) @@
         ("tube"  :> {"browser", "controller"}) @@
         ("ui"    :> {"control", "controller", "memory"}) @@
         ("plain" :> {"controller"})

MaxLoads == ("web" :> 3) @@ ("tube" :> 1) @@ ("ui" :> 0) @@ ("plain" :> 0)

Host == ("a/1" :> "a") @@ ("a/2" :> "a") @@ ("b/1" :> "b")

Metrics == INSTANCE PerformanceMetrics WITH cycles <- starts, MaxCycles <- 1, URLs <- LaunchURLs

\* A console and a file; a server in the background; messages that go out
\* directly, without a worker.
MCConfigs ==
  { [background |-> FALSE, direct |-> FALSE, on |-> {"file"}, off |-> {}],
    [background |-> TRUE, direct |-> FALSE, on |-> {"syslog", "remote"}, off |-> {"console"}],
    [background |-> FALSE, direct |-> TRUE, on |-> {"telemetry"}, off |-> {}] }

jarVars == <<key, copy, fresh, toPost, toNetwork, fromNetwork, store, getter, cloud,
             notified, jarCalls>>
extensionVars == <<alive, headers, wanted, objects, aamp, controllers, toPage, queries>>
controlVars == <<phase, cycles, conn, observing, job, batch, instances, cleaning, files,
                 printer, block, ring, buffered, sent, director, exporter, left, attached>>
outVars == <<server, options, reply, snapshot, kind, network, udp, queue>>
meterVars == <<build, handler, listening, up, starts, observable, held, registered, loads,
               logger, launches>>

Moving == Request("SUSPENDED") \/ Request("RESUMED")

Inputs ==
  \/ group = "calls" /\ inputs < FewInputs /\ Calls
  \/ group = "moves" /\ (Moving \/ StateControlSinks)
  \/ group = "sights" /\ (Hide \/ Show \/ WebBrowserSinks \/ ApplicationSinks)
  \/ group = "hangs" /\ (Moving \/ Watch)
  \/ group = "loads" /\ (URL \/ Request("SUSPENDED") \/ Page)

BrowserGroups == {"calls", "moves", "sights", "hangs", "loads"}
Groups == BrowserGroups \cup {"jar", "extension", "control", "web socket", "datagrams", "metrics"}

MCInit ==
  /\ group \in Groups
  /\ Init /\ Jar!Init /\ Extension!Init /\ Control!Init /\ Outs!Init /\ Metrics!Init
  /\ group \notin BrowserGroups => url = CHOOSE u \in URLs : TRUE
  /\ group # "jar" => key = "none" /\ store = "none"
  /\ group # "metrics" => build = "syslog"

MCNext ==
  /\ \/ /\ group \in BrowserGroups
        /\ Inputs \/ Configure \/ Thread \/ Destruct \/ Destructor
        /\ UNCHANGED <<jarVars, extensionVars, controlVars, outVars, meterVars>>
     \/ /\ group = "jar" /\ Jar!Next
        /\ UNCHANGED <<vars, extensionVars, controlVars, outVars, meterVars>>
     \/ /\ group = "extension" /\ Extension!Next
        /\ UNCHANGED <<vars, jarVars, controlVars, outVars, meterVars>>
     \/ /\ group = "control" /\ Control!Next
        /\ UNCHANGED <<vars, jarVars, extensionVars, outVars, meterVars>>
     \/ /\ group = "web socket" /\ (Outs!Export \/ Outs!Command)
        /\ UNCHANGED <<vars, jarVars, extensionVars, controlVars, meterVars>>
     \/ /\ group = "datagrams" /\ (Outs!Initialize \/ Outs!Deinitialize \/ Outs!Datagrams)
        /\ UNCHANGED <<vars, jarVars, extensionVars, controlVars, meterVars>>
     \/ /\ group = "metrics" /\ Metrics!Next
        /\ UNCHANGED <<vars, jarVars, extensionVars, controlVars, outVars>>
  /\ UNCHANGED group

MCSpec ==
  /\ MCInit
  /\ [][MCNext]_<<vars, jarVars, extensionVars, controlVars, outVars, meterVars, group>>
  /\ WF_vars(Thread) /\ WF_vars(Destructor) /\ Control!Fairness

SmallPartsOfThePage == Jar!JarIsFresh /\ Extension!HeadersOfThePage
OutputsInOrder == Control!OutputsInOrder
WorkerStops == Control!WorkerStops
ChannelsGetWhatTheyAsk == Outs!ChannelsGetWhatTheyAsk
LaunchesAreMeasured == Metrics!LaunchesAreMeasured
=============================================================================
