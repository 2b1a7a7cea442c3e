----------------------------- MODULE MCPlugins -----------------------------
(***************************************************************************)
(* Machines that share nothing: thirteen plugins of the repository start,  *)
(* stop and crash; RustBridge finds and serves its library; the others     *)
(* answer while what they tell of changes: the access control lists of     *)
(* SecurityAgent, the memory observer of WebKitBrowser, the statistics of  *)
(* Monitor, display and sound of DisplayInfo and PlayerInfo.               *)
(* Each behaviour is one of a single group.                                *)
(***************************************************************************)
EXTENDS SecurityAgent

CONSTANTS Plugins, MaxCycles, Askers, Children, Unit, Residents, Watchers, MaxCount,
          Screens, Limit, MaxEvents, Framework, Environment, Methods, Ids,
          Observers, PortLists, MaxChanges, Registries, Caps,
          NameOf, Configured, NewLimits

ASSUME MeasureAssumption == Residents \subseteq Nat /\ MaxCount \in Nat \ {0}
ASSUME CallsignAssumption == \A i \in DOMAIN Configured : Configured[i].callsign # ""
ASSUME RegistryAssumption ==
  \A r \in Registries : IsFiniteSet(r.parsers) /\ \A p \in r.parsers : IsFiniteSet(DOMAIN p.sources)

VARIABLES group,
          plugin, life, todo, failed, have, refs, regs, process, job, stray, orphans, cycles,
          remote, starting, main, running, list, copy,
          limits, source, operational, measurement, probe, resetting, observers, owed,
          usePreferredMode, screen, level, wire, socket, queue, arrived, worker, making, display,
          refused, merged, events,
          place, at, next, result, library, functions, rust, callback, held, registered, inside,
          received, pending, replies,
          box, object, instance, handlers, observing, handler, handled, heard, since, tv, ports, connected, ask,
          registry, cap, codecs

MCClients == {"app"}
Host(h) == <<"https", "//", h>>
T(signature, type, url) == [signature |-> signature, type |-> type, url |-> url]
MCTokens == { T("good", "none", Host("a") \o <<"//", "x", "/", "?", "#">>), T("good", "none", Host("b") \o <<"?", "q", "#", "f">>),
              T("good", "DAC", Host("a")), T("good", "test", <<>>), T("empty", "none", <<>>),
              T("none", "none", Host("a")), T("bad", "none", Host("a")) }
MCTestToken == T("good", "test", <<>>)
MCOriginsOf == ("https://a" :> {Host("a")}) @@ ("https://*" :> {Host("a"), Host("b")})
MCCallsignsOf == ("Device" :> {"Device"}) @@ ("*" :> {"Device", "netflix"}) @@ ("netflix" :> {"netflix"})
MCMethodsOf == ("get" :> {"get"}) @@ ("*" :> {"get", "set"})
MCPatternOrder == <<"Device", "*", "netflix">>
MCCalls == {"Device", "netflix"} \X {"get", "set"}

Rule(default, methods) == [default |-> default, methods |-> methods]
Role(default, plugins) == [default |-> default, plugins |-> plugins]
G(url, role) == [url |-> url, role |-> role]

FileA == [assign |-> <<G("https://a", "r"), G("https://*", "s")>>,
          roles |-> ("r" :> Role("blocked", "Device" :> Rule("blocked", {"get"}))) @@
                    ("s" :> Role("allowed", ("*" :> Rule("allowed", {"get"})) @@ ("netflix" :> Rule("blocked", {})))) @@
                    ("u" :> Role("blocked", <<>>))]
FileB == [assign |-> <<G("https://a", "t"), G("https://*", "r")>>,
          roles |-> ("r" :> Role("allowed", "Device" :> Rule("blocked", {"*"})))]
FileC == [assign |-> <<G("https://*", "t")>>,
          roles |-> ("t" :> Role("blocked", "*" :> Rule("allowed", {"set"})))]
MCAclFiles == {FileA, FileB}
MCFolders == {<<FileB>>, <<FileB, FileC>>, <<FileC, FileB, FileA>>}

MCNameOf == ("n1" :> "WPENetworkProcess") @@ ("w1" :> "WPEWebProcess") @@ ("w2" :> "WPEWebProcess")

\* Observables: one entry has no interval, and one comes twice.
R(w, l) == [window |-> w, limit |-> l]
Entry(name, interval, memory, memorylimit) ==
  [callsign |-> name, operational |-> interval, memory |-> memory, memorylimit |-> memorylimit,
   restart |-> R(0, 0)]
MCConfigured == <<Entry("WebKitBrowser", -1, 2, 1), Entry("UX", 0, 0, 1), Entry("OCDM", 1, 0, 0), Entry("OCDM", 1, 1, 1)>>
MCNewLimits == {R(60, 3)}

\* Connectors: nothing connected; HDMI next to another; another screen.
Mode(w, h, p) == [width |-> w, height |-> h, refresh |-> 60, preferred |-> p]
Connector(type, name, modes) == [type |-> type, name |-> name, modes |-> modes]
MCScreens ==
  { <<Connector("HDMIA", "none", <<>>)>>,
    <<Connector("DVI", "monitor", <<Mode(9, 9, TRUE)>>),
      Connector("HDMIA", "tv", <<Mode(2, 4, FALSE), Mode(3, 2, FALSE), Mode(4, 2, TRUE), Mode(1, 2, TRUE)>>)>>,
    <<Connector("HDMIA", "projector", <<Mode(3, 4, FALSE)>>)>> }

\* One box with and one without HDMI, one with everything.
MCPortLists == {<<"HDMI0", "SPDIF0", "HDMI_ARC0">>, <<"HDMI_ARC0", "SPDIF0", "SPEAKER0">>, <<"SPEAKER0">>}

\* A decoder of parsed h264, one of mpeg 2; parsers for both, one of them with two sources.
Decoder(sinks) == [sinks |-> sinks]
Parser(sinks, sources) == [sinks |-> sinks, sources |-> sources]
Decoders == {Decoder({"h264 parsed"}), Decoder({"mpeg 2"}), Decoder({"vp8", "vp9"})}
Parsers == {Parser({"h264"}, <<{"h264 parsed"}, {"h264 parsed", "avc"}>>), Parser({"mpeg 1", "mpeg 2"}, <<{"mpeg 2"}>>)}
MCRegistries == [decoders : SUBSET Decoders, parsers : SUBSET Parsers]
Codec(codec, formats) == [codec |-> codec, formats |-> formats]
MCCaps == <<Codec("VIDEO_MPEG", {"mpeg 1", "mpeg 2"}), Codec("VIDEO_MPEG2", {"mpeg 2"}), Codec("VIDEO_H264", {"h264"}),
            Codec("VIDEO_VP9", {"vp9"})>>

Shell == INSTANCE PluginShell
Observer == INSTANCE MemoryObserver
Statistics == INSTANCE MonitorStatistics
Display == INSTANCE DisplayInfoImplementation
Library == INSTANCE RustBridgeImplementation
Settings == INSTANCE DeviceSettings WITH plugin <- box, observers <- observing, display <- tv, list <- ports,
                                         MaxEvents <- MaxChanges
Codecs == INSTANCE PlayerCodecs WITH next <- cap

ASSUME PluginsAssumption == Plugins \subseteq Shell!Names

pluginVars == <<plugin, life, todo, failed, have, refs, regs, process, job, stray, orphans, cycles>>
observerVars == <<remote, starting, main, running, list, copy>>
statisticsVars == <<limits, source, operational, measurement, probe, resetting, observers, owed>>
displayVars == <<usePreferredMode, screen, level, wire, socket, queue, arrived, worker, making, display,
                 refused, merged, events>>

rustVars == <<place, at, next, result, library, functions, rust, callback, held, registered, inside,
              received, pending, replies>>
settingsVars == <<box, object, instance, handlers, observing, handler, handled, heard, since, tv, ports,
                  connected, ask>>
codecVars == <<registry, cap, codecs>>
mediaVars == <<settingsVars, codecVars>>

MCInit ==
  /\ group \in {"plugins", "access", "memory", "statistics", "display", "library", "events", "answers", "codecs"}
  /\ Init /\ Shell!Init /\ Observer!Init /\ Statistics!Init /\ Display!Init
  /\ Library!Init /\ Settings!Init /\ Codecs!Init
  /\ group # "plugins" => plugin = "Monitor"
  /\ group # "memory" => ~remote /\ running = {}
  /\ group # "codecs" => registry = [decoders |-> {}, parsers |-> {}]
  /\ group \notin {"events", "answers"} => box = "PlayerInfo"
  /\ group # "answers" => ports = <<"SPEAKER0">>
  /\ group # "library" => place = [p \in Library!Places |-> "none"]
  /\ group # "display" => ~usePreferredMode /\ screen = CHOOSE s \in Screens : TRUE

otherVars == <<observerVars, statisticsVars, displayVars, rustVars>>

MCNext ==
  /\ \/ group = "plugins" /\ Shell!Next /\ UNCHANGED <<agentVars, otherVars, mediaVars>>
     \/ group = "access" /\ Next /\ UNCHANGED <<pluginVars, otherVars, mediaVars>>
     \/ /\ UNCHANGED <<agentVars, pluginVars, mediaVars>>
        /\ \/ group = "memory" /\ Observer!Next /\ UNCHANGED <<statisticsVars, displayVars, rustVars>>
           \/ group = "statistics" /\ Statistics!Next /\ UNCHANGED <<observerVars, displayVars, rustVars>>
           \/ group = "display" /\ Display!Next /\ UNCHANGED <<observerVars, statisticsVars, rustVars>>
           \/ group = "library" /\ Library!Next /\ UNCHANGED <<observerVars, statisticsVars, displayVars>>
     \/ /\ UNCHANGED <<agentVars, pluginVars, otherVars>>
        /\ \/ group = "events" /\ Settings!Events /\ UNCHANGED codecVars
           \/ group = "answers" /\ (Settings!Construct \/ Settings!Answers) /\ UNCHANGED codecVars
           \/ group = "codecs" /\ Codecs!Next /\ UNCHANGED settingsVars
  /\ UNCHANGED group

\* With the fairness of PluginShell.
MCSpec ==
  /\ MCInit /\ [][MCNext]_<<group, agentVars, pluginVars, otherVars, mediaVars>>
  /\ WF_pluginVars(group = "plugins" /\ (Shell!Execute \/ Shell!Returned))
  /\ WF_pluginVars(group = "plugins" /\ Shell!Job)

GivesBackWhatItTook == (group = "plugins" => Shell!GivesBackWhatItTook) /\ Library!LibraryServes
CrashEnds == Shell!CrashEnds
OperationalMeansRunning == Observer!OperationalMeansRunning
StatisticsAreTold == Statistics!StatisticsAreTold
DisplayAndSoundAreKnown == Display!DisplayIsKnown /\ Settings!SettingsAreTold /\ Codecs!CodecsArePlayable
=============================================================================
