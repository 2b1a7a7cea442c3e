---------------------------- MODULE LocationSync ----------------------------
(***************************************************************************)
(* The LocationSync plugin on top of LocationService: it starts probes,    *)
(* and keeps four copies of the time zone that must agree: the location    *)
(* information (under _adminLock), the system's, the LOCATION subsystem's  *)
(* and what its observers were told.                                       *)
(*                                                                         *)
(* The callback of the probe runs on the worker pool while clients set the *)
(* time zone: both decide under the lock and act on it after unlocking.    *)
(*                                                                         *)
(* External: the subsystems (Set copies the information), the zone the     *)
(* server reports (any, or none), and the framework, which does not call   *)
(* the plugin after Deinitialize.                                          *)
(***************************************************************************)
EXTENDS LocationService

CONSTANTS Clients,            \* callers of the timezone property
          Zones, NoZone,
          Factory,            \* the zone that is not passed to the system
          InitRetries         \* "retries" of the configuration, 0 as MaxUint

ASSUME ZonesAssumption == NoZone \notin Zones
ASSUME InitAssumption == InitRetries \subseteq 1 .. MaxUint

VARIABLES
  service,     \* _service # nullptr
  activateOnFailure,  \* of the configuration
  config,      \* the time zone in the configuration, NoZone if none
  overridden,  \* _timezoneoverriden
  zone,        \* _locationinfo.TimeZone()
  systemZone,  \* the zone of Core::SystemInfo
  internet,    \* subsystem INTERNET is active
  location,    \* the zone subsystem LOCATION has, NoZone before it has one
  active,      \* subsystem LOCATION is active
  setter,      \* where each client's TimeZone(zone) is, and its argument
  sync,        \* where SyncedLocation is
  newZone,     \* its local newtimezone
  everLoaded   \* history: SyncedLocation has found a valid location

zoneVars == <<config, overridden, zone, systemZone>>
subVars  == <<internet, location, active>>
syncVars == <<sync, newZone, everLoaded>>
plugVars == <<activateOnFailure, service, zoneVars, subVars, setter, syncVars>>
vars     == <<svcVars, plugVars>>

Idle == [at |-> "idle", zone |-> NoZone]

Init ==
  /\ SvcInit
  /\ service = FALSE /\ activateOnFailure \in BOOLEAN
  /\ config \in Zones \cup {NoZone} /\ overridden = FALSE
  /\ zone = NoZone /\ systemZone = NoZone
  /\ internet = FALSE /\ location = NoZone /\ active = FALSE
  /\ setter = [c \in Clients |-> Idle]
  /\ sync = "idle" /\ newZone = NoZone /\ everLoaded = FALSE

SystemZoneAfter(z) == IF z = Factory THEN systemZone ELSE z

-----------------------------------------------------------------------------
\* A probe, or, when one is in progress, nothing.
TryProbe(n) ==
  \/ Probe(n)
  \/ (stopping # "no" \/ Probing) /\ UNCHANGED svcVars

Initialize(n) ==
  /\ ~service /\ stopping = "no" /\ TryProbe(n)
  /\ service' = TRUE
  /\ IF config # NoZone
       THEN /\ zone' = config /\ overridden' = TRUE
            /\ systemZone' = SystemZoneAfter(config)
       ELSE UNCHANGED <<zone, overridden, systemZone>>
  /\ UNCHANGED <<config, subVars, setter, syncVars>>

\* The probe, if any, goes on: _sink.Deinitialize() is empty.  A zone that was
\* set is kept in the configuration.
Deinitialize ==
  /\ service /\ \A c \in Clients : setter[c] = Idle
  /\ service' = FALSE
  /\ config' = IF overridden THEN zone ELSE config
  /\ UNCHANGED <<svcVars, overridden, zone, systemZone, subVars, setter, syncVars>>

Sync == service /\ TryProbe(1) /\ UNCHANGED plugVars

\* The destructor of the plugin, and of its sink.
Destroy == ~service /\ Stop /\ UNCHANGED plugVars

-----------------------------------------------------------------------------
(* TimeZone(zone): the decision under the lock, then three steps after it. *)

At(c, here) == setter[c].at = here
Goes(c, there) == setter' = [setter EXCEPT ![c].at = there]

SetZone(c, z) ==
  /\ service /\ setter[c] = Idle
  /\ overridden' = TRUE /\ zone' = z
  /\ setter' = [setter EXCEPT ![c] = IF zone = z THEN Idle
                                     ELSE [at |-> "system", zone |-> z]]
  /\ UNCHANGED <<svcVars, service, config, systemZone, subVars, syncVars>>

SetSystemZone(c) ==
  /\ At(c, "system") /\ Goes(c, "subsystem")
  /\ systemZone' = SystemZoneAfter(setter[c].zone)
  /\ UNCHANGED <<svcVars, service, config, overridden, zone, subVars, syncVars>>

\* SetLocationSubsystem(update): the current zone, under the lock, and only if
\* the subsystem is active.  The observers are told afterwards.
UpdateSubsystem(c) ==
  /\ At(c, "subsystem") /\ setter' = [setter EXCEPT ![c] = Idle]
  /\ location' = IF active THEN zone ELSE location
  /\ UNCHANGED <<svcVars, service, zoneVars, internet, active, syncVars>>

-----------------------------------------------------------------------------
(* SyncedLocation(), the callback of the probe.                            *)

SyncStarts ==
  /\ job = "callback" /\ sync = "idle"
  /\ sync' = IF state = "LOADED" THEN "take" ELSE "publish"
  /\ everLoaded' = (everLoaded \/ state = "LOADED")
  /\ UNCHANGED <<svcVars, service, zoneVars, subVars, setter, newZone>>

\* Mutant: the test of _timezoneoverriden is forgotten.
TakeAnyLocation(found) ==
  /\ sync = "take"
  /\ newZone' = found
  /\ zone' = IF found = NoZone THEN zone ELSE found
  /\ sync' = IF found = NoZone THEN "publish" ELSE "system"
  /\ UNCHANGED <<svcVars, service, config, overridden, systemZone, subVars, setter, everLoaded>>

\* The zone the server found counts unless one was set.
TakeLocation(found) ==
  /\ sync = "take"
  /\ newZone' = IF overridden THEN NoZone ELSE found
  /\ zone' = IF newZone' = NoZone THEN zone ELSE newZone'
  /\ sync' = IF newZone' = NoZone THEN "publish" ELSE "system"
  /\ UNCHANGED <<svcVars, service, config, overridden, systemZone, subVars, setter, everLoaded>>

SyncSystemZone ==
  /\ sync = "system" /\ sync' = "publish"
  /\ systemZone' = SystemZoneAfter(newZone)
  /\ UNCHANGED <<svcVars, service, config, overridden, zone, subVars, setter, newZone, everLoaded>>

\* Mutant: the subsystem is given the zone the probe found, not the current one.
PublishFound ==
  /\ sync = "publish" /\ Callback
  /\ LET found == IF newZone = NoZone THEN zone ELSE newZone IN
     IF activateOnFailure \/ state = "LOADED"
       THEN internet' = TRUE /\ location' = found /\ active' = TRUE
     ELSE IF overridden
       THEN location' = found /\ active' = TRUE /\ UNCHANGED internet
       ELSE UNCHANGED subVars
  /\ sync' = "idle" /\ newZone' = NoZone
  /\ UNCHANGED <<service, zoneVars, setter, everLoaded>>

\* Whether the location is valid is read again, and the probe is over.
PublishLocation ==
  /\ sync = "publish" /\ Callback
  /\ IF activateOnFailure \/ state = "LOADED"
       THEN internet' = TRUE /\ location' = zone /\ active' = TRUE
     ELSE IF overridden
       THEN location' = zone /\ active' = TRUE /\ UNCHANGED internet
       ELSE UNCHANGED subVars
  /\ sync' = "idle" /\ newZone' = NoZone
  /\ UNCHANGED <<service, zoneVars, setter, everLoaded>>

-----------------------------------------------------------------------------
Service == (JobStep \/ Socket) /\ UNCHANGED plugVars

SyncedLocation == \/ SyncStarts \/ SyncSystemZone \/ PublishLocation
                  \/ \E found \in Zones \cup {NoZone} : TakeLocation(found)

Client == \E c \in Clients : \/ \E z \in Zones : SetZone(c, z)
                             \/ SetSystemZone(c) \/ UpdateSubsystem(c)

Next == /\ UNCHANGED activateOnFailure
        /\ \/ \E n \in InitRetries : Initialize(n)
           \/ Deinitialize \/ Sync \/ Destroy
           \/ Service \/ SyncedLocation \/ Client

Fairness == /\ WF_vars(JobStep /\ UNCHANGED plugVars)
            /\ SF_vars(CloseLink /\ UNCHANGED plugVars)
            /\ WF_vars(SyncedLocation /\ UNCHANGED activateOnFailure)

Spec == Init /\ [][Next]_vars /\ Fairness

-----------------------------------------------------------------------------
TypeOK ==
  /\ SvcTypeOK
  /\ {service, activateOnFailure} \subseteq BOOLEAN /\ overridden \in BOOLEAN /\ internet \in BOOLEAN
  /\ active \in BOOLEAN /\ everLoaded \in BOOLEAN
  /\ {config, zone, systemZone, location, newZone} \subseteq Zones \cup {NoZone}
  /\ setter \in [Clients -> [at : {"idle", "system", "subsystem"}, zone : Zones \cup {NoZone}]]
  /\ sync \in {"idle", "take", "system", "publish"}

Quiet == sync = "idle" /\ \A c \in Clients : setter[c] = Idle

\* Once a time zone has been set, by a client or in the configuration, only
\* another client can replace it: a probe that is under way cannot.
OverrideWins ==
  [][overridden /\ zone' # zone =>
       \E c \in Clients : setter[c] = Idle /\ setter'[c] # Idle]_vars

\* When nobody is in the middle of a change, the LOCATION subsystem has the
\* zone of the plugin, whoever changed it last.  (With activateonfailure off a
\* probe that starts during SyncedLocation suppresses the update.)
SubsystemFollowsZone == activateOnFailure /\ Quiet /\ active => location = zone

\* "this enables the activation of these subsystems even though probing was
\* unsuccesfull": without it, they wait for a location, or for a set zone.
NoActivationOnFailure ==
  ~activateOnFailure /\ ~everLoaded => ~internet /\ (active => overridden)

\* "startup of the system depends on the Internet and Locatioin subsystems to
\* be flagged": a limited probe always gets there.
StartupContinues ==
  activateOnFailure /\ service /\ Probing /\ asked # MaxUint
    ~> internet \/ ~service \/ stopping # "no"

\* What the plugin has published, and on which ground.
PublishedInOrder == TypeOK /\ SubsystemFollowsZone /\ NoActivationOnFailure

\* Who waits for a probe hears of it.
ProbesAreServed == StartupContinues /\ ProbeEnds

-----------------------------------------------------------------------------
(* Known not to hold, and not checked.                                     *)

\* "Provides access to the timeZone for system" (LocationSyncPlugin.md): when
\* nobody is in the middle of a change, the property is the system's zone.
PropertyIsSystemZone ==
  Quiet /\ zone \notin {NoZone, Factory} => systemZone = zone

\* ASSERT(subSystem != nullptr) in SyncedLocation, which asks _service for it.
SyncHasService == sync = "publish" => service
=============================================================================
