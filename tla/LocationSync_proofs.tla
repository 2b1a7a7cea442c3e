------------------------- MODULE LocationSync_proofs -------------------------
(***************************************************************************)
(* The safety of LocationSync and of the LocationService below it, for any *)
(* width of the retry counter, any number of probes, clients and zones.    *)
(*                                                                         *)
(* The service is proved on its own first, against any caller (AnyStep);   *)
(* the plugin is such a caller (PluginIsAClient).                          *)
(***************************************************************************)
EXTENDS LocationSync, TLAPS

(***************************************************************************)
(* The service.  What three threads do to the carrier is in order because  *)
(* a request is only out over a link that an attempt of the current probe  *)
(* opened, and the job only decides with the link closed (LinkOfTheProbe); *)
(* the rounds are, because those a probe has used and those it has left    *)
(* are together no more than it was asked for (RoundsLeft).                *)
(***************************************************************************)
InProgress == {"IPV6_INPROGRESS", "IPV4_INPROGRESS"}

LinkOfTheProbe ==
  /\ job = "decide" => link = "closed"
  /\ link = "opening" => state \in InProgress /\ carrier
  /\ request # 0 => /\ request = probe /\ link = "open"
                    /\ state \in InProgress /\ carrier
  /\ state = "LOADING" => ~carrier
  /\ stopping = "stopped" => link = "closed" /\ job = "idle" /\ ~Probing

RoundsLeft ==
  state \in Trying /\ asked # MaxUint =>
    rounds + retries < IF state = "IPV4_INPROGRESS" THEN asked + 1 ELSE asked

SvcIInv == SvcTypeOK /\ ProbesInOrder /\ LinkOfTheProbe /\ RoundsLeft

-----------------------------------------------------------------------------
(* The plugin.                                                             *)

\* A zone of the configuration that was not taken over: the plugin has not
\* been initialised yet, and nothing runs.
NotStartedYet ==
  ~overridden /\ config # NoZone =>
    /\ ~service /\ ~active /\ zone = NoZone /\ sync = "idle"
    /\ state = "IDLE" /\ job = "idle" /\ ~timer /\ link = "closed"
    /\ \A c \in Clients : setter[c] = Idle

\* What was set is what the next Initialize finds in the configuration.
ZoneIsKept == ~service /\ overridden => config = zone

SyncIsTheCallback ==
  /\ sync # "idle" => job = "callback"
  /\ sync # "idle" /\ state = "LOADED" => everLoaded

IInv == /\ TypeOK /\ SubsystemFollowsZone /\ NoActivationOnFailure
        /\ SvcIInv /\ NotStartedYet /\ ZoneIsKept /\ SyncIsTheCallback

-----------------------------------------------------------------------------
(* The invariant of the service.                                           *)

\* _retries is a 32-bit counter that wraps.
LEMMA RetriesWrap ==
  ASSUME NEW n \in 0 .. MaxUint
  PROVE  /\ Decremented(n) \in 0 .. MaxUint
         /\ n # 0 /\ n # MaxUint => Decremented(n) = n - 1
<1>1. MaxUint \in Nat /\ MaxUint # 0
  BY UintAssumption
<1>2. CASE n = MaxUint
  BY <1>1, <1>2 DEF Decremented
<1>3. CASE n = 0
  <2>1. MaxUint % (MaxUint + 1) = MaxUint
    BY <1>1
  <2>2. QED BY <1>1, <1>3, <2>1 DEF Decremented
<1>4. CASE n # 0 /\ n # MaxUint
  <2>1. (n + MaxUint) % (MaxUint + 1) = n - 1
    BY <1>1, <1>4
  <2>2. QED BY <1>1, <1>4, <2>1 DEF Decremented
<1>5. QED BY <1>2, <1>3, <1>4

\* The service starts without a probe.
LEMMA SvcInitInvariant == SvcInit => SvcIInv
<1> SUFFICES ASSUME SvcInit PROVE SvcIInv
  OBVIOUS
<1> USE UintAssumption, ProbesAssumption DEF SvcInit, Trying
<1>1. SvcTypeOK
  <2>1. retries \in 0 .. MaxUint /\ asked \in 1 .. MaxUint /\ rounds \in 0 .. MaxUint
    OBVIOUS
  <2>2. probe \in 0 .. MaxProbes /\ data \in 0 .. MaxProbes /\ request \in 0 .. MaxProbes
    OBVIOUS
  <2>3. carrier \in BOOLEAN /\ timer \in BOOLEAN /\ ipv6 \in BOOLEAN
    OBVIOUS
  <2>4. QED BY <2>1, <2>2, <2>3 DEF SvcTypeOK
<1>2. ProbesInOrder
  BY DEF ProbesInOrder, CarrierOfTheProbe, RoundsWithinRetries, FreshLocation
<1>3. LinkOfTheProbe
  BY DEF LinkOfTheProbe
<1>4. RoundsLeft
  BY DEF RoundsLeft
<1>5. QED BY <1>1, <1>2, <1>3, <1>4 DEF SvcIInv

\* A new probe finds the carrier free, and has all of its rounds left.
LEMMA ProbeInvariant ==
  ASSUME SvcIInv, NEW n \in 1 .. MaxUint, Probe(n)
  PROVE  SvcIInv'
<1> USE UintAssumption, ProbesAssumption DEF SvcIInv, Trying, Probing, InProgress, netVars
<1>1. SvcTypeOK'
  BY DEF Probe, SvcTypeOK
<1>2. ProbesInOrder'
  BY DEF Probe, SvcTypeOK, ProbesInOrder, CarrierOfTheProbe, RoundsWithinRetries,
         FreshLocation, LinkOfTheProbe
<1>3. LinkOfTheProbe'
  BY DEF Probe, LinkOfTheProbe
<1>4. RoundsLeft'
  BY DEF Probe, RoundsLeft, SvcTypeOK
<1>5. QED BY <1>1, <1>2, <1>3, <1>4

\* Stop may come at any stage of a probe.
LEMMA StopInvariant ==
  ASSUME SvcIInv, Stop
  PROVE  SvcIInv'
<1> USE DEF SvcIInv, SvcTypeOK, ProbesInOrder, CarrierOfTheProbe, RoundsWithinRetries,
            FreshLocation, LinkOfTheProbe, RoundsLeft, Trying, Probing, InProgress,
            netVars, probeVars, jobVars
<1>1. CASE StopRevokes
  BY <1>1 DEF StopRevokes
<1>2. CASE StopCloses
  <2>1. /\ state' \in {"IDLE", "FAILED", "LOADED"}
        /\ state' = "LOADED" => state = "LOADED"
    BY <1>2 DEF StopCloses
  <2>2. /\ stopping' = "stopped" /\ link' = "closed" /\ request' = 0 /\ carrier' = FALSE
        /\ timer' = FALSE /\ job' = "idle"
        /\ UNCHANGED <<retries, ipv6, rounds, data, probe, asked>>
    BY <1>2 DEF StopCloses
  <2>3. SvcTypeOK'
    <3>1. /\ retries' \in 0 .. MaxUint /\ asked' \in 1 .. MaxUint /\ rounds' \in 0 .. MaxUint
          /\ probe' \in 0 .. MaxProbes /\ data' \in 0 .. MaxProbes /\ request' \in 0 .. MaxProbes
      BY <2>2, ProbesAssumption
    <3>2. carrier' \in BOOLEAN /\ timer' \in BOOLEAN /\ ipv6' \in BOOLEAN
      BY <2>2
    <3>3. QED BY <2>1, <2>2, <3>1, <3>2
  <2>4. ProbesInOrder'
    BY <2>1, <2>2
  <2>5. LinkOfTheProbe' /\ RoundsLeft'
    BY <2>1, <2>2
  <2>6. QED BY <2>3, <2>4, <2>5
<1>3. QED BY <1>1, <1>2 DEF Stop

\* The job when it decides what to do next.
LEMMA DecideInvariant ==
  ASSUME SvcIInv, Decide
  PROVE  SvcIInv'
<1> USE UintAssumption, ProbesAssumption
    DEF SvcIInv, Trying, Probing, InProgress, netVars, probeVars, jobVars, Deciding, LockFree
<1>t. /\ retries \in 0 .. MaxUint /\ rounds \in 0 .. MaxUint /\ asked \in 1 .. MaxUint
      /\ MaxUint \in Nat /\ link = "closed" /\ request = 0
  BY DEF Decide, Fail, ResolveFails, Attempt, Load, NothingToDo, SvcTypeOK, LinkOfTheProbe
<1>n. RetriesNow \in 0 .. MaxUint
  BY <1>t, RetriesWrap DEF RetriesNow
<1>b. StateNow \in Trying /\ asked # MaxUint =>
        /\ StateNow # "IPV4_INPROGRESS"
        /\ rounds + RetriesNow < asked
  <2>1. SUFFICES ASSUME StateNow \in Trying, asked # MaxUint
                 PROVE  StateNow # "IPV4_INPROGRESS" /\ rounds + RetriesNow < asked
    OBVIOUS
  <2>2. CASE TimedOut
    <3>1. retries # 0
      BY <2>1, <2>2 DEF StateNow, Exhausted
    <3>2. rounds + retries < asked + 1
      BY <2>1, <2>2 DEF RoundsLeft, TimedOut
    <3>3. RetriesNow = retries - 1
      BY <1>t, <2>1, <2>2, <3>1, <3>2, RetriesWrap DEF RetriesNow
    <3>4. QED BY <1>t, <2>1, <2>2, <3>2, <3>3 DEF StateNow
  <2>3. CASE ~TimedOut
    BY <2>1, <2>3, <1>t DEF StateNow, RetriesNow, TimedOut, RoundsLeft
  <2>4. QED BY <2>2, <2>3
<1>w. asked # MaxUint => rounds <= asked
  BY DEF ProbesInOrder, RoundsWithinRetries
<1>c. StateNow \in Trying => state \in Trying
  BY DEF StateNow, TimedOut
<1>1. ASSUME GiveUp, retries' \in 0 .. MaxUint PROVE SvcIInv'
  <2>1. /\ state' = "FAILED" /\ carrier' = FALSE /\ ipv6' = FALSE /\ job' = "callback"
        /\ UNCHANGED <<link, request, rounds, data, timer, probe, asked, stopping>>
    BY <1>1 DEF GiveUp
  <2>2. stopping # "stopped"
    BY DEF Decide, Fail, ResolveFails, Attempt, Load, NothingToDo, LinkOfTheProbe
  <2>3. SvcTypeOK'
    BY <1>1, <1>t, <2>1 DEF SvcTypeOK
  <2>4. ProbesInOrder' /\ LinkOfTheProbe' /\ RoundsLeft'
    BY <1>t, <1>w, <2>1, <2>2
    DEF ProbesInOrder, CarrierOfTheProbe, RoundsWithinRetries, FreshLocation,
        LinkOfTheProbe, RoundsLeft
  <2>5. QED BY <2>3, <2>4
<1>2. CASE Fail
  BY <1>1, <1>2, <1>n DEF Fail
<1>3. CASE ResolveFails
  <2>1. retries' \in 0 .. MaxUint
    BY <1>3, <1>n, RetriesWrap DEF ResolveFails
  <2>2. CASE GiveUp
    BY <1>1, <2>1, <2>2
  <2>3. CASE /\ ~Exhausted(RetriesNow) /\ state' = StateNow /\ job' = "reschedule"
             /\ UNCHANGED <<carrier, rounds, data, timer, netVars, probeVars, stopping>>
    <3>1. StateNow \in Trying /\ state \in Trying
      BY <1>3, <1>c DEF ResolveFails
    <3>2. SvcTypeOK'
      BY <2>1, <2>3, <3>1 DEF SvcTypeOK
    <3>3. ProbesInOrder' /\ LinkOfTheProbe'
      BY <1>t, <2>3, <3>1 DEF ProbesInOrder, CarrierOfTheProbe, RoundsWithinRetries,
         FreshLocation, LinkOfTheProbe, SvcTypeOK
    <3>4. RoundsLeft'
      <4>1. SUFFICES ASSUME asked # MaxUint
                     PROVE  rounds + retries' < asked
        BY <1>b, <2>3, <3>1 DEF RoundsLeft
      <4>2. rounds + RetriesNow < asked /\ RetriesNow # 0
        BY <1>b, <2>3, <3>1, <4>1 DEF Exhausted
      <4>3. retries' = RetriesNow - 1
        BY <1>3, <1>t, <1>n, <4>1, <4>2, RetriesWrap DEF ResolveFails
      <4>4. QED BY <1>t, <1>n, <4>2, <4>3
    <3>5. QED BY <3>2, <3>3, <3>4
  <2>4. QED BY <1>3, <2>2, <2>3 DEF ResolveFails
<1>4. CASE Attempt
  <2>1. /\ StateNow \in Trying /\ state \in Trying
        /\ state' \in InProgress /\ retries' = RetriesNow /\ link' \in {"opening", "closed"}
        /\ job' = "reschedule"
        /\ UNCHANGED <<carrier, data, timer, ipv6, request, probe, asked, stopping>>
        /\ rounds' = IF state' = "IPV4_INPROGRESS" /\ rounds < MaxUint
                       THEN rounds + 1 ELSE rounds
        /\ stopping # "revoking"
    BY <1>4, <1>c DEF Attempt
  <2>2. SvcTypeOK'
    BY <1>t, <1>n, <2>1 DEF SvcTypeOK
  <2>3. carrier /\ stopping # "stopped"
    BY <2>1 DEF ProbesInOrder, CarrierOfTheProbe, LinkOfTheProbe
  <2>4. RoundsLeft'
    BY <1>b, <1>t, <1>n, <2>1 DEF RoundsLeft
  <2>5. asked # MaxUint => rounds' <= asked
    BY <1>b, <1>t, <1>n, <2>1
  <2>6. ProbesInOrder' /\ LinkOfTheProbe'
    BY <1>t, <2>1, <2>3, <2>5 DEF ProbesInOrder, CarrierOfTheProbe, RoundsWithinRetries,
       FreshLocation, LinkOfTheProbe
  <2>7. QED BY <2>2, <2>4, <2>6
<1>5. CASE Load
  BY <1>5, <1>t
  DEF Load, SvcTypeOK, ProbesInOrder, CarrierOfTheProbe, RoundsWithinRetries,
      FreshLocation, LinkOfTheProbe, RoundsLeft
<1>6. CASE NothingToDo
  BY <1>6, <1>t
  DEF NothingToDo, SvcTypeOK, ProbesInOrder, CarrierOfTheProbe, RoundsWithinRetries,
      FreshLocation, LinkOfTheProbe, RoundsLeft
<1>7. QED BY <1>2, <1>3, <1>4, <1>5, <1>6 DEF Decide

\* The rest of the job, the callback included.
LEMMA JobInvariant ==
  ASSUME SvcIInv, Fire \/ CloseLink \/ CloseTimesOut \/ Reschedule \/ Callback
  PROVE  SvcIInv'
<1> USE ProbesAssumption
    DEF SvcIInv, SvcTypeOK, ProbesInOrder, CarrierOfTheProbe, RoundsWithinRetries,
        FreshLocation, LinkOfTheProbe, RoundsLeft, Trying, Probing, InProgress,
        netVars, probeVars, jobVars
<1>1. CASE Fire
  BY <1>1 DEF Fire
<1>2. CASE CloseLink
  BY <1>2 DEF CloseLink
<1>3. CASE CloseTimesOut
  BY <1>3 DEF CloseTimesOut
<1>4. CASE Reschedule
  BY <1>4 DEF Reschedule
<1>5. CASE Callback
  BY <1>5 DEF Callback
<1>6. QED BY <1>1, <1>2, <1>3, <1>4, <1>5

\* What the socket reports concerns the attempt that opened the link.
LEMMA SocketInvariant ==
  ASSUME SvcIInv, Socket
  PROVE  SvcIInv'
<1> USE ProbesAssumption
    DEF SvcIInv, SvcTypeOK, ProbesInOrder, CarrierOfTheProbe, RoundsWithinRetries,
        FreshLocation, LinkOfTheProbe, RoundsLeft, Trying, Probing, InProgress,
        netVars, probeVars, jobVars, Answered, LockFree
<1>1. CASE Opened
  BY <1>1 DEF Opened
<1>2. CASE LinkError
  BY <1>2 DEF LinkError
<1>3. CASE PeerCloses
  BY <1>3 DEF PeerCloses
<1>4. CASE ReceivedNothing
  BY <1>4 DEF ReceivedNothing
<1>5. CASE ReceivedLocation
  <2>1. /\ request = probe /\ link = "open" /\ stopping # "stopped" /\ job # "decide"
    BY <1>5 DEF ReceivedLocation
  <2>2. /\ state' = "LOADING" /\ data' = probe /\ carrier' = FALSE
        /\ ipv6' \in BOOLEAN /\ request' = 0 /\ timer' = TRUE
        /\ UNCHANGED <<retries, rounds, link, job, probe, asked, stopping>>
    BY <1>5, <2>1 DEF ReceivedLocation
  <2>3. SvcTypeOK'
    <3>1. /\ retries' \in 0 .. MaxUint /\ asked' \in 1 .. MaxUint /\ rounds' \in 0 .. MaxUint
          /\ probe' \in 0 .. MaxProbes /\ data' \in 0 .. MaxProbes /\ request' \in 0 .. MaxProbes
      BY <2>2
    <3>2. carrier' \in BOOLEAN /\ timer' \in BOOLEAN /\ ipv6' \in BOOLEAN
      BY <2>2
    <3>3. QED BY <2>1, <2>2, <3>1, <3>2
  <2>4. ProbesInOrder'
    BY <2>1, <2>2
  <2>5. LinkOfTheProbe' /\ RoundsLeft'
    BY <2>1, <2>2
  <2>6. QED BY <2>3, <2>4, <2>5
<1>6. CASE ReceivedBadAddress
  <2>1. /\ request = probe /\ link = "open" /\ stopping # "stopped" /\ job # "decide"
    BY <1>6 DEF ReceivedBadAddress
  <2>2. /\ state' = "FAILED" /\ data' = probe /\ carrier' = FALSE
        /\ request' = 0 /\ timer' = TRUE
        /\ UNCHANGED <<retries, rounds, link, ipv6, job, probe, asked, stopping>>
    BY <1>6, <2>1 DEF ReceivedBadAddress
  <2>3. SvcTypeOK'
    <3>1. /\ retries' \in 0 .. MaxUint /\ asked' \in 1 .. MaxUint /\ rounds' \in 0 .. MaxUint
          /\ probe' \in 0 .. MaxProbes /\ data' \in 0 .. MaxProbes /\ request' \in 0 .. MaxProbes
      BY <2>2
    <3>2. carrier' \in BOOLEAN /\ timer' \in BOOLEAN /\ ipv6' \in BOOLEAN
      BY <2>2
    <3>3. QED BY <2>1, <2>2, <3>1, <3>2
  <2>4. ProbesInOrder'
    BY <2>1, <2>2
  <2>5. LinkOfTheProbe' /\ RoundsLeft'
    BY <2>1, <2>2
  <2>6. QED BY <2>3, <2>4, <2>5
<1>7. QED BY <1>1, <1>2, <1>3, <1>4, <1>5, <1>6 DEF Socket

\* A step of the service, on behalf of whichever client.
AnyStep == \/ \E n \in 1 .. MaxUint : Probe(n)
           \/ Stop \/ JobStep \/ Socket \/ Callback

\* No step of the service, with any caller, breaks its invariant.
LEMMA SvcNextInvariant ==
  ASSUME SvcIInv, [AnyStep]_svcVars
  PROVE  SvcIInv'
<1>1. CASE AnyStep
  BY <1>1, ProbeInvariant, StopInvariant, DecideInvariant, JobInvariant, SocketInvariant
  DEF AnyStep, JobStep
<1>2. CASE UNCHANGED svcVars
  BY <1>2 DEF SvcIInv, SvcTypeOK, ProbesInOrder, CarrierOfTheProbe, RoundsWithinRetries,
     FreshLocation, LinkOfTheProbe, RoundsLeft, Trying, Probing, InProgress,
     svcVars, netVars, probeVars, jobVars
<1>3. QED BY <1>1, <1>2

-----------------------------------------------------------------------------
(* The plugin on top of it.                                                *)

\* Whatever the plugin does, the service makes one of its own steps, or none.
LEMMA PluginIsAClient == [Next]_vars => [AnyStep]_svcVars
<1> SUFFICES ASSUME [Next]_vars PROVE [AnyStep]_svcVars
  OBVIOUS
<1>1. ASSUME NEW n \in 1 .. MaxUint, TryProbe(n) PROVE [AnyStep]_svcVars
  BY <1>1 DEF TryProbe, AnyStep
<1>2. ASSUME NEW n \in InitRetries, Initialize(n) PROVE [AnyStep]_svcVars
  BY <1>1, <1>2, InitAssumption DEF Initialize
<1>3. CASE Sync
  BY <1>1, <1>3, UintAssumption DEF Sync
<1>4. CASE Destroy
  BY <1>4 DEF Destroy, AnyStep
<1>5. CASE Service
  BY <1>5 DEF Service, AnyStep
<1>6. CASE SyncedLocation
  BY <1>6 DEF SyncedLocation, SyncStarts, SyncSystemZone, PublishLocation, TakeLocation,
              AnyStep
<1>7. CASE Deinitialize \/ Client
  BY <1>7 DEF Deinitialize, Client, SetZone, SetSystemZone, UpdateSubsystem
<1>8. CASE UNCHANGED vars
  BY <1>8 DEF vars
<1>9. QED BY <1>2, <1>3, <1>4, <1>5, <1>6, <1>7, <1>8 DEF Next

\* What a step of the service means to the plugin: it is idle until it is
\* asked, it does not load a location behind a callback in progress, and it
\* leaves the callback when it is over.
LEMMA ServiceStep ==
  ASSUME SvcIInv, Stop \/ JobStep \/ Socket
  PROVE  /\ job = "callback" => job' = "callback"
         /\ job = "callback" /\ state' = "LOADED" => state = "LOADED"
         /\ state = "IDLE" /\ job = "idle" /\ ~timer /\ link = "closed" =>
              state' = "IDLE" /\ job' = "idle" /\ timer' = FALSE /\ link' = "closed"
<1> USE DEF Probing, Trying
<1>1. CASE Stop
  BY <1>1 DEF Stop, StopRevokes, StopCloses, netVars
<1>2. CASE Fire \/ CloseLink \/ CloseTimesOut \/ Reschedule
  BY <1>2 DEF Fire, CloseLink, CloseTimesOut, Reschedule
<1>3. CASE Decide
  <2>1. job = "decide"
    BY <1>3 DEF Decide, Fail, ResolveFails, Attempt, Load, NothingToDo, Deciding
  <2>2. QED BY <2>1
<1>4. CASE Socket
  BY <1>4 DEF Socket, Opened, LinkError, PeerCloses, ReceivedNothing, ReceivedLocation,
              ReceivedBadAddress, Answered, jobVars
<1>5. QED BY <1>1, <1>2, <1>3, <1>4 DEF JobStep

\* The plugin starts with nothing published.
LEMMA InitInvariant == Init => IInv
<1> SUFFICES ASSUME Init PROVE IInv
  OBVIOUS
<1>1. SvcIInv
  BY SvcInitInvariant DEF Init
<1>2. TypeOK
  <2>1. setter \in [Clients -> [at : {"idle", "system", "subsystem"}, zone : Zones \cup {NoZone}]]
    BY DEF Init, Idle
  <2>2. {config, zone, systemZone, location, newZone} \subseteq Zones \cup {NoZone}
    BY DEF Init
  <2>3. QED BY <1>1, <2>1, <2>2 DEF Init, TypeOK, SvcIInv
<1>3. SubsystemFollowsZone /\ NoActivationOnFailure
  BY DEF Init, SubsystemFollowsZone, NoActivationOnFailure
<1>4. NotStartedYet /\ ZoneIsKept /\ SyncIsTheCallback
  BY DEF Init, SvcInit, NotStartedYet, ZoneIsKept, SyncIsTheCallback
<1>5. QED BY <1>1, <1>2, <1>3, <1>4 DEF IInv

\* Steps of the service alone.
LEMMA ServiceInvariant ==
  ASSUME IInv, SvcIInv', Stop \/ JobStep \/ Socket, UNCHANGED <<plugVars>>
  PROVE  IInv'
<1>1. TypeOK'
  BY DEF IInv, TypeOK, SvcIInv, plugVars, zoneVars, subVars, syncVars
<1>2. SubsystemFollowsZone' /\ NoActivationOnFailure' /\ ZoneIsKept'
  BY DEF IInv, SubsystemFollowsZone, NoActivationOnFailure, ZoneIsKept, Quiet,
         plugVars, zoneVars, subVars, syncVars
<1>3. NotStartedYet' /\ SyncIsTheCallback'
  BY ServiceStep
  DEF IInv, NotStartedYet, SyncIsTheCallback, plugVars, zoneVars, subVars, syncVars
<1>4. QED BY <1>1, <1>2, <1>3 DEF IInv

\* A plugin that asks for a probe is a caller of the service.
LEMMA TryProbeStep ==
  ASSUME NEW n, TryProbe(n)
  PROVE  /\ UNCHANGED job
         /\ state' = "LOADED" => state = "LOADED"
BY DEF TryProbe, Probe, svcVars, jobVars

\* Start, stop and the clients of the time zone keep the invariant.
LEMMA PluginInvariant ==
  ASSUME IInv, SvcIInv', UNCHANGED activateOnFailure,
         \/ \E n \in InitRetries : Initialize(n)
         \/ Deinitialize \/ Sync
  PROVE  IInv'
<1> USE DEF IInv, zoneVars, subVars, syncVars
<1>1. ASSUME NEW n \in InitRetries, Initialize(n) PROVE IInv'
  <2>1. UNCHANGED job /\ (state' = "LOADED" => state = "LOADED")
    BY <1>1, TryProbeStep DEF Initialize
  <2>2. /\ ~service /\ service' = TRUE
        /\ UNCHANGED <<config, internet, location, active, setter, sync, newZone, everLoaded>>
    BY <1>1 DEF Initialize, TypeOK
  <2>3. TypeOK'
    <3>1. {config, zone, systemZone, location, newZone}' \subseteq Zones \cup {NoZone}
          /\ overridden' \in BOOLEAN
      BY <1>1 DEF Initialize, TypeOK, SystemZoneAfter
    <3>2. QED BY <2>2, <3>1 DEF TypeOK, SvcIInv
  <2>4. CASE config # NoZone
    <3>1. zone' = config /\ overridden' = TRUE
      BY <1>1, <2>4 DEF Initialize
    <3>2. overridden => zone' = zone
      BY <2>2, <3>1 DEF ZoneIsKept
    <3>3. ~overridden => ~active
      BY <2>4 DEF NotStartedYet
    <3>4. SubsystemFollowsZone' /\ NoActivationOnFailure'
      BY <2>2, <3>1, <3>2, <3>3 DEF SubsystemFollowsZone, NoActivationOnFailure, Quiet, TypeOK
    <3>5. NotStartedYet' /\ ZoneIsKept' /\ SyncIsTheCallback'
      BY <2>1, <2>2, <3>1 DEF NotStartedYet, ZoneIsKept, SyncIsTheCallback
    <3>6. QED BY <2>3, <3>4, <3>5
  <2>5. CASE config = NoZone
    <3>1. UNCHANGED <<zone, overridden>>
      BY <1>1, <2>5 DEF Initialize
    <3>2. SubsystemFollowsZone' /\ NoActivationOnFailure'
      BY <2>2, <3>1 DEF SubsystemFollowsZone, NoActivationOnFailure, Quiet
    <3>3. NotStartedYet' /\ ZoneIsKept' /\ SyncIsTheCallback'
      BY <2>1, <2>2, <2>5, <3>1 DEF NotStartedYet, ZoneIsKept, SyncIsTheCallback
    <3>4. QED BY <2>3, <3>2, <3>3
  <2>6. QED BY <2>4, <2>5
<1>2. CASE Deinitialize
  <2>1. /\ service /\ service' = FALSE /\ UNCHANGED svcVars
        /\ config' = IF overridden THEN zone ELSE config
        /\ UNCHANGED <<overridden, zone, systemZone, internet, location, active, setter,
                       sync, newZone, everLoaded>>
    BY <1>2 DEF Deinitialize
  <2>2. TypeOK'
    BY <2>1 DEF TypeOK, SvcIInv
  <2>3. SubsystemFollowsZone' /\ NoActivationOnFailure'
    BY <2>1 DEF SubsystemFollowsZone, NoActivationOnFailure, Quiet
  <2>4. NotStartedYet' /\ ZoneIsKept' /\ SyncIsTheCallback'
    BY <2>1 DEF NotStartedYet, ZoneIsKept, SyncIsTheCallback, svcVars, jobVars
  <2>5. QED BY <2>2, <2>3, <2>4
<1>3. CASE Sync
  <2>1. UNCHANGED job /\ (state' = "LOADED" => state = "LOADED")
    BY <1>3, TryProbeStep DEF Sync
  <2>2. service /\ UNCHANGED plugVars
    BY <1>3 DEF Sync
  <2>3. TypeOK'
    BY <2>2 DEF TypeOK, SvcIInv, plugVars
  <2>4. SubsystemFollowsZone' /\ NoActivationOnFailure'
    BY <2>2 DEF SubsystemFollowsZone, NoActivationOnFailure, Quiet, plugVars
  <2>5. NotStartedYet' /\ ZoneIsKept' /\ SyncIsTheCallback'
    BY <2>1, <2>2 DEF NotStartedYet, ZoneIsKept, SyncIsTheCallback, plugVars
  <2>6. QED BY <2>3, <2>4, <2>5
<1>4. QED BY <1>1, <1>2, <1>3

\* The client that sets a zone is not idle until the subsystem has it.
LEMMA ClientInvariant ==
  ASSUME IInv, SvcIInv', UNCHANGED activateOnFailure, Client
  PROVE  IInv'
<1> USE DEF IInv, zoneVars, subVars, syncVars
<1>t. setter \in [Clients -> [at : {"idle", "system", "subsystem"}, zone : Zones \cup {NoZone}]]
  BY DEF TypeOK
<1>1. ASSUME NEW c \in Clients, NEW z \in Zones, SetZone(c, z) PROVE IInv'
  <2>1. /\ service /\ overridden' = TRUE /\ zone' = z
        /\ setter' = [setter EXCEPT ![c] = IF zone = z THEN Idle
                                           ELSE [at |-> "system", zone |-> z]]
        /\ UNCHANGED svcVars
        /\ UNCHANGED <<service, config, systemZone, internet, location, active, sync,
                       newZone, everLoaded>>
    BY <1>1 DEF SetZone
  <2>2. TypeOK'
    <3>1. setter' \in [Clients -> [at : {"idle", "system", "subsystem"},
                                   zone : Zones \cup {NoZone}]]
      BY <1>t, <2>1 DEF Idle
    <3>2. QED BY <2>1, <3>1 DEF TypeOK, SvcIInv
  <2>3. SubsystemFollowsZone'
    <3>1. CASE zone = z
      <4>1. setter' = setter
        BY <1>1, <1>t, <2>1, <3>1 DEF SetZone
      <4>2. QED BY <2>1, <3>1, <4>1 DEF SubsystemFollowsZone, Quiet
    <3>2. CASE zone # z
      <4>1. setter'[c] # Idle
        BY <1>t, <2>1, <3>2 DEF Idle
      <4>2. QED BY <4>1 DEF SubsystemFollowsZone, Quiet
    <3>3. QED BY <3>1, <3>2
  <2>4. NoActivationOnFailure'
    BY <2>1 DEF NoActivationOnFailure
  <2>5. NotStartedYet' /\ ZoneIsKept' /\ SyncIsTheCallback'
    BY <2>1 DEF NotStartedYet, ZoneIsKept, SyncIsTheCallback, svcVars, jobVars
  <2>6. QED BY <2>2, <2>3, <2>4, <2>5
<1>2. ASSUME NEW c \in Clients, SetSystemZone(c) PROVE IInv'
  <2>1. /\ setter[c].at = "system" /\ setter' = [setter EXCEPT ![c].at = "subsystem"]
        /\ systemZone' = SystemZoneAfter(setter[c].zone)
        /\ UNCHANGED svcVars
        /\ UNCHANGED <<service, config, overridden, zone, internet, location, active, sync,
                       newZone, everLoaded>>
    BY <1>2 DEF SetSystemZone, At, Goes
  <2>2. TypeOK'
    <3>1. setter' \in [Clients -> [at : {"idle", "system", "subsystem"},
                                   zone : Zones \cup {NoZone}]]
      BY <1>t, <2>1
    <3>2. systemZone' \in Zones \cup {NoZone}
      BY <1>t, <2>1 DEF SystemZoneAfter, TypeOK
    <3>3. QED BY <2>1, <3>1, <3>2 DEF TypeOK, SvcIInv
  <2>3. setter[c] # Idle /\ setter'[c] # Idle
    BY <1>t, <2>1 DEF Idle
  <2>4. SubsystemFollowsZone' /\ NoActivationOnFailure'
    BY <2>1, <2>3 DEF SubsystemFollowsZone, NoActivationOnFailure, Quiet
  <2>5. NotStartedYet' /\ ZoneIsKept' /\ SyncIsTheCallback'
    BY <2>1, <2>3 DEF NotStartedYet, ZoneIsKept, SyncIsTheCallback, svcVars, jobVars
  <2>6. QED BY <2>2, <2>4, <2>5
<1>3. ASSUME NEW c \in Clients, UpdateSubsystem(c) PROVE IInv'
  <2>1. /\ setter[c].at = "subsystem" /\ setter' = [setter EXCEPT ![c] = Idle]
        /\ location' = IF active THEN zone ELSE location
        /\ UNCHANGED svcVars
        /\ UNCHANGED <<service, config, overridden, zone, systemZone, internet, active, sync,
                       newZone, everLoaded>>
    BY <1>3 DEF UpdateSubsystem, At
  <2>2. TypeOK'
    <3>1. setter' \in [Clients -> [at : {"idle", "system", "subsystem"},
                                   zone : Zones \cup {NoZone}]]
      BY <1>t, <2>1 DEF Idle
    <3>2. location' \in Zones \cup {NoZone}
      BY <2>1 DEF TypeOK
    <3>3. QED BY <2>1, <3>1, <3>2 DEF TypeOK, SvcIInv
  <2>3. SubsystemFollowsZone' /\ NoActivationOnFailure'
    BY <2>1 DEF SubsystemFollowsZone, NoActivationOnFailure, Quiet
  <2>n. setter[c] # Idle
    BY <2>1 DEF Idle
  <2>4. NotStartedYet' /\ ZoneIsKept' /\ SyncIsTheCallback'
    BY <2>1, <2>n DEF NotStartedYet, ZoneIsKept, SyncIsTheCallback, svcVars, jobVars
  <2>5. QED BY <2>2, <2>3, <2>4
<1>4. QED BY <1>1, <1>2, <1>3 DEF Client

\* The callback of a probe keeps it, cut where it drops the lock.
LEMMA SyncInvariant ==
  ASSUME IInv, SvcIInv', UNCHANGED activateOnFailure, SyncedLocation
  PROVE  IInv'
<1> USE DEF IInv, zoneVars, subVars
<1>n. ~overridden => config = NoZone
  BY DEF NotStartedYet, SyncedLocation, SyncStarts, SyncSystemZone, PublishLocation, TakeLocation
<1>1. CASE SyncStarts
  <2>1. /\ job = "callback" /\ sync = "idle" /\ sync' \in {"take", "publish"}
        /\ everLoaded' = (everLoaded \/ state = "LOADED")
        /\ UNCHANGED svcVars
        /\ UNCHANGED <<service, config, overridden, zone, systemZone, internet, location,
                       active, setter, newZone>>
    BY <1>1 DEF SyncStarts
  <2>2. TypeOK'
    BY <2>1 DEF TypeOK, SvcIInv
  <2>3. SubsystemFollowsZone' /\ NoActivationOnFailure'
    BY <2>1 DEF SubsystemFollowsZone, NoActivationOnFailure, Quiet
  <2>4. NotStartedYet' /\ ZoneIsKept' /\ SyncIsTheCallback'
    BY <1>n, <2>1 DEF NotStartedYet, ZoneIsKept, SyncIsTheCallback, svcVars, jobVars
  <2>5. QED BY <2>2, <2>3, <2>4
<1>2. ASSUME NEW found \in Zones \cup {NoZone}, TakeLocation(found) PROVE IInv'
  <2>1. /\ sync = "take" /\ sync' \in {"publish", "system"}
        /\ newZone' \in Zones \cup {NoZone} /\ zone' \in Zones \cup {NoZone}
        /\ overridden => zone' = zone
        /\ UNCHANGED svcVars
        /\ UNCHANGED <<service, config, overridden, systemZone, internet, location, active,
                       setter, everLoaded>>
    BY <1>2 DEF TakeLocation, TypeOK
  <2>2. TypeOK'
    BY <2>1 DEF TypeOK, SvcIInv
  <2>3. SubsystemFollowsZone' /\ NoActivationOnFailure'
    BY <2>1 DEF SubsystemFollowsZone, NoActivationOnFailure, Quiet
  <2>4. NotStartedYet' /\ ZoneIsKept' /\ SyncIsTheCallback'
    BY <1>n, <2>1 DEF NotStartedYet, ZoneIsKept, SyncIsTheCallback, svcVars, jobVars
  <2>5. QED BY <2>2, <2>3, <2>4
<1>3. CASE SyncSystemZone
  <2>1. /\ sync = "system" /\ sync' = "publish"
        /\ systemZone' = SystemZoneAfter(newZone)
        /\ UNCHANGED svcVars
        /\ UNCHANGED <<service, config, overridden, zone, internet, location, active,
                       setter, newZone, everLoaded>>
    BY <1>3 DEF SyncSystemZone
  <2>2. TypeOK'
    BY <2>1 DEF TypeOK, SvcIInv, SystemZoneAfter
  <2>3. SubsystemFollowsZone' /\ NoActivationOnFailure'
    BY <2>1 DEF SubsystemFollowsZone, NoActivationOnFailure, Quiet
  <2>4. NotStartedYet' /\ ZoneIsKept' /\ SyncIsTheCallback'
    BY <1>n, <2>1 DEF NotStartedYet, ZoneIsKept, SyncIsTheCallback, svcVars, jobVars
  <2>5. QED BY <2>2, <2>3, <2>4
<1>4. CASE PublishLocation
  <2>1. /\ sync = "publish" /\ sync' = "idle" /\ newZone' = NoZone
        /\ job' = "idle" /\ state' = state
        /\ UNCHANGED <<service, config, overridden, zone, systemZone, setter, everLoaded>>
    BY <1>4 DEF PublishLocation, Callback
  <2>2. IF activateOnFailure \/ state = "LOADED"
          THEN internet' = TRUE /\ location' = zone /\ active' = TRUE
        ELSE IF overridden
          THEN location' = zone /\ active' = TRUE /\ internet' = internet
          ELSE internet' = internet /\ location' = location /\ active' = active
    BY <1>4 DEF PublishLocation
  <2>3. TypeOK'
    <3>1. /\ internet' \in BOOLEAN /\ active' \in BOOLEAN
          /\ location' \in Zones \cup {NoZone}
      BY <2>2 DEF TypeOK
    <3>2. QED BY <2>1, <3>1 DEF TypeOK, SvcIInv
  <2>4. SubsystemFollowsZone'
    BY <2>1, <2>2 DEF SubsystemFollowsZone
  <2>5. NoActivationOnFailure'
    BY <2>1, <2>2 DEF NoActivationOnFailure, SyncIsTheCallback, TypeOK
  <2>6. NotStartedYet' /\ ZoneIsKept' /\ SyncIsTheCallback'
    BY <1>n, <2>1 DEF NotStartedYet, ZoneIsKept, SyncIsTheCallback
  <2>7. QED BY <2>3, <2>4, <2>5, <2>6
<1>5. QED BY <1>1, <1>2, <1>3, <1>4 DEF SyncedLocation

\* Every step keeps the invariant.
LEMMA NextInvariant == IInv /\ [Next]_vars => IInv'
<1> SUFFICES ASSUME IInv, [Next]_vars PROVE IInv'
  OBVIOUS
<1>1. SvcIInv'
  BY PluginIsAClient, SvcNextInvariant DEF IInv
<1>2. CASE Service \/ Destroy
  BY <1>1, <1>2, ServiceInvariant DEF Service, Destroy
<1>3. CASE UNCHANGED vars
  <2>1. TypeOK' /\ SubsystemFollowsZone' /\ NoActivationOnFailure' /\ ZoneIsKept'
    BY <1>1, <1>3 DEF IInv, vars, plugVars, zoneVars, subVars, syncVars, TypeOK, SvcIInv,
       SubsystemFollowsZone, NoActivationOnFailure, Quiet, ZoneIsKept
  <2>2. NotStartedYet' /\ SyncIsTheCallback'
    BY <1>3 DEF IInv, vars, plugVars, zoneVars, subVars, syncVars, svcVars, jobVars,
       netVars, NotStartedYet, SyncIsTheCallback
  <2>3. QED BY <1>1, <2>1, <2>2 DEF IInv
<1>4. QED
  BY <1>1, <1>2, <1>3, PluginInvariant, ClientInvariant, SyncInvariant DEF Next

\* Service and plugin are in order in every state.
LEMMA Invariance == Spec => []IInv
BY InitInvariant, NextInvariant, PTL DEF Spec

-----------------------------------------------------------------------------
\* A probe has its carrier, its rounds and its answer, and no other's, for any
\* width of the retry counter, any retries asked for and any number of probes.
THEOREM ProbesStayInOrder == Spec => []ProbesInOrder
<1>1. IInv => ProbesInOrder
  BY DEF IInv, SvcIInv
<1>2. QED BY <1>1, Invariance, PTL

\* What the plugin has published, and on which ground, whatever its clients and
\* its probes do meanwhile.
THEOREM PublishedStaysInOrder == Spec => []PublishedInOrder
<1>1. IInv => PublishedInOrder
  BY DEF IInv, PublishedInOrder
<1>2. QED BY <1>1, Invariance, PTL

\* An answer that was received is published, whatever timer expires meanwhile.
THEOREM AnswersAreNotLost == Spec => AnswerNotLost
<1>1. ASSUME SvcIInv, [AnyStep]_svcVars, state = "LOADING", stopping' # "stopped"
      PROVE  state' \in {"LOADING", "LOADED"}
  <2> USE DEF Trying, Probing
  <2>1. \A n \in 1 .. MaxUint : ~Probe(n)
    BY <1>1 DEF Probe
  <2>2. CASE Stop
    BY <1>1, <2>2 DEF Stop, StopRevokes, StopCloses
  <2>3. CASE Fire \/ CloseLink \/ CloseTimesOut \/ Reschedule \/ Callback
    BY <1>1, <2>3 DEF Fire, CloseLink, CloseTimesOut, Reschedule, Callback
  <2>4. CASE Decide
    BY <1>1, <2>4 DEF Decide, Fail, ResolveFails, Attempt, Load, NothingToDo, StateNow, TimedOut
  <2>5. CASE Socket
    <3>1. request = 0
      BY <1>1 DEF SvcIInv, LinkOfTheProbe, InProgress
    <3>2. QED BY <1>1, <2>5, <3>1 DEF Socket, Opened, LinkError, PeerCloses,
                 ReceivedNothing, ReceivedLocation, ReceivedBadAddress, Answered
  <2>6. QED
    BY <1>1, <2>1, <2>2, <2>3, <2>4, <2>5 DEF AnyStep, JobStep, svcVars
<1>2. IInv /\ [Next]_vars =>
        [state = "LOADING" /\ stopping' # "stopped" => state' \in {"LOADING", "LOADED"}]_svcVars
  BY <1>1, PluginIsAClient DEF IInv
<1>3. QED BY <1>2, Invariance, PTL DEF Spec, AnswerNotLost

\* Once a time zone has been set, only another client can replace it.
THEOREM OverridesWin == Spec => OverrideWins
<1>1. ASSUME IInv, [Next]_vars, overridden, zone' # zone
      PROVE  \E c \in Clients : setter[c] = Idle /\ setter'[c] # Idle
  <2>1. ASSUME NEW n \in InitRetries, Initialize(n) PROVE FALSE
    BY <1>1, <2>1 DEF Initialize, IInv, ZoneIsKept
  <2>2. ASSUME NEW c \in Clients, NEW z \in Zones, SetZone(c, z)
        PROVE  setter[c] = Idle /\ setter'[c] # Idle
    BY <1>1, <2>2 DEF SetZone, Idle, IInv, TypeOK
  <2>3. ~SyncedLocation
    BY <1>1 DEF SyncedLocation, SyncStarts, SyncSystemZone, PublishLocation, TakeLocation,
                zoneVars
  <2>4. ~Deinitialize /\ ~Sync /\ ~Destroy /\ ~Service /\ vars' # vars
    BY <1>1 DEF Deinitialize, Sync, Destroy, Service, vars, plugVars, zoneVars
  <2>5. \A c \in Clients : ~SetSystemZone(c) /\ ~UpdateSubsystem(c)
    BY <1>1 DEF SetSystemZone, UpdateSubsystem, zoneVars
  <2>6. QED BY <1>1, <2>1, <2>2, <2>3, <2>4, <2>5 DEF Next, Client
<1>2. QED BY <1>1, Invariance, PTL DEF Spec, OverrideWins
=============================================================================
