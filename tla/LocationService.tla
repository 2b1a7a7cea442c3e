--------------------------- MODULE LocationService ---------------------------
(***************************************************************************)
(* LocationService: one probe of a geolocation server, retried over IPv6   *)
(* and IPv4 by a worker-pool job, answered on the socket's thread.         *)
(*                                                                         *)
(* The job runs in steps because it holds _adminLock only while it         *)
(* decides: it closes the link before, and calls back or reschedules       *)
(* itself after.  The callbacks of the socket are single steps: the socket *)
(* serializes them with Close().                                           *)
(*                                                                         *)
(* External: the job (one pending run at a time, a Reschedule while it     *)
(* runs makes it run again, Revoke waits for the run in progress), the     *)
(* socket, name resolution and the server, each free to fail at any time.  *)
(***************************************************************************)
EXTENDS Integers

CONSTANTS MaxUint,     \* UINT32_MAX, "retry unlimited"
          RetryArgs,   \* what Probe is called with
          MaxProbes,   \* bound: accepted probes
          BadAddress   \* may the server answer with text that is no address?

ASSUME UintAssumption == MaxUint \in Nat \ {0}
ASSUME ArgsAssumption == RetryArgs \subseteq 1 .. MaxUint
ASSUME ProbesAssumption == MaxProbes \in Nat /\ BadAddress \in BOOLEAN

VARIABLES
  state,     \* _state
  retries,   \* _retries
  carrier,   \* _infoCarrier.IsValid()
  ipv6,      \* Core::NodeId::IsIPV6Enabled()
  link,      \* the socket: closed, opening or open
  request,   \* the probe whose request is out, 0 for none
  timer,     \* the job is scheduled
  job,       \* where its run is
  stopping,  \* Stop(), called by the destructor
  probe,     \* history: number of the current probe
  asked,     \* history: retries it was asked for
  rounds,    \* history: rounds it has used, that is IPv4 attempts
  data       \* history: the probe the loaded location comes from

jobVars    == <<timer, job>>
netVars    == <<ipv6, link, request>>
probeVars  == <<probe, asked>>
svcVars    == <<state, retries, carrier, rounds, data, jobVars, netVars, probeVars, stopping>>

Trying  == {"ACTIVE", "IPV6_INPROGRESS", "IPV4_INPROGRESS"}
Probing == state \in Trying \cup {"LOADING"}

SvcInit ==
  /\ state = "IDLE" /\ retries = MaxUint /\ carrier = FALSE /\ ipv6 \in BOOLEAN
  /\ link = "closed" /\ request = 0
  /\ timer = FALSE /\ job = "idle" /\ stopping = "no"
  /\ probe = 0 /\ asked = MaxUint /\ rounds = 0 /\ data = 0

-----------------------------------------------------------------------------
\* Accepted when no probe is in progress; refused probes change nothing.  An
\* unlimited probe leaves _retries as the last one left it.
Probe(n) ==
  /\ stopping = "no" /\ probe < MaxProbes
  /\ state \in {"IDLE", "FAILED", "LOADED"}
  /\ state' = "ACTIVE"
  /\ retries' = IF n # MaxUint THEN n - 1 ELSE retries
  /\ carrier' = TRUE /\ timer' = TRUE
  /\ probe' = probe + 1 /\ asked' = n /\ rounds' = 0
  /\ UNCHANGED <<netVars, job, stopping, data>>

\* Stop() takes the lock and waits, holding it, for the job to be gone...
StopRevokes ==
  /\ stopping = "no"
  /\ stopping' = "revoking" /\ timer' = FALSE
  /\ UNCHANGED <<state, retries, carrier, rounds, data, job, netVars, probeVars>>

\* ...then closes the link.
StopCloses ==
  /\ stopping = "revoking" /\ job = "idle"
  /\ stopping' = "stopped" /\ timer' = FALSE
  /\ state' = (IF Probing THEN "FAILED" ELSE state)
  /\ link' = "closed" /\ request' = 0 /\ carrier' = FALSE
  /\ UNCHANGED <<retries, ipv6, rounds, data, job, probeVars>>

LockFree == stopping # "revoking"

-----------------------------------------------------------------------------
(* The job, Dispatch().                                                    *)

Fire ==
  /\ timer /\ job = "idle" /\ stopping # "stopped"
  /\ timer' = FALSE /\ job' = "close"
  /\ UNCHANGED <<state, retries, carrier, rounds, data, netVars, probeVars, stopping>>

\* Mutant: the previous connection is left open.
CloseNothing ==
  /\ job = "close" /\ job' = "decide"
  /\ UNCHANGED <<state, retries, carrier, rounds, data, timer, netVars, probeVars, stopping>>

CloseLink ==
  /\ job = "close" /\ job' = "decide"
  /\ link' = "closed" /\ request' = 0
  /\ UNCHANGED <<state, retries, carrier, rounds, data, timer, ipv6, probeVars, stopping>>

\* It did not close within 100 ms: look again in 500.
CloseTimesOut ==
  /\ job = "close" /\ link # "closed" /\ job' = "reschedule"
  /\ UNCHANGED <<state, retries, carrier, rounds, data, timer, netVars, probeVars, stopping>>

\* _retries-- == 0, on 32 bits; unlimited is not counted down.
Exhausted(n) == n = 0
Decremented(n) == IF n = MaxUint THEN n ELSE (n + MaxUint) % (MaxUint + 1)

\* An IPv4 attempt without an answer ends a round.
TimedOut      == state = "IPV4_INPROGRESS"
RetriesNow    == IF TimedOut THEN Decremented(retries) ELSE retries
StateNow      == IF TimedOut THEN IF Exhausted(retries) THEN "FAILED" ELSE "ACTIVE"
                 ELSE state

Deciding == job = "decide" /\ LockFree

GiveUp ==
  /\ state' = "FAILED" /\ carrier' = FALSE /\ ipv6' = FALSE
  /\ job' = "callback"
  /\ UNCHANGED <<link, request, rounds, data, timer, probeVars, stopping>>

Fail ==
  /\ Deciding /\ StateNow = "FAILED"
  /\ retries' = RetriesNow
  /\ GiveUp

\* The name does not resolve: that uses a retry too.
ResolveFails ==
  /\ Deciding /\ StateNow \in Trying
  /\ retries' = Decremented(RetriesNow)
  /\ \/ Exhausted(RetriesNow) /\ GiveUp
     \/ /\ ~Exhausted(RetriesNow)
        /\ state' = StateNow /\ job' = "reschedule"
        /\ UNCHANGED <<carrier, rounds, data, timer, netVars, probeVars, stopping>>

\* Open(0) succeeds or not: it is rescheduled either way.
Attempt ==
  /\ Deciding /\ StateNow \in Trying
  /\ LET family == IF StateNow = "ACTIVE" /\ ipv6 THEN "IPV6_INPROGRESS"
                                                   ELSE "IPV4_INPROGRESS"
     IN  /\ state' = family
         /\ rounds' = IF family = "IPV4_INPROGRESS" /\ rounds < MaxUint
                        THEN rounds + 1 ELSE rounds
  /\ retries' = RetriesNow
  /\ link' \in {"opening", "closed"}
  /\ job' = "reschedule"
  /\ UNCHANGED <<carrier, data, timer, ipv6, request, probeVars, stopping>>

\* Mutant: the answer is forgotten when the job runs.
LoadForgets ==
  /\ Deciding /\ state = "LOADING"
  /\ state' = "ACTIVE" /\ job' = "reschedule"
  /\ UNCHANGED <<retries, carrier, rounds, data, timer, netVars, probeVars, stopping>>

Load ==
  /\ Deciding /\ state = "LOADING"
  /\ state' = "LOADED" /\ job' = "callback"
  /\ UNCHANGED <<retries, carrier, rounds, data, timer, netVars, probeVars, stopping>>

NothingToDo ==
  /\ Deciding /\ state = "LOADED" /\ job' = "idle"
  /\ UNCHANGED <<state, retries, carrier, rounds, data, timer, netVars, probeVars, stopping>>

\* Mutant: the next attempt is not scheduled.
RescheduleForgotten ==
  /\ job = "reschedule" /\ job' = "idle"
  /\ UNCHANGED <<state, retries, carrier, rounds, data, timer, netVars, probeVars, stopping>>

Reschedule ==
  /\ job = "reschedule" /\ job' = "idle" /\ timer' = TRUE
  /\ UNCHANGED <<state, retries, carrier, rounds, data, netVars, probeVars, stopping>>

\* _callback->Dispatch(): LocationSync's SyncedLocation.
Callback ==
  /\ job = "callback" /\ job' = "idle"
  /\ UNCHANGED <<state, retries, carrier, rounds, data, timer, netVars, probeVars, stopping>>

-----------------------------------------------------------------------------
(* The socket's thread.                                                    *)

\* StateChange: the connection is there, the request goes out...
Opened ==
  /\ link = "opening" /\ link' = "open" /\ request' = probe
  /\ UNCHANGED <<state, retries, carrier, rounds, data, jobVars, ipv6, probeVars, stopping>>

\* ...or it broke, and the job is to run at once...
LinkError ==
  /\ link \in {"opening", "open"} /\ link' = "closed" /\ request' = 0
  /\ timer' = TRUE
  /\ UNCHANGED <<state, retries, carrier, rounds, data, job, ipv6, probeVars, stopping>>

\* ...or the server closed it, which nobody looks at.
PeerCloses ==
  /\ link = "open" /\ link' = "closed" /\ request' = 0
  /\ UNCHANGED <<state, retries, carrier, rounds, data, jobVars, ipv6, probeVars, stopping>>

Answered ==
  /\ link = "open" /\ request # 0 /\ LockFree
  /\ request' = 0 /\ timer' = TRUE
  /\ UNCHANGED <<retries, rounds, link, job, probeVars, stopping>>

\* An error status or an empty body: LinkBody attached none.
ReceivedNothing ==
  /\ Answered
  /\ UNCHANGED <<state, carrier, data, ipv6>>

\* Over IPv6 the address is that of the interface, over IPv4 the one received.
ReceivedLocation ==
  /\ Answered
  /\ state' = "LOADING" /\ data' = request /\ carrier' = FALSE
  /\ ipv6' = (ipv6 /\ state = "IPV6_INPROGRESS")

ReceivedBadAddress ==
  /\ BadAddress /\ Answered /\ state # "IPV6_INPROGRESS"
  /\ state' = "FAILED" /\ data' = request /\ carrier' = FALSE
  /\ UNCHANGED ipv6

-----------------------------------------------------------------------------
Decide == Fail \/ ResolveFails \/ Attempt \/ Load \/ NothingToDo
JobStep == Fire \/ CloseTimesOut \/ CloseLink \/ Decide \/ Reschedule
Socket == \/ Opened \/ LinkError \/ PeerCloses
          \/ ReceivedNothing \/ ReceivedLocation \/ ReceivedBadAddress
Stop == StopRevokes \/ StopCloses

\* Everything but the callback, which belongs to the client.
SvcStep == \/ \E n \in RetryArgs : Probe(n)
           \/ Stop \/ JobStep \/ Socket

SvcNext == SvcStep \/ Callback

(***************************************************************************)
(* The worker pool runs the job, and a link does not resist being closed   *)
(* for ever.  The network and the server owe nothing.                      *)
(***************************************************************************)
SvcFairness == /\ WF_svcVars(JobStep)
               /\ SF_svcVars(CloseLink)
               /\ WF_svcVars(StopCloses)

SvcSpec == SvcInit /\ [][SvcNext]_svcVars /\ SvcFairness /\ WF_svcVars(Callback)

-----------------------------------------------------------------------------
SvcTypeOK ==
  /\ state \in Trying \cup {"IDLE", "LOADING", "LOADED", "FAILED"}
  /\ retries \in 0 .. MaxUint /\ asked \in 1 .. MaxUint
  /\ rounds \in 0 .. MaxUint
  /\ probe \in 0 .. MaxProbes /\ data \in 0 .. MaxProbes /\ request \in 0 .. MaxProbes
  /\ carrier \in BOOLEAN /\ ipv6 \in BOOLEAN /\ timer \in BOOLEAN
  /\ link \in {"closed", "opening", "open"}
  /\ job \in {"idle", "close", "decide", "callback", "reschedule"}
  /\ stopping \in {"no", "revoking", "stopped"}

\* The assertions on _infoCarrier in Probe (none is left over), in LinkBody and
\* in Received (there is one to parse the answer with), although three threads
\* create, use and release it.
CarrierOfTheProbe ==
  stopping # "stopped" =>
    /\ state \in {"IDLE", "FAILED", "LOADED"} => ~carrier
    /\ state \in Trying => carrier
    /\ request # 0 => carrier

\* A probe uses no more rounds than it was asked to.
RoundsWithinRetries == asked # MaxUint => rounds <= asked

\* What is published comes from the current probe, never from the late answer
\* to an earlier one.
FreshLocation == state \in {"LOADING", "LOADED"} => data = probe

\* An answer that was received is published, whatever timer expires meanwhile.
AnswerNotLost ==
  [][state = "LOADING" /\ stopping' # "stopped" => state' \in {"LOADING", "LOADED"}]_svcVars

\* A probe with a limit comes to an end, whatever the network does.
ProbeEnds ==
  Probing /\ asked # MaxUint ~> ~Probing \/ stopping # "no"

\* A probe has its carrier, its rounds and its answer, and no other's.
ProbesInOrder == CarrierOfTheProbe /\ RoundsWithinRetries /\ FreshLocation

-----------------------------------------------------------------------------
(* Known not to hold, and not checked.                                     *)

\* ASSERT(_infoCarrier.IsValid() == true) where the job gives up: it meets
\* none after a bad address, and when the link breaks while it gives up.
FailureHasCarrier == job = "decide" /\ StateNow = "FAILED" /\ LockFree => carrier

\* "If retires is UINT32_MAX it means retry unlimited": but the
\* count is then left as it was by the last probe.
UnlimitedKeepsTrying == asked = MaxUint /\ stopping = "no" => state # "FAILED"

\* Stop() returns: "If the Job is running the revoke will wait till it is
\* completed" (BridgeLink.h), and it does so with the lock that the job needs.
StopReturns == stopping = "revoking" ~> stopping = "stopped"
=============================================================================
