---------------------------- MODULE MCBridgeLink ----------------------------
(***************************************************************************)
(* Two plugins at the other side.  One of them is active at first; which    *)
(* of the two that is makes no difference.  The proxy of a plugin, which    *)
(* its clients use while the link works on it, is a group of its own.       *)
(***************************************************************************)
EXTENDS Naturals, FiniteSets

CONSTANTS Callsigns, MaxRetries, MaxEvents, MaxChanges, Steady, Clients

ASSUME RetryAssumption == MaxRetries \in 0..255
ASSUME CallsignsAssumption == IsFiniteSet(Callsigns)

VARIABLES group,
          remote, channel, connecting, retries, events, late, created, shells, destructed,
          callback, submitted, pc, isEmpty, told, overtaken, strays, known, phase, changes,
          shell, dispatcher, state, report, shellRefs, dispatcherRefs, asks

Link == INSTANCE BridgeLink
ProxyOf == INSTANCE ShellProxy

linkVars == <<remote, channel, connecting, retries, events, late, created, shells, destructed,
              callback, submitted, pc, isEmpty, told, overtaken, strays, known, phase, changes>>
proxyVars == <<shell, dispatcher, state, report, shellRefs, dispatcherRefs, asks>>

MCInit ==
  /\ group \in {"link", "proxy"}
  /\ Link!Init /\ ProxyOf!Init /\ remote[Steady] = "ACTIVATED"
  /\ group = "proxy" => remote = [c \in Callsigns |-> "ACTIVATED"]

MCNext ==
  /\ \/ group = "link" /\ Link!Next /\ UNCHANGED proxyVars
     \/ group = "proxy" /\ ProxyOf!Next /\ UNCHANGED linkVars
  /\ UNCHANGED group

\* The fairness of BridgeLink!Spec, in the group of the link.
InLink(A) == group = "link" /\ A

MCSpec ==
  /\ MCInit /\ [][MCNext]_<<linkVars, proxyVars, group>>
  /\ WF_linkVars(InLink(Link!Connect)) /\ WF_linkVars(InLink(Link!Events))
  /\ WF_linkVars(InLink(Link!Dispatch)) /\ WF_linkVars(InLink(Link!Close \/ Link!FlushAll \/ Link!Down))

InStep == Link!InStep
Drained == Link!Drained
LivesDuringCall == ProxyOf!LivesDuringCall
=============================================================================
