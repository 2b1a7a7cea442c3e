----------------------------- MODULE MCBridges -----------------------------
(***************************************************************************)
(* What must end in the bridges, in two groups of behaviours: the calls    *)
(* that WebBridge and RustBridge forward, and the link between two         *)
(* Thunders (without the clients of its proxies).  A second plugin is at   *)
(* the other side as long as nothing changes there.                        *)
(***************************************************************************)
EXTENDS Bridge, MCBridgeLink

VARIABLE calls   \* whether the behaviour is one of calls

BridgesInit == /\ calls \in BOOLEAN /\ group = "link" /\ Init /\ MCInit
               /\ calls => remote = [c \in Callsigns |-> "ACTIVATED"]

BridgesNext ==
  /\ \/ calls /\ Next /\ UNCHANGED <<linkVars, proxyVars, group>>
     \/ ~calls /\ MCNext /\ UNCHANGED vars
  /\ UNCHANGED calls
  /\ changes' > 0 => \A c \in Callsigns : c = Steady \/ remote'[c] = "absent"

\* The fairness of Bridge and of BridgeLink, each in its group.
InCalls(A)  == calls /\ service # "crashed" /\ A
InALink(A) == ~calls /\ A

BridgesSpec ==
  /\ BridgesInit /\ [][BridgesNext]_<<vars, linkVars, proxyVars, group, calls>>
  /\ \A t \in Threads : WF_vars(InCalls(InvokeEmplaces(t) \/ InvokeForwards(t) \/ InvokeArms(t)))
  /\ WF_vars(InCalls(Job)) /\ WF_vars(InCalls(Tick))
  /\ WF_linkVars(InALink(Link!Connect)) /\ WF_linkVars(InALink(Link!Events))
  /\ WF_linkVars(InALink(Link!Dispatch))
  /\ WF_linkVars(InALink(Link!Close \/ Link!FlushAll \/ Link!Down))
=============================================================================
