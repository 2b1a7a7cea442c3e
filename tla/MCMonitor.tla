----------------------------- MODULE MCMonitor -----------------------------
(***************************************************************************)
(* Monitor for TLC, in two groups of behaviours: "probes", two plugins,    *)
(* one with two intervals that is restarted and one with a single interval *)
(* that is not, while nobody changes a limit; and "limits", the first of   *)
(* them alone, while clients do.                                           *)
(***************************************************************************)
EXTENDS Monitor, TLC

CONSTANTS p1, p2

VARIABLE group

MCPlugins     == {p1, p2}
MCPosition    == p1 :> 1 @@ p2 :> 2
MCOperational == p1 :> 1 @@ p2 :> 1
MCMemory      == p1 :> 2 @@ p2 :> 0

PowerTo4 == 0 :> 1 @@ 1 :> 2 @@ 2 :> 4 @@ 3 :> 8 @@ 4 :> 16

MCInit ==
  /\ group \in {"probes", "limits"} /\ Init
  /\ group = "probes" => limit[p1] = 2

MCNext ==
  /\ Next /\ UNCHANGED group
  /\ group = "probes" => UNCHANGED limitVars
  /\ group = "limits" => plugin'[p2] = "off"

MCSpec == MCInit /\ [][MCNext]_<<vars, group>> /\ Fairness
=============================================================================
