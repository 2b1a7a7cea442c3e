------------------------------ MODULE MCBridge ------------------------------
(* Instance of Bridge for TLC.  Channels, client ids and threads are        *)
(* interchangeable; liveness is checked without the symmetry.               *)
EXTENDS Bridge, TLC

Symmetry == Permutations(Threads) \cup Permutations(Channels) \cup Permutations(Seqs)
=============================================================================
