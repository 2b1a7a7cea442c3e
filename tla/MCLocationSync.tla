--------------------------- MODULE MCLocationSync ---------------------------
(* Instance of LocationSync, with LocationService in it, for TLC.          *)
EXTENDS LocationSync
=============================================================================
