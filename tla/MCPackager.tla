----------------------------- MODULE MCPackager -----------------------------
(* Instance of Packager for TLC.  MaxRefs is the only bound; the observers *)
(* are interchangeable, but a symmetry set would be unsound next to a      *)
(* liveness property.                                                      *)
EXTENDS Packager
=============================================================================
