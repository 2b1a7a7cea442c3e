---------------------------- MODULE MCMessenger ----------------------------
(* Instance of Messenger for TLC.  Threads, users and channels are         *)
(* interchangeable, and so are rooms.                                      *)
EXTENDS Messenger, TLC

Symmetry == Permutations(Threads) \cup Permutations(Users)
              \cup Permutations(Channels) \cup Permutations(Rooms)
=============================================================================
