---------------------------- MODULE PackagerJobs ----------------------------
(***************************************************************************)
(* What IPackager promises its clients, without threads, locks or opkg:    *)
(* one job at a time; an installation moves through its states and ends    *)
(* installed or in error; it is over only when everyone who registered     *)
(* has heard how it ended.                                                 *)
(***************************************************************************)
CONSTANTS Clients, NoJob, Start, Steps, IsOutcome(_)

VARIABLES job,       \* "none", "sync" or "install"
          progress,  \* NoJob, or what the installation has come to
          audience,  \* the clients that are registered
          heard      \* what each of them heard last

vars == <<job, progress, audience, heard>>

Init == /\ job = "none" /\ progress = NoJob
        /\ audience = {} /\ heard = [c \in Clients |-> NoJob]

Accept(kind) ==
  /\ job = "none" /\ job' = kind
  /\ progress' = IF kind = "install" THEN Start ELSE NoJob
  /\ UNCHANGED <<audience, heard>>

EndSync ==
  /\ job = "sync" /\ job' = "none"
  /\ UNCHANGED <<progress, audience, heard>>

Advance ==
  /\ job = "install" /\ ~IsOutcome(progress)
  /\ <<progress, progress'>> \in Steps
  /\ UNCHANGED <<job, audience, heard>>

Announce ==
  /\ job = "install"
  /\ heard' = [c \in Clients |-> IF c \in audience THEN progress ELSE heard[c]]
  /\ UNCHANGED <<job, progress, audience>>

EndInstall ==
  /\ job = "install" /\ IsOutcome(progress)
  /\ \A c \in audience : heard[c] = progress
  /\ job' = "none" /\ progress' = NoJob
  /\ UNCHANGED <<audience, heard>>

\* Who joins hears of the installation in progress; a client that has joined
\* may do so again.
Join(c) ==
  /\ audience' = audience \cup {c}
  /\ heard' = [heard EXCEPT ![c] = IF progress = NoJob THEN @ ELSE progress]
  /\ UNCHANGED <<job, progress>>

Leave(c) ==
  /\ c \in audience /\ audience' = audience \ {c}
  /\ heard' = [heard EXCEPT ![c] = NoJob]
  /\ UNCHANGED <<job, progress>>

Next == \/ \E kind \in {"sync", "install"} : Accept(kind)
        \/ EndSync \/ Advance \/ Announce \/ EndInstall
        \/ \E c \in Clients : Join(c) \/ Leave(c)

Spec == Init /\ [][Next]_vars
=============================================================================
