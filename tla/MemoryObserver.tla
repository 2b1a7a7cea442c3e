--------------------------- MODULE MemoryObserver ---------------------------
(***************************************************************************)
(* The memory observer of WebKitBrowser: what is told of the processes of  *)
(* a browser, from a list of its children that is made anew only when it   *)
(* is too short.  Several plugins ask at the same time, each works on a    *)
(* copy, and outside the lock looks at one process after the other while   *)
(* they come and go.                                                       *)
(*                                                                         *)
(* Not so, and not claimed: that the mandatory processes of a browser that *)
(* is called operational run at one and the same moment, nor that each     *)
(* still does; that a browser with all its processes is called operational *)
(* (two children of which one has been replaced are enough for the list    *)
(* not to be made anew, so are two web processes); that the sums of memory *)
(* are of one moment, or right beyond 32 bits; that Process finds a child  *)
(* that was started after the list was made.                               *)
(***************************************************************************)
EXTENDS Naturals, FiniteSetsExt

CONSTANTS Askers,     \* who asks
          Children,   \* processes that may be children of the browser
          NameOf      \* child -> its name

VARIABLES
  remote,     \* the browser runs in a process of its own
  starting,   \* its TYPICAL_STARTUP_TIME has not passed
  main,       \* its main process runs
  running,    \* children that run
  list,       \* _children
  copy        \* asker -> its copy [children], or None: whose it has yet to look at (left),
              \* the mandatory processes it has not seen active (missing), whether only the
              \* main process is left to ask (at); history: the names of the children that
              \* ran at some moment since (ran), those of the copy that ran all the time
              \* (stayed), whether the browser still started (young)

memoryVars == <<remote, starting, main, running, list, copy>>

None == [at |-> "none"]

mandatoryProcesses == {"WPENetworkProcess", "WPEWebProcess"}

Names(children) == {NameOf[p] : p \in children}

RequiredChildren == Cardinality(mandatoryProcesses)

-----------------------------------------------------------------------------
(* Processes come and go.                                                  *)

Asking(a) == copy[a].at \in {"copied", "looks", "main"}

ChildStarts ==
  \E p \in Children \ running :
    /\ main
    /\ running' = running \cup {p}
    /\ copy' = [a \in Askers |-> IF Asking(a) THEN [copy[a] EXCEPT !.ran = @ \cup {NameOf[p]}] ELSE copy[a]]
    /\ UNCHANGED <<remote, starting, main, list>>

ChildEnds ==
  \E p \in running :
    /\ running' = running \ {p}
    /\ copy' = [a \in Askers |-> IF Asking(a) THEN [copy[a] EXCEPT !.stayed = @ \ {p}] ELSE copy[a]]
    /\ UNCHANGED <<remote, starting, main, list>>

MainEnds ==
  /\ main /\ remote
  /\ main' = FALSE
  /\ UNCHANGED <<remote, starting, running, list, copy>>

Started ==
  /\ starting
  /\ starting' = FALSE
  /\ UNCHANGED <<remote, main, running, list, copy>>

-----------------------------------------------------------------------------
(* Asking.  Under the lock the list is made anew if need be, and copied.   *)

Refreshed == IF Cardinality(list) < RequiredChildren THEN running ELSE list

\* A list that is too short is not looked at.
Enough(children) == IF Cardinality(children) < RequiredChildren THEN {} ELSE children

Copy(a) ==
  /\ remote /\ copy[a] = None
  /\ list' = Refreshed
  /\ copy' = [copy EXCEPT ![a] = [at |-> "copied", children |-> Refreshed, left |-> Enough(Refreshed),
                                  missing |-> mandatoryProcesses,
                                  ran |-> Names(running),
                                  stayed |-> Refreshed \cap running, young |-> starting]]
  /\ UNCHANGED <<remote, starting, main, running>>

Answers(a, yes) == copy' = [copy EXCEPT ![a] = [at |-> "told", yes |-> yes]]

Done(a) == copy' = [copy EXCEPT ![a] = None]

IsStarting == ~remote \/ starting

\* Mutant: a child that is in the list is taken to be active.
ListedIsActive(p) == TRUE

IsActive(p) == p \in running

Looks(a) == copy[a].at \in {"copied", "looks"}

\* A child that is active resets the bit of its name.
Look(a) ==
  /\ Looks(a) /\ copy[a].missing # {}
  /\ \E p \in copy[a].left :
       copy' = [copy EXCEPT ![a].at = "looks", ![a].left = @ \ {p},
                            ![a].missing = IF IsActive(p) THEN @ \ {NameOf[p]} ELSE @]
  /\ UNCHANGED <<remote, starting, main, running, list>>

\* At the end of the loop.
Looked(a) ==
  /\ Looks(a) /\ (copy[a].missing = {} \/ copy[a].left = {})
  /\ IF copy[a].missing = {} \/ IsStarting
       THEN copy' = [copy EXCEPT ![a].at = "main"]
       ELSE Answers(a, FALSE)
  /\ UNCHANGED <<remote, starting, main, running, list>>

IsOperational(a) ==
  /\ copy[a].at = "main"
  /\ Answers(a, main)
  /\ UNCHANGED <<remote, starting, main, running, list>>

Told(a) ==
  /\ copy[a].at = "told"
  /\ Done(a)
  /\ UNCHANGED <<remote, starting, main, running, list>>

\* Of the memory and of the names nothing is kept: the sum is of what each
\* process has when it is looked at.
Resident(a) ==
  /\ copy[a].at = "copied"
  /\ Done(a)
  /\ UNCHANGED <<remote, starting, main, running, list>>

\* In the process of the framework nothing is listed or summed.
Local(a) ==
  /\ ~remote /\ copy[a] = None
  /\ Answers(a, main)
  /\ UNCHANGED <<remote, starting, main, running, list>>

\* Processes, by whoever calls it, always makes the list anew; Process never
\* does, it only reads it.
Processes ==
  /\ list' = running
  /\ UNCHANGED <<remote, starting, main, running, copy>>

-----------------------------------------------------------------------------
Init ==
  /\ remote \in BOOLEAN
  /\ starting = remote
  /\ main = TRUE
  /\ running \in {{}, Children}
  /\ list = running
  /\ copy = [a \in Askers |-> None]

Ask(a) ==
  \/ Copy(a) \/ Look(a) \/ Looked(a) \/ IsOperational(a) \/ Told(a) \/ Resident(a) \/ Local(a)

Next == ChildStarts \/ ChildEnds \/ MainEnds \/ Started \/ Processes \/ \E a \in Askers : Ask(a)

Spec == Init /\ [][Next]_memoryVars

-----------------------------------------------------------------------------
\* Whoever is told that a browser is operational, however old its list and
\* whoever else has made the list anew meanwhile, is told so while the main
\* process runs, and each mandatory process ran since it asked, unless the
\* browser was still starting then.  Who is told that it is not, is told so
\* because the main process ended, or because its list was too short or not
\* every mandatory process in it ran all the time (IsOperational).
OperationalMeansRunning ==
  [][\A a \in Askers :
       remote /\ copy[a].at # "told" /\ copy'[a].at = "told" =>
         IF copy'[a].yes
         THEN main /\ (copy[a].young \/ mandatoryProcesses \subseteq copy[a].ran)
         ELSE main => /\ ~starting
                      /\ \/ Cardinality(copy[a].children) < RequiredChildren
                         \/ ~(mandatoryProcesses \subseteq Names(copy[a].stayed))]_memoryVars
=============================================================================
