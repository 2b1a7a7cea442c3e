--------------------------- MODULE Plugins_proofs ---------------------------
(***************************************************************************)
(* The machines of MCPlugins: what the memory observer of WebKitBrowser    *)
(* answers, what Monitor measures and tells, what is known of display and  *)
(* sound, what a library and a plugin give back whichever step fails, and  *)
(* how the access control lists of SecurityAgent decide.                   *)
(* They share no state: each has an invariant of its own, and the last     *)
(* step of its theorem is that a step of the whole is one of the machine   *)
(* or leaves its variables alone.                                          *)
(***************************************************************************)
EXTENDS MCPlugins, SequenceTheorems, WellFoundedInduction, FiniteSetTheorems, TLAPS

-----------------------------------------------------------------------------
(* The memory observer.  Who asks looks at one process after the other.    *)

Copies == [at : {"copied", "looks", "main"}, children : SUBSET Children, left : SUBSET Children,
           missing : SUBSET Observer!mandatoryProcesses, ran : SUBSET Observer!Names(Children),
           stayed : SUBSET Children, young : BOOLEAN]

NoCopy(c) == c.at \notin {"copied", "looks", "main"}

ObserverTypes ==
  /\ running \subseteq Children /\ list \subseteq Children
  /\ remote \in BOOLEAN /\ starting \in BOOLEAN /\ main \in BOOLEAN
  /\ DOMAIN copy = Askers

\* What has its bit reset ran; of what ran all the time, and was looked at, the
\* bit is reset.
LooksInOrder(c, now, starts) ==
  /\ c \in Copies
  /\ Observer!Names(now) \subseteq c.ran /\ c.stayed \subseteq now
  /\ Observer!mandatoryProcesses \ c.missing \subseteq c.ran
  /\ starts => c.young
  /\ c.at = "main" => c.missing = {} \/ c.young
  /\ \/ Observer!Cardinality(c.children) < Observer!RequiredChildren
     \/ \A p \in c.stayed \ c.left : NameOf[p] \notin c.missing

CopyKept(c, now, starts, apart) == NoCopy(c) \/ (apart /\ LooksInOrder(c, now, starts))

ObserverInv == ObserverTypes /\ \A a \in Askers : CopyKept(copy[a], running, starting, remote)

\* What OperationalMeansRunning says of an answer.
TellsTheTruth(a) ==
  remote /\ copy[a].at # "told" /\ copy'[a].at = "told" =>
    IF copy'[a].yes
    THEN main /\ (copy[a].young \/ Observer!mandatoryProcesses \subseteq copy[a].ran)
    ELSE main => /\ ~starting
                 /\ \/ Observer!Cardinality(copy[a].children) < Observer!RequiredChildren
                    \/ ~(Observer!mandatoryProcesses \subseteq Observer!Names(copy[a].stayed))

\* Who does not look has nothing to keep.
LEMMA NothingToKeep ==
  ASSUME NEW c, NoCopy(c)
  PROVE  CopyKept(c, running, starting, remote)
BY DEF CopyKept

\* A step that changes one copy, or none, and no process.
LEMMA OneCopy ==
  ASSUME ObserverInv, NEW a \in Askers, NEW c, copy' = [copy EXCEPT ![a] = c],
         list' \subseteq Children, UNCHANGED <<remote, starting, main, running>>,
         CopyKept(c, running, starting, remote)
  PROVE  /\ ObserverInv' /\ copy'[a] = c
         /\ c.at # "told" => \A b \in Askers : TellsTheTruth(b)
         /\ TellsTheTruth(a) => \A b \in Askers : TellsTheTruth(b)
<1>1. /\ ObserverTypes' /\ copy'[a] = c
      /\ \A b \in Askers \ {a} : copy'[b] = copy[b]
  BY DEF ObserverInv, ObserverTypes
<1>2. \A b \in Askers : CopyKept(copy'[b], running', starting', remote')
  BY <1>1 DEF ObserverInv
<1>3. ObserverInv'
  BY <1>1, <1>2 DEF ObserverInv, CopyKept, NoCopy, LooksInOrder, Copies, Observer!Names,
                    Observer!mandatoryProcesses, Observer!RequiredChildren
<1>4. \A b \in Askers \ {a} : TellsTheTruth(b)
  BY <1>1 DEF TellsTheTruth
<1>5. c.at # "told" => TellsTheTruth(a)
  BY <1>1 DEF TellsTheTruth
<1>6. QED BY <1>1, <1>3, <1>4, <1>5

\* A copy is in order when it is made.
LEMMA CopyStep ==
  ASSUME ObserverInv, NEW a \in Askers, Observer!Copy(a)
  PROVE  ObserverInv' /\ \A b \in Askers : TellsTheTruth(b)
<1>1. PICK r : /\ r = Observer!Refreshed /\ list' = r
               /\ copy' = [copy EXCEPT ![a] =
                             [at |-> "copied", children |-> r, left |-> Observer!Enough(r),
                              missing |-> Observer!mandatoryProcesses, ran |-> Observer!Names(running),
                              stayed |-> r \cap running, young |-> starting]]
               /\ remote /\ UNCHANGED <<remote, starting, main, running>>
  BY DEF Observer!Copy
<1>2. PICK c : c = [at |-> "copied", children |-> r, left |-> Observer!Enough(r),
                    missing |-> Observer!mandatoryProcesses, ran |-> Observer!Names(running),
                    stayed |-> r \cap running, young |-> starting]
  OBVIOUS
<1>3. r \subseteq Children /\ Observer!Enough(r) \subseteq Children
  BY <1>1 DEF Observer!Refreshed, Observer!Enough, ObserverInv, ObserverTypes
<1>4. Observer!Cardinality(r) < Observer!RequiredChildren \/ Observer!Enough(r) = r
  BY DEF Observer!Enough
<1>5. c \in Copies
  <2>1. Observer!Names(running) \subseteq Observer!Names(Children)
    BY DEF ObserverInv, ObserverTypes, Observer!Names
  <2>2. QED BY <1>2, <1>3, <2>1 DEF Copies, ObserverInv, ObserverTypes
<1>6. LooksInOrder(c, running, starting)
  BY <1>2, <1>4, <1>5 DEF LooksInOrder
<1>7. copy' = [copy EXCEPT ![a] = c] /\ list' \subseteq Children
  BY <1>1, <1>2, <1>3
<1>8. CopyKept(c, running, starting, remote) /\ c.at # "told"
  BY <1>1, <1>2, <1>6 DEF CopyKept
<1>9. QED BY <1>1, <1>7, <1>8, OneCopy

\* Looking at a process, and what follows from all that was seen.
LEMMA LookStep ==
  ASSUME ObserverInv, NEW a \in Askers,
         Observer!Look(a) \/ Observer!Looked(a) \/ Observer!IsOperational(a)
  PROVE  ObserverInv' /\ \A b \in Askers : TellsTheTruth(b)
<1> DEFINE c == copy[a]
<1>1. /\ UNCHANGED <<remote, starting, main, running, list>> /\ list' \subseteq Children
      /\ c.at \in {"copied", "looks", "main"}
  BY DEF Observer!Look, Observer!Looked, Observer!IsOperational, Observer!Looks, ObserverInv, ObserverTypes
<1>2. remote /\ c \in Copies /\ LooksInOrder(c, running, starting)
  BY <1>1 DEF ObserverInv, CopyKept, NoCopy, LooksInOrder
<1>3. CASE Observer!Look(a)
  <2>1. PICK p \in c.left :
          copy' = [copy EXCEPT ![a] = [c EXCEPT !.at = "looks", !.left = c.left \ {p},
                     !.missing = IF p \in running THEN c.missing \ {NameOf[p]} ELSE c.missing]]
    BY <1>3 DEF Observer!Look, Observer!IsActive, ObserverInv, ObserverTypes
  <2>2. PICK d : d = [c EXCEPT !.at = "looks", !.left = c.left \ {p},
                     !.missing = IF p \in running THEN c.missing \ {NameOf[p]} ELSE c.missing]
    OBVIOUS
  <2>3. /\ d \in Copies /\ d.at = "looks" /\ d.left = c.left \ {p}
        /\ d.missing = IF p \in running THEN c.missing \ {NameOf[p]} ELSE c.missing
        /\ d.children = c.children /\ d.ran = c.ran /\ d.stayed = c.stayed /\ d.young = c.young
    BY <1>2, <2>2 DEF Copies
  <2>4. Observer!mandatoryProcesses \ d.missing \subseteq d.ran
    BY <1>2, <2>3 DEF LooksInOrder, Observer!Names
  <2>5. \/ Observer!Cardinality(d.children) < Observer!RequiredChildren
        \/ \A q \in d.stayed \ d.left : NameOf[q] \notin d.missing
    BY <1>2, <2>3 DEF LooksInOrder
  <2>6. LooksInOrder(d, running, starting)
    BY <1>2, <2>3, <2>4, <2>5 DEF LooksInOrder
  <2>7. QED BY <1>1, <1>2, <2>1, <2>2, <2>3, <2>6, OneCopy DEF CopyKept
<1>4. CASE Observer!Looked(a) /\ (c.missing = {} \/ Observer!IsStarting)
  <2>1. copy' = [copy EXCEPT ![a] = [c EXCEPT !.at = "main"]]
    BY <1>4 DEF Observer!Looked, ObserverInv, ObserverTypes
  <2>2. PICK d : d = [c EXCEPT !.at = "main"]
    OBVIOUS
  <2>3. /\ d \in Copies /\ d.at = "main" /\ d.left = c.left /\ d.missing = c.missing
        /\ d.children = c.children /\ d.ran = c.ran /\ d.stayed = c.stayed /\ d.young = c.young
    BY <1>2, <2>2 DEF Copies
  <2>4. d.missing = {} \/ d.young
    BY <1>2, <1>4, <2>3 DEF LooksInOrder, Observer!IsStarting
  <2>5. LooksInOrder(d, running, starting)
    BY <1>2, <2>3, <2>4 DEF LooksInOrder
  <2>6. QED BY <1>1, <1>2, <2>1, <2>2, <2>3, <2>5, OneCopy DEF CopyKept
<1>5. CASE Observer!Looked(a) /\ ~(c.missing = {} \/ Observer!IsStarting)
  <2>1. /\ copy' = [copy EXCEPT ![a] = [at |-> "told", yes |-> FALSE]]
        /\ c.left = {} /\ ~starting
    BY <1>5 DEF Observer!Looked, Observer!Answers, Observer!IsStarting
  <2>2. PICK n : n \in c.missing
    BY <1>5
  <2>3. n \in Observer!mandatoryProcesses
    BY <1>2, <2>2 DEF Copies
  <2>4. \/ Observer!Cardinality(c.children) < Observer!RequiredChildren
        \/ n \notin Observer!Names(c.stayed)
    BY <1>2, <2>1, <2>2 DEF LooksInOrder, Observer!Names
  <2>5. CopyKept([at |-> "told", yes |-> FALSE], running, starting, remote)
    <3>1. NoCopy([at |-> "told", yes |-> FALSE])
      BY DEF NoCopy
    <3>2. QED BY <3>1, NothingToKeep
  <2>6. copy'[a] = [at |-> "told", yes |-> FALSE]
    BY <2>1 DEF ObserverInv, ObserverTypes
  <2>7. TellsTheTruth(a)
    BY <2>1, <2>3, <2>4, <2>6 DEF TellsTheTruth
  <2>8. QED BY <1>1, <2>1, <2>5, <2>7, OneCopy
<1>6. CASE Observer!IsOperational(a)
  <2>1. copy' = [copy EXCEPT ![a] = [at |-> "told", yes |-> main]] /\ c.at = "main"
    BY <1>6 DEF Observer!IsOperational, Observer!Answers
  <2>2. CopyKept([at |-> "told", yes |-> main], running, starting, remote)
    <3>1. NoCopy([at |-> "told", yes |-> main])
      BY DEF NoCopy
    <3>2. QED BY <3>1, NothingToKeep
  <2>3. copy'[a].yes = main
    BY <2>1 DEF ObserverInv, ObserverTypes
  <2>4. c.young \/ Observer!mandatoryProcesses \subseteq c.ran
    BY <1>2, <2>1 DEF LooksInOrder
  <2>5. TellsTheTruth(a)
    BY <2>3, <2>4 DEF TellsTheTruth
  <2>6. QED BY <1>1, <2>1, <2>2, <2>5, OneCopy
<1>7. QED BY <1>3, <1>4, <1>5, <1>6

\* Children come and go under those who look at them.
LEMMA ChildStep ==
  ASSUME ObserverInv, Observer!ChildStarts \/ Observer!ChildEnds
  PROVE  ObserverInv' /\ \A b \in Askers : TellsTheTruth(b)
<1>1. /\ running' \subseteq Children /\ UNCHANGED <<remote, starting, main, list>>
      /\ DOMAIN copy' = Askers
      /\ \A b \in Askers :
           \/ NoCopy(copy[b]) /\ copy'[b] = copy[b]
           \/ ~NoCopy(copy[b]) /\ \E p \in Children :
                \/ running' = running \cup {p} /\ copy'[b] = [copy[b] EXCEPT !.ran = copy[b].ran \cup {NameOf[p]}]
                \/ running' = running \ {p} /\ copy'[b] = [copy[b] EXCEPT !.stayed = copy[b].stayed \ {p}]
  BY DEF Observer!ChildStarts, Observer!ChildEnds, Observer!Asking, NoCopy, ObserverInv, ObserverTypes
<1>2. ASSUME NEW b \in Askers
      PROVE  CopyKept(copy'[b], running', starting', remote') /\ TellsTheTruth(b)
  <2>1. CASE NoCopy(copy[b]) /\ copy'[b] = copy[b]
    <3>1. NoCopy(copy'[b])
      BY <2>1
    <3>2. CopyKept(copy'[b], running', starting', remote')
      BY <3>1 DEF CopyKept
    <3>3. QED BY <2>1, <3>2 DEF TellsTheTruth
  <2>2. CASE ~NoCopy(copy[b])
    <3> DEFINE c == copy[b]
    <3>1. c \in Copies /\ LooksInOrder(c, running, starting) /\ remote
      BY <2>2 DEF ObserverInv, CopyKept, LooksInOrder
    <3>2. PICK p \in Children :
            \/ running' = running \cup {p} /\ copy'[b] = [c EXCEPT !.ran = c.ran \cup {NameOf[p]}]
            \/ running' = running \ {p} /\ copy'[b] = [c EXCEPT !.stayed = c.stayed \ {p}]
      BY <1>1, <2>2
    <3>3. CASE running' = running \cup {p} /\ copy'[b] = [c EXCEPT !.ran = c.ran \cup {NameOf[p]}]
      <4>1. NameOf[p] \in Observer!Names(Children)
        BY DEF Observer!Names
      <4>2. /\ copy'[b] \in Copies /\ copy'[b].at = c.at /\ copy'[b].left = c.left
            /\ copy'[b].missing = c.missing /\ copy'[b].children = c.children
            /\ copy'[b].ran = c.ran \cup {NameOf[p]} /\ copy'[b].stayed = c.stayed
            /\ copy'[b].young = c.young
        BY <3>1, <3>3, <4>1 DEF Copies
      <4>3. Observer!Names(running') \subseteq c.ran \cup {NameOf[p]}
        BY <3>1, <3>3 DEF LooksInOrder, Observer!Names
      <4>4. LooksInOrder(copy'[b], running', starting')
        BY <1>1, <3>1, <3>3, <4>2, <4>3 DEF LooksInOrder
      <4>5. copy'[b].at # "told"
        BY <2>2, <4>2 DEF NoCopy
      <4>6. QED BY <1>1, <3>1, <4>4, <4>5 DEF CopyKept, TellsTheTruth
    <3>4. CASE running' = running \ {p} /\ copy'[b] = [c EXCEPT !.stayed = c.stayed \ {p}]
      <4>2. /\ copy'[b] \in Copies /\ copy'[b].at = c.at /\ copy'[b].left = c.left
            /\ copy'[b].missing = c.missing /\ copy'[b].children = c.children
            /\ copy'[b].ran = c.ran /\ copy'[b].stayed = c.stayed \ {p}
            /\ copy'[b].young = c.young
        BY <3>1, <3>4 DEF Copies
      <4>3. Observer!Names(running') \subseteq c.ran
        BY <3>1, <3>4 DEF LooksInOrder, Observer!Names
      <4>4. LooksInOrder(copy'[b], running', starting')
        BY <1>1, <3>1, <3>4, <4>2, <4>3 DEF LooksInOrder
      <4>5. copy'[b].at # "told"
        BY <2>2, <4>2 DEF NoCopy
      <4>6. QED BY <1>1, <3>1, <4>4, <4>5 DEF CopyKept, TellsTheTruth
    <3>5. QED BY <3>2, <3>3, <3>4
  <2>3. QED BY <1>1, <2>1, <2>2
<1>3. ObserverTypes'
  BY <1>1 DEF ObserverInv, ObserverTypes
<1>4. ObserverInv'
  BY <1>2, <1>3 DEF ObserverInv, CopyKept, NoCopy, LooksInOrder, Copies, Observer!Names,
                    Observer!mandatoryProcesses, Observer!RequiredChildren
<1>5. QED BY <1>2, <1>4

\* A step that changes no copy and no child.
LEMMA CopiesStay ==
  ASSUME ObserverInv, UNCHANGED <<remote, running, copy>>, starting' \in BOOLEAN, main' \in BOOLEAN,
         starting' \in {starting, FALSE}, list' \subseteq Children
  PROVE  ObserverInv' /\ \A b \in Askers : TellsTheTruth(b)
<1>1. ObserverTypes'
  BY DEF ObserverInv, ObserverTypes
<1>2. \A b \in Askers : CopyKept(copy'[b], running', starting', remote')
  BY DEF ObserverInv, CopyKept, LooksInOrder
<1>3. ObserverInv'
  BY <1>1, <1>2 DEF ObserverInv, CopyKept, NoCopy, LooksInOrder, Copies, Observer!Names,
                    Observer!mandatoryProcesses, Observer!RequiredChildren
<1>4. QED BY <1>3 DEF TellsTheTruth

\* Every step of the observer answers what it saw.
LEMMA ObserverStep ==
  ASSUME ObserverInv, [Observer!Next]_observerVars
  PROVE  ObserverInv' /\ \A b \in Askers : TellsTheTruth(b)
<1> DEFINE Goal == ObserverInv' /\ \A b \in Askers : TellsTheTruth(b)
<1>1. ASSUME NEW a \in Askers, Observer!Told(a) \/ Observer!Resident(a) PROVE Goal
  <2>1. /\ copy' = [copy EXCEPT ![a] = [at |-> "none"]]
        /\ UNCHANGED <<remote, starting, main, running, list>>
    BY <1>1 DEF Observer!Told, Observer!Resident, Observer!Done, Observer!None
  <2>2. NoCopy([at |-> "none"]) /\ [at |-> "none"].at # "told" /\ list' \subseteq Children
    BY <2>1 DEF NoCopy, ObserverInv, ObserverTypes
  <2>3. CopyKept([at |-> "none"], running, starting, remote)
    BY <2>2, NothingToKeep
  <2>4. QED BY <2>1, <2>2, <2>3, OneCopy
<1>2. ASSUME NEW a \in Askers, Observer!Local(a) PROVE Goal
  <2>1. /\ ~remote /\ copy' = [copy EXCEPT ![a] = [at |-> "told", yes |-> main]]
        /\ UNCHANGED <<remote, starting, main, running, list>>
    BY <1>2 DEF Observer!Local, Observer!Answers
  <2>2. NoCopy([at |-> "told", yes |-> main]) /\ list' \subseteq Children
    BY <2>1 DEF NoCopy, ObserverInv, ObserverTypes
  <2>5. CopyKept([at |-> "told", yes |-> main], running, starting, remote)
    BY <2>2, NothingToKeep
  <2>3. TellsTheTruth(a)
    BY <2>1 DEF TellsTheTruth
  <2>4. QED BY <2>1, <2>2, <2>3, <2>5, OneCopy
<1>3. ASSUME Observer!MainEnds \/ Observer!Started \/ Observer!Processes \/ UNCHANGED observerVars
      PROVE  Goal
  <2>1. /\ UNCHANGED <<remote, running, copy>> /\ starting' \in BOOLEAN /\ main' \in BOOLEAN
        /\ starting' \in {starting, FALSE} /\ list' \subseteq Children
    <3>1. CASE Observer!MainEnds
      BY <3>1 DEF Observer!MainEnds, ObserverInv, ObserverTypes
    <3>2. CASE Observer!Started
      BY <3>2 DEF Observer!Started, ObserverInv, ObserverTypes
    <3>3. CASE Observer!Processes
      BY <3>3 DEF Observer!Processes, ObserverInv, ObserverTypes
    <3>4. CASE UNCHANGED observerVars
      BY <3>4 DEF observerVars, ObserverInv, ObserverTypes
    <3>5. QED BY <1>3, <3>1, <3>2, <3>3, <3>4
  <2>2. QED BY <2>1, CopiesStay
<1>4. QED
  BY <1>1, <1>2, <1>3, CopyStep, LookStep, ChildStep DEF Observer!Next, Observer!Ask

\* Whoever is told that a browser is operational, or that it is not, is told
\* so of processes that ran, or did not, while it looked.
THEOREM OperationalIsTrue == MCSpec => OperationalMeansRunning
<1>1. MCInit => ObserverInv
  <2>1. SUFFICES ASSUME MCInit PROVE ObserverInv
    OBVIOUS
  <2>2. /\ remote \in BOOLEAN /\ starting = remote /\ main = TRUE /\ running \in {{}, Children}
        /\ list = running /\ copy = [a \in Askers |-> [at |-> "none"]]
    BY <2>1 DEF MCInit, Observer!Init, Observer!None
  <2>3. ObserverTypes
    BY <2>2 DEF ObserverTypes
  <2>4. ASSUME NEW a \in Askers PROVE CopyKept(copy[a], running, starting, remote)
    <3>1. copy[a] = [at |-> "none"]
      BY <2>2
    <3>2. copy[a].at = "none"
      BY <3>1
    <3>3. QED BY <3>2, NothingToKeep DEF NoCopy
  <2>5. QED BY <2>3, <2>4 DEF ObserverInv
<1>2. ASSUME ObserverInv, [MCNext]_<<group, agentVars, pluginVars, otherVars, mediaVars>>
      PROVE  /\ ObserverInv'
             /\ [\A a \in Askers :
                   remote /\ copy[a].at # "told" /\ copy'[a].at = "told" =>
                     IF copy'[a].yes
                     THEN main /\ (copy[a].young \/ Observer!mandatoryProcesses \subseteq copy[a].ran)
                     ELSE main =>
                            /\ ~starting
                            /\ \/ Observer!Cardinality(copy[a].children) < Observer!RequiredChildren
                               \/ ~(Observer!mandatoryProcesses \subseteq
                                      Observer!Names(copy[a].stayed))]_observerVars
  <2>1. [Observer!Next]_observerVars
    BY <1>2 DEF MCNext, otherVars
  <2>2. QED BY <1>2, <2>1, ObserverStep DEF TellsTheTruth
<1>3. QED
  BY <1>1, <1>2, PTL DEF MCSpec, OperationalMeansRunning, Observer!OperationalMeansRunning,
                         Observer!memoryVars, observerVars

-----------------------------------------------------------------------------
(* The statistics of Monitor.                                              *)

Records == [count : Nat, min : Nat, max : Nat, last : Nat]

\* What is measured is between its extremes.
MeasuresInOrder ==
  /\ measurement \in [Statistics!Observables -> Records]
  /\ \A p \in Statistics!Observables :
       measurement[p].count # 0 => measurement[p].last \in measurement[p].min .. measurement[p].max

\* A watcher is owed a word only between the measurement and the end of the
\* run, and only while it is registered.
OwedInOrder ==
  /\ \/ probe = Statistics!None
     \/ probe \in [at : {"asks", "measures", "acts"}, plugin : Statistics!Observables,
                   why : SUBSET {"NOT_OPERATIONAL", "EXCEEDED_MEMORY"}]
  /\ \A o \in owed : /\ probe.at = "acts" /\ "EXCEEDED_MEMORY" \in probe.why
                     /\ o \in observers \X {probe.plugin}

StatisticsInv == MeasuresInOrder /\ OwedInOrder

\* A measurement keeps the last value between the extremes, a reset forgets it.
LEMMA MeasuresStep ==
  ASSUME StatisticsInv, [Statistics!Next]_statisticsVars
  PROVE  MeasuresInOrder'
<1>1. ASSUME UNCHANGED measurement PROVE MeasuresInOrder'
  BY <1>1 DEF StatisticsInv, MeasuresInOrder
<1>2. ASSUME NEW p \in Statistics!Observables,
             measurement' = [measurement EXCEPT ![p] = Statistics!Unmeasured]
      PROVE  MeasuresInOrder'
  BY <1>2 DEF StatisticsInv, MeasuresInOrder, Statistics!Unmeasured, Records
<1>3. ASSUME Statistics!AddMeasurements PROVE MeasuresInOrder'
  <2>1. probe.plugin \in Statistics!Observables
    BY <1>3 DEF StatisticsInv, OwedInOrder, Statistics!AddMeasurements, Statistics!None
  <2>2. PICK resident \in Residents :
          measurement' = [measurement EXCEPT
                            ![probe.plugin] = Statistics!Measured(measurement[probe.plugin], resident)]
    BY <1>3 DEF Statistics!AddMeasurements
  <2> DEFINE m == measurement[probe.plugin]
             n == Statistics!Measured(m, resident)
  <2>3. m \in Records
    BY <2>1 DEF StatisticsInv, MeasuresInOrder
  <2>4. n \in Records /\ n.last \in n.min .. n.max
    BY <2>3, MeasureAssumption
       DEF Records, Statistics!Measured, Statistics!Low, Statistics!High
  <2> HIDE DEF n
  <2>5. QED BY <2>1, <2>2, <2>4 DEF StatisticsInv, MeasuresInOrder, n
<1>4. QED
  <2>1. CASE UNCHANGED statisticsVars
    BY <2>1, <1>1 DEF statisticsVars
  <2>2. CASE Statistics!IsOperational \/ Statistics!NoOperationalSlot
             \/ Statistics!NoMemorySlot \/ Statistics!Acts
    BY <2>2, <1>1 DEF Statistics!IsOperational, Statistics!NoOperationalSlot,
                      Statistics!NoMemorySlot, Statistics!Acts
  <2>3. ASSUME NEW p \in Statistics!Observables,
               Statistics!Activated(p) \/ Statistics!Deactivated(p) \/ Statistics!Source(p)
               \/ Statistics!ResetReads(p)
        PROVE  MeasuresInOrder'
    BY <2>3, <1>1 DEF Statistics!Activated, Statistics!Deactivated, Statistics!Source,
                      Statistics!ResetReads
  <2>4. ASSUME NEW p \in Statistics!Observables, Statistics!Reset(p) \/ Statistics!ResetStatistics(p)
        PROVE  MeasuresInOrder'
    BY <2>4, <1>2 DEF Statistics!Reset, Statistics!ResetStatistics
  <2>5. ASSUME NEW c \in Watchers, Statistics!Register(c) \/ Statistics!Unregister(c)
        PROVE  MeasuresInOrder'
    BY <2>5, <1>1 DEF Statistics!Register, Statistics!Unregister
  <2>6. ASSUME NEW p, NEW new, Statistics!Update(p, new) PROVE MeasuresInOrder'
    BY <2>6, <1>1 DEF Statistics!Update
  <2>7. QED
    BY <1>3, <2>1, <2>2, <2>3, <2>4, <2>5, <2>6 DEF Statistics!Next

\* Only a measurement above the threshold owes a word; the end of the run pays it.
LEMMA OwedStep ==
  ASSUME StatisticsInv, [Statistics!Next]_statisticsVars
  PROVE  OwedInOrder'
<1> USE DEF StatisticsInv
<1>1. ASSUME UNCHANGED <<probe, owed, observers>> PROVE OwedInOrder'
  BY <1>1 DEF OwedInOrder
<1>2. ASSUME probe.at \in {"asks", "measures"},
             probe' \in [at : {"measures", "acts"}, plugin : Statistics!Observables,
                         why : SUBSET {"NOT_OPERATIONAL", "EXCEEDED_MEMORY"}],
             UNCHANGED owed
      PROVE  OwedInOrder'
  BY <1>2 DEF OwedInOrder
<1>3. ASSUME NEW p \in Statistics!Observables, Statistics!Source(p) PROVE OwedInOrder'
  BY <1>3 DEF OwedInOrder, Statistics!Source, Statistics!None
<1>4. ASSUME Statistics!IsOperational \/ Statistics!NoOperationalSlot \/ Statistics!NoMemorySlot
      PROVE  OwedInOrder'
  <2>1. probe.at \in {"asks", "measures"} /\ UNCHANGED owed
    BY <1>4 DEF Statistics!IsOperational, Statistics!NoOperationalSlot, Statistics!NoMemorySlot
  <2>2. probe \in [at : {"asks", "measures", "acts"}, plugin : Statistics!Observables,
                   why : SUBSET {"NOT_OPERATIONAL", "EXCEEDED_MEMORY"}]
    BY <2>1 DEF OwedInOrder, Statistics!None
  <2>3. \E to \in {"measures", "acts"} :
             \/ probe' = [probe EXCEPT !.at = to]
             \/ \E why \in SUBSET {"NOT_OPERATIONAL", "EXCEEDED_MEMORY"} :
                  probe' = [probe EXCEPT !.at = to, !.why = why]
    <3>1. CASE Statistics!IsOperational
      <4>1. PICK why \in SUBSET {"NOT_OPERATIONAL"} :
              probe' = [probe EXCEPT !.at = "measures", !.why = why]
        BY <3>1 DEF Statistics!IsOperational
      <4>2. QED BY <3>1, <4>1 DEF Statistics!IsOperational
    <3>2. CASE Statistics!NoOperationalSlot
      BY <3>2 DEF Statistics!NoOperationalSlot
    <3>3. CASE Statistics!NoMemorySlot
      BY <3>3 DEF Statistics!NoMemorySlot
    <3>4. QED BY <1>4, <3>1, <3>2, <3>3
  <2>4. QED BY <1>2, <2>1, <2>2, <2>3
<1>5. ASSUME Statistics!AddMeasurements PROVE OwedInOrder'
  <2> DEFINE p == probe.plugin
  <2>1. probe.at = "measures" /\ UNCHANGED observers
    BY <1>5 DEF Statistics!AddMeasurements
  <2>2. /\ probe \in [at : {"asks", "measures", "acts"}, plugin : Statistics!Observables,
                      why : SUBSET {"NOT_OPERATIONAL", "EXCEEDED_MEMORY"}]
        /\ owed = {}
    BY <2>1 DEF OwedInOrder, Statistics!None
  <2>3. PICK resident \in Residents :
          /\ probe' = [probe EXCEPT !.at = "acts",
                         !.why = @ \cup (IF Statistics!Exceeds(p, resident)
                                         THEN {"EXCEEDED_MEMORY"} ELSE {})]
          /\ owed' = IF Statistics!Threshold(p) # 0 /\ resident > Statistics!Threshold(p)
                       THEN owed \cup (observers \X {p}) ELSE owed
    BY <1>5 DEF Statistics!AddMeasurements
  <2>4. CASE Statistics!Exceeds(p, resident)
    <3>1. probe' = [probe EXCEPT !.at = "acts", !.why = @ \cup {"EXCEEDED_MEMORY"}]
          /\ owed' = observers \X {p}
      BY <2>2, <2>3, <2>4 DEF Statistics!Exceeds
    <3>2. QED BY <2>1, <2>2, <3>1 DEF OwedInOrder
  <2>5. CASE ~Statistics!Exceeds(p, resident)
    <3>1. probe' = [probe EXCEPT !.at = "acts"] /\ owed' = {}
      BY <2>2, <2>3, <2>5 DEF Statistics!Exceeds
    <3>2. QED BY <2>1, <2>2, <3>1 DEF OwedInOrder
  <2>6. QED BY <2>4, <2>5
<1>6. ASSUME Statistics!Acts PROVE OwedInOrder'
  BY <1>6 DEF OwedInOrder, Statistics!Acts, Statistics!Reason, Statistics!NotifyStatusChanged
<1>7. ASSUME NEW c \in Watchers, Statistics!Register(c) \/ Statistics!Unregister(c)
      PROVE  OwedInOrder'
  BY <1>7 DEF OwedInOrder, Statistics!Register, Statistics!Unregister
<1>8. QED
  <2>1. CASE UNCHANGED statisticsVars
    BY <2>1, <1>1 DEF statisticsVars
  <2>2. ASSUME NEW p \in Statistics!Observables,
               Statistics!Activated(p) \/ Statistics!Deactivated(p) \/ Statistics!ResetReads(p)
               \/ Statistics!Reset(p) \/ Statistics!ResetStatistics(p)
        PROVE  OwedInOrder'
    BY <2>2, <1>1 DEF Statistics!Activated, Statistics!Deactivated, Statistics!ResetReads,
                      Statistics!Reset, Statistics!ResetStatistics
  <2>3. ASSUME NEW p, NEW new, Statistics!Update(p, new) PROVE OwedInOrder'
    BY <2>3, <1>1 DEF Statistics!Update
  <2>4. QED
    BY <1>3, <1>4, <1>5, <1>6, <1>7, <2>1, <2>2, <2>3 DEF Statistics!Next

\* The four ways to ask agree, for every name.
LEMMA AnswersAreTheSame ==
  ASSUME MeasuresInOrder, NEW p, p # ""
  PROVE  LET told == {s.data : s \in Statistics!Status(p)}
         IN  /\ Statistics!GetOne(p) = Statistics!MeasurementData(p)
             /\ Statistics!GetOne(p) = {d \in Statistics!GetAll : d.name = p}
             /\ Statistics!GetOne(p) = {d \in told : d.measurement.count # 0}
             /\ told # {} <=> p \in Statistics!Observables
             /\ \A d \in Statistics!GetOne(p) :
                  d.measurement.last \in d.measurement.min .. d.measurement.max
             /\ \A s \in Statistics!Status(p) : s.restart = Statistics!RestartingLimits(p)
<1> USE DEF Statistics!HasMeasurements
<1> DEFINE told == {s.data : s \in Statistics!Status(p)}
           here == Statistics!Observables \cap {p}
           Limits(q) == IF Statistics!HasRestartAllowed(q) THEN {limits[q]} ELSE {}
           Of(q) == [data |-> Statistics!Data(q), restart |-> Limits(q)]
<1>1. Statistics!Status(p) = {Of(q) : q \in here}
  BY DEF Statistics!Status
<1>2. \A q : Of(q).data = Statistics!Data(q) /\ Of(q).restart = Limits(q)
  OBVIOUS
<1>3. told = {Statistics!Data(q) : q \in here}
  <2> HIDE DEF Of
  <2>1. QED BY <1>1, <1>2
<1>4. \A q : Statistics!Data(q).name = q /\ Statistics!Data(q).measurement = measurement[q]
  BY DEF Statistics!Data
<1>5. Statistics!GetOne(p) = Statistics!MeasurementData(p)
  BY DEF Statistics!GetOne, Statistics!MeasurementData
<1>6. Statistics!GetOne(p) = {d \in Statistics!GetAll : d.name = p}
  BY <1>4 DEF Statistics!GetOne, Statistics!GetAll
<1>7. Statistics!GetOne(p) = {d \in told : d.measurement.count # 0}
  <2>1. ASSUME NEW d \in Statistics!GetOne(p) PROVE d \in told /\ d.measurement.count # 0
    BY <1>3, <1>4 DEF Statistics!GetOne
  <2>2. ASSUME NEW d \in told, d.measurement.count # 0 PROVE d \in Statistics!GetOne(p)
    <3>1. PICK q \in here : d = Statistics!Data(q)
      BY <1>3
    <3>2. measurement[q].count # 0
      BY <1>4, <2>2, <3>1
    <3>3. QED BY <3>1, <3>2 DEF Statistics!GetOne
  <2> HIDE DEF told
  <2>3. QED BY <2>1, <2>2
<1>8. told # {} <=> p \in Statistics!Observables
  BY <1>3
<1>9. \A d \in Statistics!GetOne(p) : d.measurement.last \in d.measurement.min .. d.measurement.max
  BY <1>4 DEF Statistics!GetOne, MeasuresInOrder
<1>10. \A s \in Statistics!Status(p) : s.restart = Statistics!RestartingLimits(p)
  <2>1. \A q \in here : Limits(q) = Statistics!RestartingLimits(p)
    BY DEF Statistics!RestartingLimits
  <2> HIDE DEF Limits, Of
  <2>2. QED BY <1>1, <1>2, <2>1
<1>11. QED BY <1>5, <1>6, <1>7, <1>8, <1>9, <1>10

\* Who watches is told of what exceeded its memory, and however clients ask,
\* they are told the same.
THEOREM StatisticsStayTold == MCSpec => []StatisticsAreTold
<1>1. MCInit => StatisticsInv
  BY DEF MCInit, Statistics!Init, StatisticsInv, MeasuresInOrder, OwedInOrder, Records,
         Statistics!Unmeasured
<1>2. ASSUME StatisticsInv, [MCNext]_<<group, agentVars, pluginVars, otherVars, mediaVars>>
      PROVE  StatisticsInv'
  <2>1. [Statistics!Next]_statisticsVars
    BY <1>2 DEF MCNext, otherVars
  <2>2. QED BY <1>2, <2>1, MeasuresStep, OwedStep DEF StatisticsInv
<1>3. ASSUME StatisticsInv PROVE StatisticsAreTold
  <2>1. Statistics!ExceededIsTold
    BY <1>3 DEF StatisticsInv, OwedInOrder, Statistics!ExceededIsTold, Statistics!None
  <2>2. ASSUME NEW e \in ToSet(Configured)
        PROVE  /\ e.callsign # ""
               /\ e.callsign \in Statistics!Observables <=>
                    \E f \in ToSet(Configured) :
                      f.callsign = e.callsign /\ (f.operational # 0 \/ f.memory # 0)
    BY CallsignAssumption DEF ToSet, Statistics!Observables, Statistics!Entries
  <2>3. Statistics!ToSet(Configured) = ToSet(Configured)
    BY DEF ToSet, Statistics!ToSet
  <2>4. Statistics!AnswersAgree
    BY <1>3, <2>2, <2>3, AnswersAreTheSame DEF StatisticsInv, Statistics!AnswersAgree
  <2>5. QED BY <2>1, <2>4 DEF StatisticsAreTold, Statistics!StatisticsAreTold
<1>4. QED BY <1>1, <1>2, <1>3, PTL DEF MCSpec

-----------------------------------------------------------------------------
(* DisplayInfo on Linux: what it knows of the display, and the thread that *)
(* reads it again.                                                         *)

Sources == {"HDMI_CHANGE", "HDCP_CHANGE"}
Devices == {"drm_minor", "hdcp", "disk"}

AtDisplay == {"queries", "reauthenticates", "authenticates", "reads"}

\* What a change has still to go through before the thread reads it.  An event
\* that the socket has posted and still signals may have been read already.
Pending(kind) ==
  \/ \E i \in 1 .. Len(wire) : wire[i] \in Display!Registered /\ Display!Source(wire[i]) = kind
  \/ socket.at = "posts" /\ socket.source = kind
  \/ \E i \in 1 .. Len(queue) : queue[i] = kind

ThreadTypes ==
  /\ wire \in Seq(Devices) /\ queue \in Seq(Sources) /\ arrived \in BOOLEAN
  /\ merged \in BOOLEAN
  /\ socket = Display!None \/ socket \in [at : {"posts", "sets"}, source : Sources]
  /\ worker \in {"waits", "woken", "extracts", "sleeps", "crashed"} \cup AtDisplay

\* Every signal, given or about to be given, has an event in the queue.
SignalsInOrder ==
  Len(queue) >= (IF worker \in {"woken", "extracts"} THEN 1 ELSE 0)
                + (IF arrived /\ worker # "woken" THEN 1 ELSE 0)
                + (IF socket.at = "sets" THEN 1 ELSE 0)

\* As long as no two were one, every event in the queue has a signal of its own.
SignalsMatch ==
  /\ worker = "woken" => arrived
  /\ ~merged => Len(queue) = (IF worker = "extracts" THEN 1 ELSE 0) + (IF arrived THEN 1 ELSE 0)
                             + (IF socket.at = "sets" THEN 1 ELSE 0)

IsASequence(t) == \E S : t \in Seq(S)

\* There is a display, or one that is being constructed, or none.
DisplaysInOrder ==
  /\ \/ display = Display!None
     \/ display = [at |-> "made", connector |-> display.connector, hdcp |-> display.hdcp,
                   edid |-> display.edid]
  /\ \/ making = Display!None
     \/ /\ making = [at |-> making.at, connector |-> making.connector, hdcp |-> making.hdcp,
                     edid |-> making.edid]
        /\ making.at \in {"reauthenticates", "reads"} /\ display = Display!None
  /\ worker \in AtDisplay => display # Display!None
  /\ display # Display!None => IsASequence(display.edid)

ConnectorKnown(d) == d.connector = Display!DRMConnector(screen) \/ Pending("HDMI_CHANGE")
LevelKnown(d) ==
  d.hdcp = Display!HDCP(level) \/ Pending("HDCP_CHANGE") \/ Pending("HDMI_CHANGE")
EdidKnown(d) ==
  (d.edid # <<>> => Display!Ends(Display!Bytes(screen), d.edid)) \/ Pending("HDMI_CHANGE")

\* What was read is so now, or is on its way to be read again.
NothingLost ==
  worker # "crashed" /\ ~refused =>
    /\ display # Display!None =>
         /\ ConnectorKnown(display) \/ worker = "queries"
         /\ LevelKnown(display) \/ worker \in {"queries", "reauthenticates", "authenticates"}
         /\ EdidKnown(display) \/ worker \in {"queries", "reauthenticates", "reads"}
    /\ making # Display!None =>
         ConnectorKnown(making) /\ (making.at = "reads" => LevelKnown(making))

DisplayInv == ThreadTypes /\ SignalsInOrder /\ SignalsMatch /\ DisplaysInOrder /\ NothingLost

\* The elements of a sequence are its head and those of its tail.
LEMMA HeadAndTail ==
  ASSUME NEW S, NEW s \in Seq(S), s # <<>>
  PROVE  /\ Head(s) = s[1] /\ Head(s) \in S /\ Tail(s) \in Seq(S) /\ Len(Tail(s)) = Len(s) - 1
         /\ Len(s) \in Nat \ {0}
         /\ \A i \in 1 .. Len(s) : i # 1 => i - 1 \in 1 .. Len(Tail(s)) /\ Tail(s)[i - 1] = s[i]
<1>1. Len(s) \in Nat \ {0} /\ Head(s) = s[1] /\ Head(s) \in S
  OBVIOUS
<1>2. /\ Tail(s) \in Seq(S) /\ Len(Tail(s)) = Len(s) - 1
      /\ \A j \in 1 .. Len(s) - 1 : Tail(s)[j] = s[j + 1]
  OBVIOUS
<1>3. ASSUME NEW i \in 1 .. Len(s), i # 1
      PROVE  i - 1 \in 1 .. Len(Tail(s)) /\ Tail(s)[i - 1] = s[i]
  <2>1. i - 1 \in 1 .. Len(s) - 1 /\ (i - 1) + 1 = i
    BY <1>1, <1>3
  <2>2. QED BY <1>2, <2>1
<1>4. QED BY <1>1, <1>2, <1>3

\* What is appended is at the end.
LEMMA ConcatEnds ==
  ASSUME NEW s, NEW t, IsASequence(s), IsASequence(t)
  PROVE  IsASequence(t \o s) /\ Display!Ends(s, t \o s)
<1>1. PICK A, B : s \in Seq(A) /\ t \in Seq(B)
  BY DEF IsASequence
<1>2. s \in Seq(A \cup B) /\ t \in Seq(A \cup B)
  BY <1>1
<1>3. t \o s \in Seq(A \cup B)
  BY <1>2
<1>4. /\ Len(t \o s) = Len(t) + Len(s) /\ Len(s) \in Nat /\ Len(t) \in Nat
      /\ \A i \in 1 .. Len(s) : (t \o s)[Len(t) + i] = s[i]
  BY <1>2
<1>5. Display!Ends(s, t \o s)
  BY <1>4 DEF Display!Ends
<1>6. QED BY <1>3, <1>5 DEF IsASequence

\* The bytes of a display, however many, are a sequence.
LEMMA BytesAreASequence == IsASequence(Display!Bytes(screen))
<1>1. CASE Display!DRMConnector(screen) = {}
  <2>1. <<"undefined">> \in Seq({"undefined"})
    OBVIOUS
  <2>2. QED BY <1>1, <2>1 DEF Display!Bytes, IsASequence
<1>2. CASE Display!DRMConnector(screen) # {}
  <2>1. PICK name : Display!Bytes(screen) = <<name, name>>
    BY <1>2 DEF Display!Bytes
  <2>2. <<name, name>> \in Seq({name})
    OBVIOUS
  <2>3. QED BY <2>1, <2>2 DEF IsASequence
<1>3. QED BY <1>1, <1>2

\* What udev tells of comes to the end of the wire.
LEMMA DeviceIsPending ==
  ASSUME ThreadTypes, NEW device \in Devices, Display!Tells(device)
  PROVE  /\ ThreadTypes' /\ UNCHANGED <<socket, queue, arrived, worker, refused, merged, making, display>>
         /\ UNCHANGED usePreferredMode
         /\ \A kind \in Sources : Pending(kind) => Pending(kind)'
         /\ device \in Display!Registered => Pending(Display!Source(device))'
<1>1. /\ wire' = Append(wire, device)
      /\ UNCHANGED <<socket, queue, arrived, worker, refused, merged, making, display, usePreferredMode>>
  BY DEF Display!Tells, Display!threadVars
<1>2. /\ wire' \in Seq(Devices) /\ Len(wire') = Len(wire) + 1 /\ wire'[Len(wire) + 1] = device
      /\ \A i \in 1 .. Len(wire) : wire'[i] = wire[i]
  BY <1>1 DEF ThreadTypes
<1>3. Len(wire) \in Nat
  BY DEF ThreadTypes
<1>4. ThreadTypes'
  BY <1>1, <1>2 DEF ThreadTypes, Display!None
<1>5. ASSUME NEW kind \in Sources, Pending(kind) PROVE Pending(kind)'
  BY <1>1, <1>2, <1>3, <1>5 DEF Pending, Display!Registered, Display!Source
<1>6. device \in Display!Registered => Pending(Display!Source(device))'
  <2>1. Len(wire) + 1 \in 1 .. Len(wire')
    BY <1>2, <1>3
  <2>2. QED BY <1>2, <2>1 DEF Pending, Display!Registered, Display!Source
<1>7. QED BY <1>1, <1>4, <1>5, <1>6

\* The thread of the socket takes an event on, and drops no change.
LEMMA SocketStep ==
  ASSUME DisplayInv, Display!ReceiveData \/ Display!Post \/ Display!SetEvent
  PROVE  /\ ThreadTypes' /\ SignalsInOrder' /\ SignalsMatch'
         /\ UNCHANGED <<usePreferredMode, screen, level, worker, making, display>>
         /\ refused => refused'
         /\ ~refused' => \A kind \in Sources : Pending(kind) => Pending(kind)'
<1> USE DEF DisplayInv
<1>1. CASE Display!ReceiveData
  <2>1. /\ socket = Display!None /\ wire # <<>> /\ wire' = Tail(wire)
        /\ socket' = IF Head(wire) \in Display!Registered
                       THEN [at |-> "posts", source |-> Display!Source(Head(wire))] ELSE Display!None
        /\ UNCHANGED <<usePreferredMode, screen, level, queue, arrived, worker, refused, merged, making, display>>
    BY <1>1 DEF Display!ReceiveData
  <2>2. ThreadTypes'
    BY <2>1, HeadAndTail DEF ThreadTypes, Display!Registered, Display!Source, Sources, Devices
  <2>3. SignalsInOrder' /\ SignalsMatch'
    BY <2>1 DEF SignalsInOrder, SignalsMatch, Display!None
  <2>4. ASSUME NEW kind \in Sources, Pending(kind) PROVE Pending(kind)'
    <3>1. CASE \E i \in 1 .. Len(queue) : queue[i] = kind
      BY <2>1, <3>1 DEF Pending
    <3>2. CASE \E i \in 1 .. Len(wire) : wire[i] \in Display!Registered /\ Display!Source(wire[i]) = kind
      <4>1. PICK i \in 1 .. Len(wire) : wire[i] \in Display!Registered /\ Display!Source(wire[i]) = kind
        BY <3>2
      <4>2. CASE i = 1
        <5>1. Head(wire) = wire[1]
          BY <2>1 DEF ThreadTypes
        <5>2. socket' = [at |-> "posts", source |-> kind]
          BY <2>1, <4>1, <4>2, <5>1
        <5>3. QED BY <5>2 DEF Pending
      <4>3. CASE i # 1
        <5>1. i - 1 \in 1 .. Len(wire') /\ wire'[i - 1] = wire[i]
          BY <2>1, <4>3, HeadAndTail DEF ThreadTypes
        <5>2. QED BY <4>1, <5>1 DEF Pending, Display!Registered, Display!Source
      <4>4. QED BY <4>2, <4>3
    <3>3. QED BY <2>1, <2>4, <3>1, <3>2 DEF Pending, Display!None
  <2>5. QED BY <2>1, <2>2, <2>3, <2>4
<1>2. CASE Display!Post
  <2>1. /\ socket.at = "posts" /\ socket \in [at : {"posts", "sets"}, source : Sources]
        /\ UNCHANGED <<usePreferredMode, screen, level, wire, arrived, worker, merged, making, display>>
    BY <1>2 DEF Display!Post, Display!hardwareVars, ThreadTypes, Display!None
  <2>2. CASE /\ queue' = Append(queue, socket.source) /\ socket' = [socket EXCEPT !.at = "sets"]
             /\ UNCHANGED refused
    <3>1. /\ queue' \in Seq(Sources) /\ Len(queue') = Len(queue) + 1
          /\ queue'[Len(queue) + 1] = socket.source
          /\ \A i \in 1 .. Len(queue) : queue'[i] = queue[i]
      BY <2>1, <2>2 DEF ThreadTypes
    <3>2. socket' \in [at : {"posts", "sets"}, source : Sources] /\ socket'.at = "sets"
      BY <2>1, <2>2
    <3>3. ThreadTypes'
      BY <2>1, <3>1, <3>2 DEF ThreadTypes
    <3>4. SignalsInOrder' /\ SignalsMatch'
      BY <2>1, <3>1, <3>2 DEF SignalsInOrder, SignalsMatch, ThreadTypes
    <3>5. ASSUME NEW kind \in Sources, Pending(kind) PROVE Pending(kind)'
      <4>1. Len(queue) \in Nat
        BY DEF ThreadTypes
      <4>2. CASE socket.source = kind
        BY <3>1, <4>1, <4>2 DEF Pending
      <4>3. CASE socket.source # kind
        BY <2>1, <3>1, <3>5, <4>1, <4>3 DEF Pending, Display!Registered, Display!Source
      <4>4. QED BY <4>2, <4>3
    <3>6. QED BY <2>1, <2>2, <3>3, <3>4, <3>5
  <2>3. CASE refused' = TRUE /\ socket' = Display!None /\ UNCHANGED queue
    BY <2>1, <2>3 DEF ThreadTypes, SignalsInOrder, SignalsMatch, Display!None
  <2>4. QED BY <1>2, <2>2, <2>3 DEF Display!Post
<1>3. CASE Display!SetEvent
  <2>1. /\ socket.at = "sets" /\ socket' = Display!None /\ arrived' = TRUE /\ merged' = (merged \/ arrived)
        /\ UNCHANGED <<usePreferredMode, screen, level, wire, queue, worker, refused, making, display>>
    BY <1>3 DEF Display!SetEvent, Display!hardwareVars
  <2>2. ThreadTypes'
    <3>1. arrived' \in BOOLEAN /\ merged' \in BOOLEAN
      BY <2>1, Zenon
    <3>2. QED BY <2>1, <3>1 DEF ThreadTypes
  <2>3. SignalsInOrder' /\ SignalsMatch'
    <3>1. Len(queue) \in Nat /\ socket'.at # "sets" /\ Len(queue') = Len(queue) /\ worker' = worker
      BY <2>1 DEF ThreadTypes, Display!None
    <3>2. CASE arrived
      <4>1. merged' = TRUE
        BY <2>1, <3>2, Zenon
      <4>2. QED BY <2>1, <3>1, <3>2, <4>1 DEF SignalsInOrder, SignalsMatch
    <3>3. CASE ~arrived
      <4>1. (merged' => merged) /\ (merged => merged')
        BY <2>1, <3>3, Zenon
      <4>2. QED BY <2>1, <3>1, <3>3, <4>1 DEF SignalsInOrder, SignalsMatch
    <3>4. QED BY <3>2, <3>3
  <2>4. ASSUME NEW kind \in Sources, Pending(kind) PROVE Pending(kind)'
    BY <2>1, <2>4 DEF Pending, Display!Registered, Display!Source, Display!None
  <2>5. QED BY <2>1, <2>2, <2>3, <2>4
<1>4. QED BY <1>1, <1>2, <1>3

\* What was known stays known as long as nothing is lost on the way.
LEMMA KnownStays ==
  ASSUME DisplayInv, DisplaysInOrder', UNCHANGED <<usePreferredMode, worker, making, display>>,
         refused => refused',
         ~refused' => \A kind \in Sources : Pending(kind) => Pending(kind)',
         screen' = screen \/ Pending("HDMI_CHANGE")',
         level' = level \/ Pending("HDMI_CHANGE")' \/ Pending("HDCP_CHANGE")'
  PROVE  NothingLost'
<1> USE DEF DisplayInv
<1>1. screen' = screen => Display!DRMConnector(screen)' = Display!DRMConnector(screen)
  BY DEF Display!DRMConnector, Display!InitializeWithConnector, Display!HDMI
<1>7. screen' = screen => Display!Bytes(screen)' = Display!Bytes(screen)
  BY <1>1 DEF Display!Bytes, Display!HDMI
<1>2. level' = level => Display!HDCP(level)' = Display!HDCP(level)
  BY DEF Display!HDCP
<1>3. SUFFICES ASSUME worker # "crashed", ~refused'
               PROVE  /\ display # Display!None =>
                           /\ ConnectorKnown(display)' \/ worker = "queries"
                           /\ \/ LevelKnown(display)'
                              \/ worker \in {"queries", "reauthenticates", "authenticates"}
                           /\ \/ EdidKnown(display)'
                              \/ worker \in {"queries", "reauthenticates", "reads"}
                      /\ making # Display!None =>
                           ConnectorKnown(making)' /\ (making.at = "reads" => LevelKnown(making)')
  BY DEF NothingLost, Display!None
<1>4. /\ ConnectorKnown(display) => ConnectorKnown(display)'
      /\ ConnectorKnown(making) => ConnectorKnown(making)'
  BY <1>1, <1>3 DEF ConnectorKnown, Sources
<1>5. /\ LevelKnown(display) => LevelKnown(display)'
      /\ LevelKnown(making) => LevelKnown(making)'
  BY <1>2, <1>3 DEF LevelKnown, Sources
<1>6. EdidKnown(display) => EdidKnown(display)'
  BY <1>3, <1>7 DEF EdidKnown, Display!Ends, Sources
<1>8. QED BY <1>3, <1>4, <1>5, <1>6 DEF NothingLost

\* The hardware changes, and udev tells of it.
LEMMA HardwareStep ==
  ASSUME DisplayInv,
         \/ \E s \in Screens : Display!Plug(s)
         \/ \E l \in {"22 succeed", "14 succeed", "failed"} : Display!Authenticate(l)
         \/ Display!OtherDevice
  PROVE  DisplayInv'
<1>1. ASSUME NEW device \in Devices, Display!Tells(device),
             screen' = screen \/ device = "drm_minor",
             level' = level \/ device \in {"drm_minor", "hdcp"}
      PROVE  DisplayInv'
  <2>1. /\ ThreadTypes' /\ UNCHANGED <<socket, queue, arrived, worker, refused, merged, making, display>>
        /\ UNCHANGED usePreferredMode
        /\ \A kind \in Sources : Pending(kind) => Pending(kind)'
        /\ device \in Display!Registered => Pending(Display!Source(device))'
    BY <1>1, DeviceIsPending DEF DisplayInv
  <2>2. device = "drm_minor" => Pending("HDMI_CHANGE")'
    <3>1. ASSUME device = "drm_minor" PROVE Pending("HDMI_CHANGE")'
      <4>1. device \in Display!Registered /\ Display!Source(device) = "HDMI_CHANGE"
        BY <3>1 DEF Display!Registered, Display!Source
      <4>2. QED BY <2>1, <4>1
    <3>2. QED BY <3>1
  <2>3. device = "hdcp" => Pending("HDCP_CHANGE")'
    <3>1. ASSUME device = "hdcp" PROVE Pending("HDCP_CHANGE")'
      <4>1. device \in Display!Registered /\ Display!Source(device) = "HDCP_CHANGE"
        BY <3>1 DEF Display!Registered, Display!Source
      <4>2. QED BY <2>1, <4>1
    <3>2. QED BY <3>1
  <2>4. SignalsInOrder' /\ SignalsMatch' /\ DisplaysInOrder'
    BY <2>1 DEF DisplayInv, SignalsInOrder, SignalsMatch, DisplaysInOrder, Display!None
  <2>5. NothingLost'
    BY <1>1, <2>1, <2>2, <2>3, <2>4, KnownStays
  <2>6. QED BY <2>1, <2>4, <2>5 DEF DisplayInv
<1>2. QED
  BY <1>1 DEF Display!Plug, Display!Authenticate, Display!OtherDevice, Devices

\* The thread takes one event from the queue, for each signal there is one.
LEMMA WorkerSignals ==
  ASSUME DisplayInv, Display!Lock \/ Display!ResetEvent \/ Display!Extract
  PROVE  DisplayInv'
<1> USE DEF DisplayInv
<1>1. CASE Display!Lock \/ Display!ResetEvent
  <2>1. /\ \/ worker = "waits" /\ arrived /\ worker' = "woken" /\ UNCHANGED arrived
           \/ worker = "woken" /\ worker' = "extracts" /\ arrived' = FALSE
        /\ UNCHANGED <<usePreferredMode, screen, level, wire, socket, queue, refused, merged, making, display>>
    BY <1>1 DEF Display!Lock, Display!ResetEvent, Display!hardwareVars
  <2>2. ThreadTypes'
    BY <2>1 DEF ThreadTypes, Display!None
  <2>9. SignalsInOrder' /\ SignalsMatch'
    BY <2>1 DEF ThreadTypes, SignalsInOrder, SignalsMatch, Display!None
  <2>3. DisplaysInOrder'
    BY <2>1 DEF DisplaysInOrder, Display!None, AtDisplay
  <2>4. /\ Display!DRMConnector(screen)' = Display!DRMConnector(screen)
        /\ Display!HDCP(level)' = Display!HDCP(level)
    BY <2>1 DEF Display!DRMConnector, Display!InitializeWithConnector, Display!HDMI, Display!HDCP
  <2>5. \A kind \in Sources : Pending(kind)' = Pending(kind)
    BY <2>1 DEF Pending, Display!Registered, Display!Source
  <2>6. /\ ConnectorKnown(display)' = ConnectorKnown(display) /\ LevelKnown(display)' = LevelKnown(display)
        /\ ConnectorKnown(making)' = ConnectorKnown(making) /\ LevelKnown(making)' = LevelKnown(making)
        /\ EdidKnown(display)' = EdidKnown(display)
    BY <2>1, <2>4, <2>5 DEF ConnectorKnown, LevelKnown, EdidKnown, Display!Bytes, Display!HDMI, Display!Ends, Sources
  <2>7. NothingLost'
    BY <2>1, <2>6 DEF NothingLost, Display!None
  <2>8. QED BY <2>2, <2>9, <2>3, <2>7
<1>2. CASE Display!Extract
  <2>1. /\ worker = "extracts" /\ queue # <<>> /\ queue' = Tail(queue)
        /\ worker' = IF display = Display!None THEN "crashed"
                     ELSE IF Head(queue) = "HDCP_CHANGE" THEN "authenticates" ELSE "queries"
        /\ UNCHANGED <<usePreferredMode, screen, level, wire, socket, arrived, refused, merged, making, display>>
    BY <1>2 DEF Display!Extract, Display!hardwareVars
  <2>2. /\ Head(queue) \in Sources /\ Len(queue') = Len(queue) - 1 /\ queue' \in Seq(Sources)
        /\ \A i \in 1 .. Len(queue) :
             queue[i] # Head(queue) => i - 1 \in 1 .. Len(queue') /\ queue'[i - 1] = queue[i]
    BY <2>1, HeadAndTail DEF ThreadTypes
  <2>3. ThreadTypes' /\ SignalsInOrder' /\ SignalsMatch'
    <3>1. worker' \in {"crashed", "authenticates", "queries"} /\ Len(queue) \in Nat
      BY <2>1 DEF ThreadTypes
    <3>2. ThreadTypes'
      BY <2>1, <2>2, <3>1 DEF ThreadTypes, Display!None, AtDisplay
    <3>3. SignalsInOrder'
      BY <2>1, <2>2, <3>1 DEF SignalsInOrder
    <3>4. SignalsMatch'
      <4>1. (worker' = "woken") = FALSE /\ (worker' = "extracts") = FALSE /\ (worker = "extracts") = TRUE
        BY <2>1, <3>1
      <4>2. Len(queue') = Len(queue) - 1 /\ arrived' = arrived /\ socket' = socket /\ merged' = merged
        BY <2>1, <2>2
      <4>3. ~merged => Len(queue) = 1 + (IF arrived THEN 1 ELSE 0) + (IF socket.at = "sets" THEN 1 ELSE 0)
        BY <4>1 DEF SignalsMatch
      <4>4. ~merged' => Len(queue') = (IF arrived' THEN 1 ELSE 0) + (IF socket'.at = "sets" THEN 1 ELSE 0)
        BY <3>1, <4>2, <4>3
      <4>5. QED BY <4>1, <4>4 DEF SignalsMatch
    <3>5. QED BY <3>2, <3>3, <3>4
  <2>4. DisplaysInOrder'
    BY <2>1 DEF DisplaysInOrder, Display!None, AtDisplay
  <2>5. ASSUME NEW kind \in Sources, Pending(kind), Head(queue) # kind PROVE Pending(kind)'
    BY <2>1, <2>2, <2>5 DEF Pending, Display!Registered, Display!Source
  <2>6. /\ Display!DRMConnector(screen)' = Display!DRMConnector(screen)
        /\ Display!HDCP(level)' = Display!HDCP(level) /\ Display!Bytes(screen)' = Display!Bytes(screen)
    BY <2>1 DEF Display!DRMConnector, Display!InitializeWithConnector, Display!HDMI, Display!HDCP, Display!Bytes
  <2>7. ASSUME display # Display!None, ~refused PROVE NothingLost'
    <3>1. ConnectorKnown(display) /\ LevelKnown(display) /\ EdidKnown(display) /\ making = Display!None
      BY <2>1, <2>7 DEF NothingLost, DisplaysInOrder
    <3>2. CASE Head(queue) = "HDCP_CHANGE"
      <4>1. ConnectorKnown(display)' /\ EdidKnown(display)'
        BY <2>1, <2>5, <2>6, <3>1, <3>2 DEF ConnectorKnown, EdidKnown, Display!Ends, Sources
      <4>2. worker' = "authenticates" /\ making' = Display!None /\ Display!None' = Display!None
        BY <2>1, <2>7, <3>1, <3>2 DEF Display!None
      <4>3. QED BY <4>1, <4>2 DEF NothingLost
    <3>3. CASE Head(queue) # "HDCP_CHANGE"
      <4>1. worker' = "queries" /\ making' = Display!None /\ Display!None' = Display!None
        BY <2>1, <2>7, <3>1, <3>3 DEF Display!None
      <4>2. QED BY <4>1 DEF NothingLost
    <3>4. QED BY <3>2, <3>3
  <2>8. NothingLost'
    <3>1. CASE display # Display!None /\ ~refused
      BY <2>7, <3>1
    <3>2. CASE display = Display!None
      BY <2>1, <3>2 DEF NothingLost
    <3>3. CASE refused
      BY <2>1, <3>3 DEF NothingLost
    <3>4. QED BY <3>1, <3>2, <3>3 DEF NothingLost
  <2>9. QED BY <2>3, <2>4, <2>8
<1>3. QED BY <1>1, <1>2

\* The thread reads the display: what it has read is so.
LEMMA WorkerReads ==
  ASSUME DisplayInv,
         Display!QueryDisplayProperties \/ Display!Reauthenticate \/ Display!QueryEDID
  PROVE  DisplayInv'
<1> USE DEF DisplayInv
<1>1. /\ UNCHANGED <<usePreferredMode, screen, level, wire, socket, queue, arrived, refused, merged, making>>
      /\ worker \in AtDisplay /\ worker' \in {"waits", "sleeps"} \cup AtDisplay
      /\ \/ worker = "queries" /\ worker' = "reauthenticates"
            /\ display' = [display EXCEPT !.connector = Display!DRMConnector(screen)]
         \/ /\ \/ worker = "authenticates" /\ worker' \in {"waits", "sleeps"}
               \/ worker = "reauthenticates" /\ worker' = "reads"
            /\ display' = [display EXCEPT !.hdcp = Display!HDCP(level)]
         \/ worker = "reads" /\ worker' \in {"waits", "sleeps"}
            /\ \E edid \in Display!EDID(display.edid, screen) : display' = [display EXCEPT !.edid = edid]
  <2>1. CASE Display!QueryDisplayProperties
    BY <2>1 DEF Display!QueryDisplayProperties, Display!Requeries, Display!hardwareVars, AtDisplay
  <2>2. CASE Display!Reauthenticate
    BY <2>2 DEF Display!Reauthenticate, Display!Returns, Display!hardwareVars, AtDisplay
  <2>3. CASE Display!QueryEDID
    BY <2>3 DEF Display!QueryEDID, Display!Returns, Display!hardwareVars, AtDisplay
  <2>4. QED BY <2>1, <2>2, <2>3
<1>2. /\ display # Display!None /\ making = Display!None
      /\ display = [at |-> "made", connector |-> display.connector, hdcp |-> display.hdcp,
                    edid |-> display.edid]
      /\ IsASequence(display.edid)
  BY <1>1 DEF DisplaysInOrder
<1>3. ThreadTypes'
  BY <1>1 DEF ThreadTypes, Display!None, AtDisplay
<1>4. SignalsInOrder' /\ SignalsMatch'
  BY <1>1 DEF SignalsInOrder, SignalsMatch, ThreadTypes, AtDisplay
<1>5. /\ display'.at = "made"
      /\ display' = [at |-> "made", connector |-> display'.connector, hdcp |-> display'.hdcp,
                     edid |-> display'.edid]
      /\ worker = "queries" => display'.connector = Display!DRMConnector(screen)
      /\ worker # "queries" => display'.connector = display.connector
      /\ worker \in {"authenticates", "reauthenticates"} => display'.hdcp = Display!HDCP(level)
      /\ worker = "reads" => display'.hdcp = display.hdcp
      /\ worker # "reads" => display'.edid = display.edid
      /\ worker = "reads" => display'.edid \in Display!EDID(display.edid, screen)
  BY <1>1, <1>2
<1>6. display' # Display!None /\ making' = Display!None /\ Display!None' = Display!None
  BY <1>1, <1>2, <1>5 DEF Display!None
<1>12. /\ IsASequence(display'.edid)
       /\ worker = "reads" => display'.edid = <<>> \/ Display!Ends(Display!Bytes(screen), display'.edid)
  <2>1. <<>> \in Seq({})
    OBVIOUS
  <2>2. IsASequence(<<>>)
    BY <2>1 DEF IsASequence
  <2>3. QED BY <1>2, <1>5, <2>2, ConcatEnds, BytesAreASequence DEF Display!EDID
<1>7. DisplaysInOrder'
  BY <1>5, <1>6, <1>12 DEF DisplaysInOrder, IsASequence
<1>8. /\ Display!Bytes(screen)' = Display!Bytes(screen)
      /\ Display!DRMConnector(screen)' = Display!DRMConnector(screen)
      /\ Display!HDCP(level)' = Display!HDCP(level)
      /\ \A kind \in Sources : Pending(kind)' = Pending(kind)
  BY <1>1 DEF Display!DRMConnector, Display!InitializeWithConnector, Display!HDMI, Display!HDCP, Display!Bytes,
              Pending, Display!Registered, Display!Source
<1>9. ASSUME ~refused PROVE NothingLost'
  <2>1. ConnectorKnown(display) \/ worker = "queries"
    BY <1>1, <1>2, <1>9 DEF NothingLost, AtDisplay
  <2>2. LevelKnown(display) \/ worker \in {"queries", "reauthenticates", "authenticates"}
    BY <1>1, <1>2, <1>9 DEF NothingLost, AtDisplay
  <2>3. ConnectorKnown(display)'
    BY <1>5, <1>8, <2>1 DEF ConnectorKnown, Sources
  <2>4. LevelKnown(display)' \/ worker' = "reauthenticates"
    BY <1>1, <1>5, <1>8, <2>2 DEF LevelKnown, Sources, AtDisplay
  <2>5. EdidKnown(display) \/ worker \in {"queries", "reauthenticates", "reads"}
    BY <1>1, <1>2, <1>9 DEF NothingLost, AtDisplay
  <2>6. EdidKnown(display)' \/ worker' \in {"reauthenticates", "reads"}
    <3>1. CASE worker \in {"queries", "reauthenticates"}
      BY <1>1, <3>1
    <3>2. CASE worker = "reads"
      <4>1. display'.edid # <<>> => Display!Ends(Display!Bytes(screen), display'.edid)
        BY <1>12, <3>2
      <4>2. QED BY <1>8, <4>1 DEF EdidKnown, Display!Ends
    <3>3. CASE worker = "authenticates"
      BY <1>5, <1>8, <2>5, <3>3 DEF EdidKnown, Display!Ends, Sources
    <3>4. QED BY <1>1, <3>1, <3>2, <3>3 DEF AtDisplay
  <2>7. QED BY <1>6, <2>3, <2>4, <2>6 DEF NothingLost
<1>10. NothingLost'
  BY <1>1, <1>9 DEF NothingLost
<1>11. QED BY <1>3, <1>4, <1>7, <1>10

\* Configure reads as well; meanwhile there is no display that an event could
\* have read again, so that no event is taken without a crash.
LEMMA ConfigureSteps ==
  ASSUME DisplayInv, Display!Configure \/ Display!Configures \/ Display!ConfigureReturns
  PROVE  DisplayInv'
<1> USE DEF DisplayInv
<1>1. /\ UNCHANGED <<usePreferredMode, screen, level, wire, socket, queue, arrived, worker, refused, merged>>
  BY DEF Display!Configure, Display!Configures, Display!ConfigureReturns, Display!hardwareVars,
         Display!threadVars
<1>2. ThreadTypes' /\ SignalsInOrder' /\ SignalsMatch'
  BY <1>1 DEF ThreadTypes, SignalsInOrder, SignalsMatch, Display!None
<1>3. /\ Display!DRMConnector(screen)' = Display!DRMConnector(screen)
      /\ Display!HDCP(level)' = Display!HDCP(level)
      /\ \A kind \in Sources : Pending(kind)' = Pending(kind)
      /\ Display!Bytes(screen)' = Display!Bytes(screen)
  BY <1>1 DEF Display!DRMConnector, Display!InitializeWithConnector, Display!HDMI, Display!HDCP, Display!Bytes,
              Pending, Display!Registered, Display!Source
<1>4. Display!None' = Display!None
  BY DEF Display!None
<1>5. CASE Display!Configure
  <2>1. /\ display = Display!None /\ display' = Display!None
        /\ making' = [at |-> "reauthenticates", connector |-> Display!DRMConnector(screen),
                      hdcp |-> "HDCP_Unencrypted", edid |-> <<>>]
    BY <1>5 DEF Display!Configure
  <2>2. making'.at = "reauthenticates" /\ making'.connector = Display!DRMConnector(screen)
    BY <2>1
  <2>3. DisplaysInOrder'
    BY <1>1, <1>4, <2>1 DEF DisplaysInOrder
  <2>4. ConnectorKnown(making)'
    BY <1>3, <2>2 DEF ConnectorKnown
  <2>5. NothingLost'
    BY <1>4, <2>1, <2>2, <2>4 DEF NothingLost
  <2>6. QED BY <1>2, <2>3, <2>5
<1>6. CASE Display!Configures
  <2>1. /\ making.at = "reauthenticates" /\ UNCHANGED display
        /\ making' = [making EXCEPT !.at = "reads", !.hdcp = Display!HDCP(level)]
    BY <1>6 DEF Display!Configures
  <2>2. /\ making = [at |-> making.at, connector |-> making.connector, hdcp |-> making.hdcp,
                     edid |-> making.edid]
        /\ making # Display!None /\ display = Display!None
    BY <2>1 DEF DisplaysInOrder, Display!None
  <2>3. /\ making' = [at |-> "reads", connector |-> making.connector, hdcp |-> Display!HDCP(level),
                      edid |-> making.edid]
    BY <2>1, <2>2
  <2>4. making'.connector = making.connector /\ making'.hdcp = Display!HDCP(level)
    BY <2>3
  <2>5. DisplaysInOrder'
    BY <1>1, <1>4, <2>1, <2>2, <2>3 DEF DisplaysInOrder
  <2>6. LevelKnown(making)' /\ (ConnectorKnown(making) => ConnectorKnown(making)')
    BY <1>3, <2>4 DEF LevelKnown, ConnectorKnown, Sources
  <2>7. NothingLost'
    BY <1>1, <1>4, <2>1, <2>2, <2>6 DEF NothingLost
  <2>8. QED BY <1>2, <2>5, <2>7
<1>7. CASE Display!ConfigureReturns
  <2>1. making.at = "reads" /\ making' = Display!None
    BY <1>7 DEF Display!ConfigureReturns
  <2>2. PICK edid : display' = [making EXCEPT !.at = "made", !.edid = edid]
    BY <1>7 DEF Display!ConfigureReturns
  <2>3. /\ making = [at |-> making.at, connector |-> making.connector, hdcp |-> making.hdcp,
                     edid |-> making.edid]
        /\ making # Display!None /\ display = Display!None
    BY <2>1 DEF DisplaysInOrder, Display!None
  <2>4. display' = [at |-> "made", connector |-> making.connector, hdcp |-> making.hdcp, edid |-> edid]
    BY <2>2, <2>3
  <2>5. display'.connector = making.connector /\ display'.hdcp = making.hdcp
        /\ display'.edid = edid /\ display'.at = "made"
    BY <2>4
  <2>6. display' # Display!None
    BY <2>5 DEF Display!None
  <2>11. edid = <<>> \/ edid = <<>> \o Display!Bytes(screen)
    BY <1>7, <2>3, <2>5 DEF Display!ConfigureReturns, Display!EDID
  <2>12. IsASequence(edid) /\ (edid # <<>> => Display!Ends(Display!Bytes(screen), edid))
    <3>1. <<>> \in Seq({})
      OBVIOUS
    <3>2. IsASequence(<<>>)
      BY <3>1 DEF IsASequence
    <3>3. QED BY <2>11, <3>2, ConcatEnds, BytesAreASequence
  <2>7. DisplaysInOrder'
    BY <1>1, <1>4, <2>1, <2>4, <2>5, <2>6, <2>12 DEF DisplaysInOrder, IsASequence
  <2>8. /\ ConnectorKnown(making) => ConnectorKnown(display)'
        /\ LevelKnown(making) => LevelKnown(display)'
        /\ EdidKnown(display)'
    BY <1>3, <2>5, <2>12 DEF LevelKnown, ConnectorKnown, EdidKnown, Display!Ends, Sources
  <2>9. NothingLost'
    BY <1>1, <1>4, <2>1, <2>3, <2>6, <2>8 DEF NothingLost
  <2>10. QED BY <1>2, <2>7, <2>9
<1>8. QED BY <1>5, <1>6, <1>7

\* Nothing moves.
LEMMA DisplayRests ==
  ASSUME DisplayInv, UNCHANGED displayVars
  PROVE  DisplayInv'
<1>1. UNCHANGED <<usePreferredMode, screen, level, wire, socket, queue, arrived, worker, making, display,
                  refused, merged>>
  BY DEF displayVars
<1>2. ThreadTypes' /\ SignalsInOrder' /\ SignalsMatch' /\ DisplaysInOrder'
  BY <1>1 DEF DisplayInv, ThreadTypes, SignalsInOrder, SignalsMatch, DisplaysInOrder, Display!None
<1>3. \A kind \in Sources : Pending(kind) => Pending(kind)'
  BY <1>1 DEF Pending, Display!Registered, Display!Source
<1>4. NothingLost'
  BY <1>1, <1>2, <1>3, KnownStays
<1>5. QED BY <1>2, <1>4 DEF DisplayInv

\* Once the threads are at rest what DisplayInfo answers is so; and its thread
\* never waits in the queue.
THEOREM DisplayStaysKnown ==
  MCSpec => [](Display!FreshAtRest /\ Display!ExtractNeverWaits)
<1>1. MCInit => DisplayInv
  <2> SUFFICES ASSUME MCInit PROVE DisplayInv
    OBVIOUS
  <2>1. /\ wire = <<>> /\ socket = Display!None /\ queue = <<>> /\ arrived = FALSE /\ worker = "waits"
        /\ making = Display!None /\ display = Display!None /\ merged = FALSE
    BY DEF MCInit, Display!Init
  <2>2. ThreadTypes
    <3>1. wire \in Seq(Devices) /\ queue \in Seq(Sources)
      BY <2>1
    <3>2. QED BY <2>1, <3>1 DEF ThreadTypes
  <2>3. SignalsInOrder /\ SignalsMatch
    BY <2>1 DEF SignalsInOrder, SignalsMatch, Display!None
  <2>4. DisplaysInOrder /\ NothingLost
    BY <2>1 DEF DisplaysInOrder, NothingLost, AtDisplay, Display!None
  <2>5. QED BY <2>2, <2>3, <2>4 DEF DisplayInv
<1>2. ASSUME DisplayInv, [MCNext]_<<group, agentVars, pluginVars, otherVars, mediaVars>>
      PROVE  DisplayInv'
  <2>1. [Display!Next]_displayVars
    BY <1>2 DEF MCNext, otherVars
  <2>2. ASSUME Display!ReceiveData \/ Display!Post \/ Display!SetEvent PROVE DisplayInv'
    <3>1. /\ ThreadTypes' /\ SignalsInOrder' /\ SignalsMatch'
          /\ UNCHANGED <<usePreferredMode, screen, level, worker, making, display>>
          /\ refused => refused'
          /\ ~refused' => \A kind \in Sources : Pending(kind) => Pending(kind)'
      BY <1>2, <2>2, SocketStep
    <3>2. DisplaysInOrder'
      BY <1>2, <3>1 DEF DisplayInv, DisplaysInOrder, Display!None, AtDisplay
    <3>3. NothingLost'
      BY <1>2, <3>1, <3>2, KnownStays
    <3>4. QED BY <3>1, <3>2, <3>3 DEF DisplayInv
  <2>3. QED
    BY <1>2, <2>1, <2>2, HardwareStep, WorkerSignals, WorkerReads, ConfigureSteps, DisplayRests
       DEF Display!Next
<1>3. ASSUME DisplayInv PROVE Display!FreshAtRest /\ Display!ExtractNeverWaits
  <2> USE DEF DisplayInv
  <2>1. ASSUME display # Display!None, Display!AtRest, ~refused, ~merged
        PROVE  /\ Display!Answer.size = Display!Size(Display!DRMConnector(screen))
               /\ Display!Answer.hdcp = Display!HDCP(level)
               /\ display.edid # <<>> => Display!Ends(Display!Bytes(screen), display.edid)
    <3>1. wire = <<>> /\ socket = Display!None /\ ~arrived /\ worker = "waits"
      BY <2>1 DEF Display!AtRest
    <3>2. socket.at # "sets" /\ socket.at # "posts"
      BY <3>1 DEF Display!None
    <3>3. Len(queue) = 0
      BY <1>3, <2>1, <3>1, <3>2 DEF SignalsMatch
    <3>4. \A kind \in Sources : ~Pending(kind)
      <4>1. Len(wire) = 0
        BY <3>1
      <4>2. QED BY <3>2, <3>3, <4>1 DEF Pending
    <3>5. ConnectorKnown(display) /\ LevelKnown(display) /\ EdidKnown(display)
      BY <1>3, <2>1, <3>1 DEF NothingLost
    <3>6. /\ display.connector = Display!DRMConnector(screen) /\ display.hdcp = Display!HDCP(level)
          /\ display.edid # <<>> => Display!Ends(Display!Bytes(screen), display.edid)
      BY <3>4, <3>5 DEF ConnectorKnown, LevelKnown, EdidKnown, Sources
    <3>7. Display!Answer.hdcp = display.hdcp /\ Display!Answer.size = Display!Size(display.connector)
      BY DEF Display!Answer
    <3>8. QED BY <3>6, <3>7
  <2>2. Display!ExtractNeverWaits
    BY <1>3 DEF SignalsInOrder, ThreadTypes, Display!ExtractNeverWaits
  <2>3. QED BY <2>1, <2>2 DEF Display!FreshAtRest
<1>4. QED BY <1>1, <1>2, <1>3, PTL DEF MCSpec

-----------------------------------------------------------------------------
(* Display and sound with the DeviceSettings library: the questions.       *)

\* The port that the loop of SoundMode has chosen, by what it has seen.
Preferred(seen) ==
  CASE "HDMI_ARC0" \in seen -> "HDMI_ARC0"
    [] "HDMI_ARC0" \notin seen /\ "SPDIF0" \in seen -> "SPDIF0"
    [] OTHER -> Settings!Main

\* The questions to DisplayInfo.
OfDisplay == Settings!Strict \cup Settings!Capabilities \cup Settings!Lenient \cup Settings!Plain

AskKept ==
  ask = [what |-> ask.what, at |-> ask.at, port |-> ask.port, index |-> ask.index, seen |-> ask.seen,
         result |-> ask.result, value |-> ask.value]

\* While the loop goes on it has not seen ARC, and has the port it would have
\* if it ended.
PortInOrder ==
  /\ ask.at = "asked" => ask.seen = {}
  /\ ask.at = "looked" => ask.what \in OfDisplay
  /\ ask.at = "choosing" =>
       ask.what = "SoundMode" /\ ask.port = Preferred(ask.seen) /\ "HDMI_ARC0" \notin ask.seen
  /\ ask.at = "chosen" =>
       /\ ask.port \in {"HDMI0", "SPEAKER0", "SPDIF0", "HDMI_ARC0"}
       /\ ask.what = "SoundMode" => ask.port = Preferred(ask.seen)

AnswersInv == AskKept /\ PortInOrder /\ Settings!AnswersAreMeant

\* The main port is one of two, whatever the box has.
LEMMA MainPort ==
  /\ Settings!Main \in {"HDMI0", "SPEAKER0"}
  /\ \A seen : Preferred(seen) \in {"HDMI0", "SPEAKER0", "SPDIF0", "HDMI_ARC0"}
<1>1. Settings!Main \in {"HDMI0", "SPEAKER0"}
  BY DEF Settings!Main
<1>2. QED BY <1>1 DEF Preferred

\* No question to DisplayInfo is about the sound mode.
LEMMA NoSound == "SoundMode" \notin OfDisplay
BY DEF OfDisplay, Settings!Strict, Settings!OfOutput, Settings!OfEdid, Settings!Capabilities,
       Settings!Lenient, Settings!Plain

\* An answer that may be given keeps the invariant.
LEMMA AnswerGiven ==
  ASSUME AskKept, NEW code, NEW value, Settings!Answer(code, value), UNCHANGED ports,
         value = "unset" => code # "ERROR_NONE" \/ ask.what \in Settings!Lenient,
         ask.what = "SoundMode" /\ value # "UNKNOWN" => value = Preferred(ask.seen)
  PROVE  AnswersInv'
<1>1. ask' = [what |-> ask.what, at |-> "answered", port |-> ask.port, index |-> ask.index,
              seen |-> ask.seen, result |-> code, value |-> value]
  BY DEF AskKept, Settings!Answer
<1>2. /\ ask'.what = ask.what /\ ask'.at = "answered" /\ ask'.seen = ask.seen
      /\ ask'.result = code /\ ask'.value = value
  BY <1>1
<1>3. AskKept'
  BY <1>1 DEF AskKept
<1>4. PortInOrder'
  BY <1>2 DEF PortInOrder
<1>5. Settings!Main' = Settings!Main /\ Settings!Lenient' = Settings!Lenient
  BY DEF Settings!Main, Settings!Has, Settings!Lenient
<1>6. Settings!AnswersAreMeant'
  BY <1>2, <1>5 DEF Settings!AnswersAreMeant, Preferred
<1>7. QED BY <1>3, <1>4, <1>6 DEF AnswersInv

\* Nothing is answered yet: only the choice of the port matters.
LEMMA AskGoesOn ==
  ASSUME AskKept', UNCHANGED ports, ask'.at # "answered",
         ask'.at = "asked" => ask'.seen = {},
         ask'.at = "looked" => ask'.what \in OfDisplay,
         ask'.at = "choosing" => /\ ask'.what = "SoundMode" /\ ask'.port = Preferred(ask'.seen)
                                 /\ "HDMI_ARC0" \notin ask'.seen,
         ask'.at = "chosen" => /\ ask'.port \in {"HDMI0", "SPEAKER0", "SPDIF0", "HDMI_ARC0"}
                               /\ ask'.what = "SoundMode" => ask'.port = Preferred(ask'.seen)
  PROVE  AnswersInv'
<1>1. Settings!Main' = Settings!Main /\ OfDisplay' = OfDisplay
  BY DEF Settings!Main, Settings!Has, OfDisplay, Settings!Strict, Settings!OfOutput, Settings!OfEdid,
         Settings!Capabilities, Settings!Lenient, Settings!Plain
<1>2. PortInOrder'
  BY <1>1 DEF PortInOrder, Preferred
<1>3. Settings!AnswersAreMeant'
  BY DEF Settings!AnswersAreMeant
<1>4. QED BY <1>2, <1>3 DEF AnswersInv

\* A question and what is plugged meanwhile.
LEMMA QuestionStep ==
  ASSUME AnswersInv, Settings!Answers
  PROVE  AnswersInv'
<1> USE DEF AnswersInv
<1>1. UNCHANGED ports
  BY DEF Settings!Answers
<1>2. CASE UNCHANGED ask
  BY <1>1, <1>2 DEF AskKept, PortInOrder, Preferred, Settings!AnswersAreMeant, Settings!Main, Settings!Has,
                    OfDisplay, Settings!Strict, Settings!OfOutput, Settings!OfEdid,
                    Settings!Capabilities, Settings!Lenient, Settings!Plain
<1>3. CASE Settings!Ask
  <2>1. PICK what : ask' = [what |-> what, at |-> "asked", port |-> "none", index |-> 0, seen |-> {},
                            result |-> "none", value |-> "none"]
    BY <1>3 DEF Settings!Ask, Settings!NoQuestion
  <2>2. QED BY <1>1, <2>1, AskGoesOn DEF AskKept
<1>4. ASSUME ask.what \in OfDisplay, Settings!Throws(ask.what) \/ Settings!WithoutDisplay(ask.what)
      PROVE  AnswersInv'
  <2>1. \/ Settings!Answer("ERROR_GENERAL", "unset") \/ Settings!Answer("ERROR_NONE", "off")
        \/ Settings!Answer("ERROR_NONE", "no display")
        \/ ask.what \in Settings!Lenient /\ Settings!Answer("ERROR_NONE", "unset")
    BY <1>4 DEF OfDisplay, Settings!Throws, Settings!WithoutDisplay
  <2>2. ask.what # "SoundMode"
    BY <1>4, NoSound
  <2>3. CASE Settings!Answer("ERROR_GENERAL", "unset")
    BY <1>1, <2>2, <2>3, AnswerGiven
  <2>4. CASE Settings!Answer("ERROR_NONE", "off")
    BY <1>1, <2>2, <2>4, AnswerGiven
  <2>5. CASE Settings!Answer("ERROR_NONE", "no display")
    BY <1>1, <2>2, <2>5, AnswerGiven
  <2>6. CASE ask.what \in Settings!Lenient /\ Settings!Answer("ERROR_NONE", "unset")
    BY <1>1, <2>2, <2>6, AnswerGiven
  <2>7. QED BY <2>1, <2>3, <2>4, <2>5, <2>6
<1>5. CASE Settings!LooksForDisplay
  <2>1. ask.what \in OfDisplay
    BY <1>5 DEF Settings!LooksForDisplay, OfDisplay
  <2>2. CASE ask' = [ask EXCEPT !.at = "looked"]
    <3>1. ask' = [what |-> ask.what, at |-> "looked", port |-> ask.port, index |-> ask.index,
                  seen |-> ask.seen, result |-> ask.result, value |-> ask.value]
      BY <2>2 DEF AskKept
    <3>2. QED BY <1>1, <2>1, <3>1, AskGoesOn DEF AskKept
  <2>3. QED BY <1>4, <1>5, <2>1, <2>2 DEF Settings!LooksForDisplay
<1>6. CASE Settings!ReadsDisplay
  <2>1. ask.what \in OfDisplay /\ ask.what # "SoundMode"
    BY <1>6, NoSound DEF Settings!ReadsDisplay, PortInOrder
  <2>2. CASE Settings!Answer("ERROR_NONE", "read")
    BY <1>1, <2>1, <2>2, AnswerGiven
  <2>3. QED BY <1>4, <1>6, <2>1, <2>2 DEF Settings!ReadsDisplay
<1>7. CASE Settings!ChoosesPort
  <2>1. ask.seen = {}
    BY <1>7 DEF Settings!ChoosesPort, PortInOrder
  <2>2. CASE ask' = [ask EXCEPT !.at = "choosing", !.port = Settings!Main, !.index = 1]
             /\ ask.what = "SoundMode"
    <3>1. ask' = [what |-> ask.what, at |-> "choosing", port |-> Settings!Main, index |-> 1,
                  seen |-> ask.seen, result |-> ask.result, value |-> ask.value]
      BY <2>2 DEF AskKept
    <3>2. Settings!Main = Preferred(ask.seen) /\ "HDMI_ARC0" \notin ask.seen
      BY <2>1 DEF Preferred
    <3>3. QED BY <1>1, <2>2, <3>1, <3>2, AskGoesOn DEF AskKept
  <2>3. ASSUME NEW port \in {"HDMI0", "SPEAKER0", "HDMI_ARC0"}, ask.what # "SoundMode",
               ask' = [ask EXCEPT !.at = "chosen", !.port = port]
        PROVE  AnswersInv'
    <3>1. ask' = [what |-> ask.what, at |-> "chosen", port |-> port, index |-> ask.index,
                  seen |-> ask.seen, result |-> ask.result, value |-> ask.value]
      BY <2>3 DEF AskKept
    <3>2. QED BY <1>1, <2>3, <3>1, AskGoesOn DEF AskKept
  <2>4. Settings!AtmosMetadata \in {"HDMI0", "SPEAKER0", "HDMI_ARC0"}
        /\ Settings!Main \in {"HDMI0", "SPEAKER0", "HDMI_ARC0"}
    BY MainPort DEF Settings!AtmosMetadata
  <2>5. \/ ask.what = "SoundMode" /\ ask' = [ask EXCEPT !.at = "choosing", !.port = Settings!Main, !.index = 1]
        \/ ask.what # "SoundMode" /\ ask' = [ask EXCEPT !.at = "chosen", !.port = Settings!AtmosMetadata]
        \/ ask.what # "SoundMode" /\ ask' = [ask EXCEPT !.at = "chosen", !.port = Settings!Main]
    BY <1>7 DEF Settings!ChoosesPort, Settings!Audio
  <2>6. QED BY <2>2, <2>3, <2>4, <2>5
<1>8. CASE Settings!LooksAtPort
  <2>1. /\ ask.at = "choosing" /\ ask.what = "SoundMode" /\ ask.port = Preferred(ask.seen)
        /\ "HDMI_ARC0" \notin ask.seen
    BY <1>8 DEF Settings!LooksAtPort, PortInOrder
  <2>2. CASE Settings!Answer("ERROR_NONE", "UNKNOWN")
    BY <1>1, <2>2, AnswerGiven
  <2>3. CASE ask' = [ask EXCEPT !.at = "chosen"]
    <3>1. ask' = [what |-> ask.what, at |-> "chosen", port |-> ask.port, index |-> ask.index,
                  seen |-> ask.seen, result |-> ask.result, value |-> ask.value]
      BY <2>3 DEF AskKept
    <3>2. QED BY <1>1, <2>1, <3>1, MainPort, AskGoesOn DEF AskKept
  <2>4. CASE ask' = [ask EXCEPT !.index = @ + 1]
    <3>1. ask' = [what |-> ask.what, at |-> ask.at, port |-> ask.port, index |-> ask.index + 1,
                  seen |-> ask.seen, result |-> ask.result, value |-> ask.value]
      BY <2>4 DEF AskKept
    <3>2. QED BY <1>1, <2>1, <3>1, AskGoesOn DEF AskKept
  <2>5. ASSUME NEW p \in {"SPDIF0", "HDMI_ARC0"},
               ask' = [ask EXCEPT !.port = p, !.seen = @ \cup {p}, !.index = @ + 1,
                                  !.at = IF p = "HDMI_ARC0" THEN "chosen" ELSE @]
        PROVE  AnswersInv'
    <3>1. ask' = [what |-> ask.what, at |-> IF p = "HDMI_ARC0" THEN "chosen" ELSE ask.at, port |-> p,
                  index |-> ask.index + 1, seen |-> ask.seen \cup {p}, result |-> ask.result,
                  value |-> ask.value]
      BY <2>5 DEF AskKept
    <3>2. p = Preferred(ask.seen \cup {p})
      BY <2>1 DEF Preferred
    <3>3. CASE p = "HDMI_ARC0"
      <4>1. ask' = [what |-> ask.what, at |-> "chosen", port |-> p, index |-> ask.index + 1,
                    seen |-> ask.seen \cup {p}, result |-> ask.result, value |-> ask.value]
        BY <3>1, <3>3
      <4>2. QED BY <1>1, <3>2, <4>1, AskGoesOn DEF AskKept
    <3>4. CASE p = "SPDIF0"
      <4>1. ask' = [what |-> ask.what, at |-> "choosing", port |-> p, index |-> ask.index + 1,
                    seen |-> ask.seen \cup {p}, result |-> ask.result, value |-> ask.value]
        BY <2>1, <3>1, <3>4
      <4>2. "HDMI_ARC0" \notin ask.seen \cup {p}
        BY <2>1, <3>4
      <4>3. QED BY <1>1, <2>1, <3>2, <4>1, <4>2, AskGoesOn DEF AskKept
    <3>5. QED BY <3>3, <3>4
  <2>6. QED BY <1>8, <2>2, <2>3, <2>4, <2>5 DEF Settings!LooksAtPort
<1>9. CASE Settings!ReadsPort
  <2>1. /\ ask.port \in {"HDMI0", "SPEAKER0", "SPDIF0", "HDMI_ARC0"}
        /\ ask.what = "SoundMode" => ask.port = Preferred(ask.seen)
    BY <1>9 DEF Settings!ReadsPort, PortInOrder
  <2>2. /\ Settings!Heard(ask.what) # "unset"
        /\ ask.what = "SoundMode" => Settings!Heard(ask.what) \in {ask.port, "UNKNOWN"}
    <3>1. CASE ask.what = "SoundMode"
      BY <2>1, <3>1 DEF Settings!Heard, Settings!Unplugged
    <3>2. CASE ask.what # "SoundMode"
      BY <2>1, <3>2 DEF Settings!Heard, Settings!Unplugged
    <3>3. QED BY <3>1, <3>2
  <2>3. PICK value : /\ Settings!Answer("ERROR_NONE", value) /\ value # "unset"
                     /\ ask.what = "SoundMode" => value \in {ask.port, "UNKNOWN"}
    BY <1>9, <2>2 DEF Settings!ReadsPort
  <2>4. QED BY <1>1, <2>1, <2>3, AnswerGiven
<1>10. QED
  BY <1>2, <1>3, <1>5, <1>6, <1>7, <1>8, <1>9 DEF Settings!Answers, Settings!Plugged

-----------------------------------------------------------------------------
(* The events of IARM and those who hear them.                             *)

EventKinds == {"PRE_RESOLUTION_CHANGE", "POST_RESOLUTION_CHANGE", "AudioModeChanged"}

\* What there was to hear since the first n events.
Told(n) == SubSeq(handled, n + 1, Len(handled))

HearTypes ==
  /\ handler \in [at : {"none", "called", "found", "telling"}, event : EventKinds \cup {"none"}, index : Nat]
  /\ handled \in Seq(EventKinds) /\ observing \in Seq(Observers)
  /\ heard \in [Observers -> Seq(EventKinds)] /\ since \in [Observers -> Nat]

\* The event that is being told is the last that took the lock, and everyone
\* there is had registered before.
EventsInOrder ==
  /\ \A o \in Observers : since[o] <= Len(handled)
  /\ handler.at \in {"called", "found"} => handler.index = 1 /\ handler.event \in EventKinds
  /\ handler.at = "telling" =>
       /\ handler.index # 0 /\ handled # <<>> /\ handled[Len(handled)] = handler.event
       /\ \A o \in Observers : since[o] < Len(handled)

RegisteredOnce ==
  \A i, j \in 1 .. Len(observing) : observing[i] = observing[j] => i = j

\* ObserversHear, place by place.
HeardAt(i) ==
  heard[observing[i]] =
    IF handler.at = "telling" /\ i >= handler.index THEN Front(Told(since[observing[i]]))
                                                    ELSE Told(since[observing[i]])
EverybodyHears == \A i \in 1 .. Len(observing) : HeardAt(i)

HearInv == HearTypes /\ EventsInOrder /\ RegisteredOnce /\ EverybodyHears

\* Of a suffix and of a sequence without its last element.
LEMMA SuffixOf ==
  ASSUME NEW S, NEW s \in Seq(S), NEW n \in Nat, n <= Len(s)
  PROVE  LET t == SubSeq(s, n + 1, Len(s)) IN
         /\ t \in Seq(S) /\ Len(t) = Len(s) - n
         /\ \A i \in 1 .. Len(s) - n : t[i] = s[n + i]
<1> DEFINE t == SubSeq(s, n + 1, Len(s))
<1>1. /\ n + 1 \in Int /\ Len(s) \in Int /\ \A i \in n + 1 .. Len(s) : s[i] \in S
  OBVIOUS
<1>2. /\ t \in Seq(S) /\ Len(t) = IF n + 1 <= Len(s) THEN Len(s) - (n + 1) + 1 ELSE 0
      /\ \A i \in 1 .. Len(s) - (n + 1) + 1 : t[i] = s[n + 1 + i - 1]
  BY <1>1, SubSeqProperties
<1> HIDE DEF t
<1>3. /\ t \in Seq(S) /\ Len(t) = Len(s) - n /\ \A i \in 1 .. Len(s) - n : t[i] = s[n + i]
  BY <1>2
<1>4. QED BY <1>3 DEF t

LEMMA FrontOf ==
  ASSUME NEW S, NEW s \in Seq(S), s # <<>>
  PROVE  /\ Front(s) \in Seq(S) /\ Len(Front(s)) = Len(s) - 1
         /\ \A i \in 1 .. Len(s) - 1 : Front(s)[i] = s[i]
<1>1. Len(s) \in Nat /\ Len(s) > 0
  OBVIOUS
<1>2. 1 \in Int /\ Len(s) - 1 \in Int /\ \A i \in 1 .. Len(s) - 1 : s[i] \in S
  BY <1>1
<1>3. /\ Front(s) \in Seq(S) /\ Len(Front(s)) = IF 1 <= Len(s) - 1 THEN Len(s) - 1 - 1 + 1 ELSE 0
      /\ \A i \in 1 .. Len(s) - 1 - 1 + 1 : Front(s)[i] = s[1 + i - 1]
  BY <1>2, SubSeqProperties DEF Front
<1>4. \A i \in 1 .. Len(s) - 1 : i \in 1 .. Len(s) - 1 - 1 + 1 /\ 1 + i - 1 = i
  BY <1>1
<1>5. \A i \in 1 .. Len(s) - 1 : Front(s)[i] = s[i]
  BY <1>3, <1>4
<1>6. (IF 1 <= Len(s) - 1 THEN Len(s) - 1 - 1 + 1 ELSE 0) = Len(s) - 1
  <2>1. \A n \in Nat : n > 0 => (IF 1 <= n - 1 THEN n - 1 - 1 + 1 ELSE 0) = n - 1
    OBVIOUS
  <2>2. QED BY <1>1, <2>1
<1>7. Len(Front(s)) = Len(s) - 1
  BY <1>3, <1>6
<1>8. QED BY <1>3, <1>5, <1>7

LEMMA LastOfAll ==
  ASSUME NEW S, NEW s \in Seq(S), s # <<>>
  PROVE  s = Append(Front(s), s[Len(s)])
<1>1. Len(s) \in Nat \ {0} /\ s[Len(s)] \in S
  OBVIOUS
<1>2. /\ Front(s) \in Seq(S) /\ Len(Front(s)) = Len(s) - 1
      /\ \A i \in 1 .. Len(s) - 1 : Front(s)[i] = s[i]
  BY FrontOf
<1> DEFINE t == Append(Front(s), s[Len(s)])
<1>3. /\ t \in Seq(S) /\ Len(t) = Len(Front(s)) + 1
      /\ \A i \in 1 .. Len(Front(s)) : t[i] = Front(s)[i]
      /\ t[Len(Front(s)) + 1] = s[Len(s)]
  BY <1>1, <1>2, AppendProperties
<1> HIDE DEF t
<1>4. t \in Seq(S) /\ Len(t) = Len(s) /\ \A i \in 1 .. Len(s) : s[i] = t[i]
  <2>1. ASSUME NEW i \in 1 .. Len(s) PROVE s[i] = t[i]
    <3>1. CASE i = Len(s)
      BY <1>1, <1>2, <1>3, <3>1
    <3>2. CASE i # Len(s)
      BY <1>1, <1>2, <1>3, <3>2
    <3>3. QED BY <3>1, <3>2
  <2>2. QED BY <1>1, <1>2, <1>3, <2>1
<1>5. s = t
  BY <1>4, SeqEqual
<1>6. QED BY <1>5 DEF t

\* With one event more there is that to hear as well.
LEMMA OneMore ==
  ASSUME NEW S, NEW s \in Seq(S), NEW e \in S, NEW n \in Nat, n <= Len(s)
  PROVE  Front(SubSeq(Append(s, e), n + 1, Len(Append(s, e)))) = SubSeq(s, n + 1, Len(s))
<1> DEFINE a == Append(s, e)
           t == SubSeq(s, n + 1, Len(s))
           u == SubSeq(a, n + 1, Len(a))
<1>1. a \in Seq(S) /\ Len(a) = Len(s) + 1 /\ \A i \in 1 .. Len(s) : a[i] = s[i]
  BY AppendProperties
<1>2. t \in Seq(S) /\ Len(t) = Len(s) - n /\ \A i \in 1 .. Len(s) - n : t[i] = s[n + i]
  BY SuffixOf
<1> HIDE DEF a, t
<1>3. n <= Len(a) /\ Len(s) \in Nat
  BY <1>1
<1>4. u \in Seq(S) /\ Len(u) = Len(a) - n /\ \A i \in 1 .. Len(a) - n : u[i] = a[n + i]
  BY <1>1, <1>3, SuffixOf
<1> HIDE DEF u
<1>5. u # <<>>
  BY <1>1, <1>3, <1>4
<1>6. /\ Front(u) \in Seq(S) /\ Len(Front(u)) = Len(u) - 1
      /\ \A i \in 1 .. Len(u) - 1 : Front(u)[i] = u[i]
  BY <1>4, <1>5, FrontOf
<1>7. Len(Front(u)) = Len(t)
  BY <1>1, <1>2, <1>3, <1>4, <1>6
<1>8. ASSUME NEW i \in 1 .. Len(Front(u)) PROVE Front(u)[i] = t[i]
  <2>1. i \in 1 .. Len(s) - n /\ i \in 1 .. Len(a) - n /\ i \in 1 .. Len(u) - 1 /\ n + i \in 1 .. Len(s)
    BY <1>1, <1>3, <1>4, <1>6, <1>8
  <2>2. QED BY <1>1, <1>2, <1>4, <1>6, <2>1
<1>9. Front(u) = t
  BY <1>2, <1>6, <1>7, <1>8, SeqEqual
<1>10. QED BY <1>9 DEF a, t, u

\* Registering, and leaving, disturb nobody else.
LEMMA RegistersStep ==
  ASSUME HearInv, NEW o \in Observers, Settings!Register(o)
  PROVE  HearInv'
<1>1. /\ handler.at # "telling" /\ UNCHANGED <<handler, handled>>
      /\ observing' = Append(observing, o)
      /\ heard' = [heard EXCEPT ![o] = <<>>] /\ since' = [since EXCEPT ![o] = Len(handled)]
      /\ ~ \E i \in 1 .. Len(observing) : observing[i] = o
  BY DEF Settings!Register, Settings!Locked, Settings!Contains, HearInv, HearTypes
<1>2. /\ observing' \in Seq(Observers) /\ Len(observing') = Len(observing) + 1
      /\ \A i \in 1 .. Len(observing) : observing'[i] = observing[i]
      /\ observing'[Len(observing) + 1] = o
  BY <1>1, AppendProperties DEF HearInv, HearTypes
<1>3. HearTypes' /\ EventsInOrder'
  BY <1>1, <1>2 DEF HearInv, HearTypes, EventsInOrder
<1>4. RegisteredOnce'
  <2>1. ASSUME NEW i \in 1 .. Len(observing'), NEW j \in 1 .. Len(observing'),
               observing'[i] = observing'[j]
        PROVE  i = j
    <3>1. Len(observing) \in Nat
      BY DEF HearInv, HearTypes
    <3>2. i \in 1 .. Len(observing) + 1 /\ j \in 1 .. Len(observing) + 1
      BY <1>2
    <3>3. i \in 1 .. Len(observing) \cup {Len(observing) + 1}
          /\ j \in 1 .. Len(observing) \cup {Len(observing) + 1}
      BY <3>1, <3>2
    <3>4. QED BY <1>1, <1>2, <2>1, <3>3 DEF HearInv, RegisteredOnce
  <2>2. QED BY <2>1 DEF RegisteredOnce
<1>5. ASSUME NEW i \in 1 .. Len(observing') PROVE HeardAt(i)'
  <2>1. CASE i = Len(observing) + 1
    <3>1. heard'[o] = <<>> /\ since'[o] = Len(handled) /\ observing'[i] = o
      BY <1>1, <1>2, <2>1 DEF HearInv, HearTypes
    <3>2. SubSeq(handled, Len(handled) + 1, Len(handled)) = <<>>
      BY SubSeqEmpty DEF HearInv, HearTypes
    <3>3. QED BY <1>1, <3>1, <3>2 DEF HeardAt, Told
  <2>2. CASE i # Len(observing) + 1
    <3>1. i \in 1 .. Len(observing) /\ observing'[i] = observing[i] /\ observing[i] # o
      BY <1>1, <1>2, <2>2 DEF HearInv, HearTypes
    <3>2. heard'[observing[i]] = heard[observing[i]] /\ since'[observing[i]] = since[observing[i]]
      BY <1>1, <3>1 DEF HearInv, HearTypes
    <3>3. HeardAt(i)
      BY <3>1 DEF HearInv, EverybodyHears
    <3>4. QED BY <1>1, <3>1, <3>2, <3>3 DEF HeardAt, Told
  <2>3. QED BY <2>1, <2>2
<1>6. QED BY <1>3, <1>4, <1>5 DEF HearInv, EverybodyHears

\* Without one place the others follow in order.
LEMMA ErasedPlace ==
  ASSUME NEW S, NEW s \in Seq(S), NEW k \in 1 .. Len(s)
  PROVE  /\ RemoveAt(s, k) \in Seq(S) /\ Len(RemoveAt(s, k)) = Len(s) - 1
         /\ \A i \in 1 .. Len(s) - 1 : RemoveAt(s, k)[i] = IF i < k THEN s[i] ELSE s[i + 1]
<1> DEFINE t == SubSeq(s, 1, k - 1)
           u == SubSeq(s, k + 1, Len(s))
<1>1. /\ 1 \in Int /\ k - 1 \in Int /\ k \in Nat /\ k <= Len(s) /\ Len(s) \in Nat /\ k >= 1
      /\ \A i \in 1 .. k - 1 : s[i] \in S
  OBVIOUS
<1>2. /\ t \in Seq(S) /\ Len(t) = IF 1 <= k - 1 THEN k - 1 - 1 + 1 ELSE 0
      /\ \A i \in 1 .. k - 1 - 1 + 1 : t[i] = s[1 + i - 1]
  BY <1>1, SubSeqProperties
<1>3. /\ u \in Seq(S) /\ Len(u) = Len(s) - k /\ \A i \in 1 .. Len(s) - k : u[i] = s[k + i]
  BY <1>1, SuffixOf
<1> HIDE DEF t, u
<1>4. (IF 1 <= k - 1 THEN k - 1 - 1 + 1 ELSE 0) = k - 1 /\ k - 1 - 1 + 1 = k - 1
  BY <1>1
<1>5. Len(t) = k - 1 /\ \A i \in 1 .. k - 1 : t[i] = s[i]
  <2>1. Len(t) = k - 1
    BY <1>2, <1>4
  <2>2. \A i \in 1 .. k - 1 : i \in 1 .. k - 1 - 1 + 1 /\ 1 + i - 1 = i
    BY <1>1
  <2>3. QED BY <1>2, <2>1, <2>2
<1>6. /\ t \o u \in Seq(S) /\ Len(t \o u) = Len(t) + Len(u)
      /\ \A i \in 1 .. Len(t) + Len(u) : (t \o u)[i] = IF i <= Len(t) THEN t[i] ELSE u[i - Len(t)]
  BY <1>2, <1>3, ConcatProperties
<1>7. Len(t \o u) = Len(s) - 1
  BY <1>1, <1>3, <1>5, <1>6
<1>8. ASSUME NEW i \in 1 .. Len(s) - 1 PROVE (t \o u)[i] = IF i < k THEN s[i] ELSE s[i + 1]
  <2>1. (t \o u)[i] = IF i <= k - 1 THEN t[i] ELSE u[i - (k - 1)]
    BY <1>1, <1>3, <1>5, <1>6
  <2>2. CASE i < k
    BY <1>1, <1>5, <2>1, <2>2
  <2>3. CASE i >= k
    <3>1. i - (k - 1) \in 1 .. Len(s) - k /\ k + (i - (k - 1)) = i + 1
      BY <1>1, <2>3
    <3>2. QED BY <1>1, <1>3, <2>1, <2>3, <3>1
  <2>4. i < k \/ i >= k
    BY <1>1
  <2>5. QED BY <2>2, <2>3, <2>4
<1>9. RemoveAt(s, k) = t \o u
  BY DEF RemoveAt, t, u
<1>10. QED BY <1>6, <1>7, <1>8, <1>9

LEMMA UnregistersStep ==
  ASSUME HearInv, NEW o \in Observers, Settings!Unregister(o)
  PROVE  HearInv'
<1>1. PICK k \in 1 .. Len(observing) : observing' = Settings!RemoveAt(observing, k)
  BY DEF Settings!Unregister
<1>2. handler.at # "telling" /\ UNCHANGED <<handler, handled, heard, since>>
  BY DEF Settings!Unregister, Settings!Locked
<1>3. observing' = RemoveAt(observing, k)
  BY <1>1 DEF RemoveAt, Settings!RemoveAt
<1>4. /\ observing' \in Seq(Observers) /\ Len(observing') = Len(observing) - 1
      /\ \A i \in 1 .. Len(observing) - 1 :
           observing'[i] = IF i < k THEN observing[i] ELSE observing[i + 1]
  <2>1. observing \in Seq(Observers)
    BY DEF HearInv, HearTypes
  <2>2. QED BY <1>3, <2>1, ErasedPlace
<1>5. HearTypes' /\ EventsInOrder'
  BY <1>2, <1>4 DEF HearInv, HearTypes, EventsInOrder
<1>6. k \in Nat /\ Len(observing) \in Nat
  BY <1>1 DEF HearInv, HearTypes
<1>7. RegisteredOnce'
  <2>1. ASSUME NEW i \in 1 .. Len(observing'), NEW j \in 1 .. Len(observing'),
               observing'[i] = observing'[j]
        PROVE  i = j
    BY <1>4, <1>6, <2>1 DEF HearInv, RegisteredOnce
  <2>2. QED BY <2>1 DEF RegisteredOnce
<1>8. ASSUME NEW i \in 1 .. Len(observing') PROVE HeardAt(i)'
  <2>1. PICK j \in 1 .. Len(observing) : observing'[i] = observing[j]
    BY <1>4, <1>6
  <2>2. HeardAt(j)
    BY DEF HearInv, EverybodyHears
  <2>3. QED BY <1>2, <2>1, <2>2 DEF HeardAt, Told
<1>9. QED BY <1>5, <1>7, <1>8 DEF HearInv, EverybodyHears

\* An event comes, takes the lock and goes from place to place.
LEMMA HandlerStep ==
  ASSUME HearInv, Settings!Raised \/ Settings!Looks \/ Settings!Locks \/ Settings!Tells
  PROVE  HearInv'
<1>1. UNCHANGED <<observing, since>> /\ RegisteredOnce'
  BY DEF Settings!Raised, Settings!Looks, Settings!Locks, Settings!Tells, HearInv, RegisteredOnce
<1>2. CASE UNCHANGED <<handler, handled, heard>>
  BY <1>1, <1>2 DEF HearInv, HearTypes, EventsInOrder, EverybodyHears, HeardAt, Told
<1>3. CASE /\ handler.at # "telling" /\ UNCHANGED <<handled, heard>>
           /\ handler' \in [at : {"none", "called", "found"}, event : EventKinds \cup {"none"}, index : Nat]
           /\ handler'.at # "none" => handler'.index = 1 /\ handler'.event \in EventKinds
  <2>1. HearTypes' /\ EventsInOrder'
    BY <1>1, <1>3 DEF HearInv, HearTypes, EventsInOrder
  <2>2. handler'.at # "telling"
    BY <1>3
  <2>3. EverybodyHears'
    BY <1>1, <1>3, <2>2 DEF HearInv, EverybodyHears, HeardAt, Told
  <2>4. QED BY <1>1, <2>1, <2>3 DEF HearInv
<1>4. CASE Settings!Raised \/ Settings!Looks
  <2>1. /\ handler.at # "telling" /\ UNCHANGED <<handled, heard>>
        /\ handler' \in [at : {"none", "called", "found"}, event : EventKinds \cup {"none"}, index : Nat]
        /\ handler'.at # "none" => handler'.index = 1 /\ handler'.event \in EventKinds
    BY <1>4 DEF Settings!Raised, Settings!Looks, Settings!Resting, Settings!Kinds, EventKinds,
                HearInv, HearTypes, EventsInOrder
  <2>2. QED BY <1>3, <2>1
<1>5. CASE /\ handler.at = "found" /\ handler' = [handler EXCEPT !.at = "telling"]
           /\ handled' = Append(handled, handler.event) /\ UNCHANGED heard
  <2>1. /\ handler.event \in EventKinds /\ handler.index = 1
        /\ handler' \in [at : {"telling"}, event : EventKinds, index : Nat]
        /\ handler'.at = "telling" /\ handler'.index = 1 /\ handler'.event = handler.event
    BY <1>5 DEF HearInv, HearTypes, EventsInOrder
  <2>2. /\ handled' \in Seq(EventKinds) /\ Len(handled') = Len(handled) + 1 /\ handled' # <<>>
        /\ handled'[Len(handled) + 1] = handler.event /\ Len(handled) \in Nat
    BY <1>5, <2>1, AppendProperties DEF HearInv, HearTypes
  <2>3. HearTypes'
    BY <1>1, <1>5, <2>1, <2>2 DEF HearInv, HearTypes
  <2>4. EventsInOrder'
    BY <1>1, <2>1, <2>2 DEF HearInv, HearTypes, EventsInOrder
  <2>5. ASSUME NEW i \in 1 .. Len(observing) PROVE HeardAt(i)'
    <3>1. observing[i] \in Observers /\ since[observing[i]] \in Nat /\ since[observing[i]] <= Len(handled)
      BY DEF HearInv, HearTypes, EventsInOrder
    <3>2. heard[observing[i]] = Told(since[observing[i]])
      BY <1>5 DEF HearInv, EverybodyHears, HeardAt
    <3>3. Front(SubSeq(handled', since[observing[i]] + 1, Len(handled')))
            = SubSeq(handled, since[observing[i]] + 1, Len(handled))
      <4>1. handled \in Seq(EventKinds) /\ handled' = Append(handled, handler.event)
        BY <1>5 DEF HearInv, HearTypes
      <4>2. QED BY <2>1, <3>1, <4>1, OneMore
    <3>4. i >= handler'.index
      BY <2>1
    <3>5. QED BY <1>1, <1>5, <2>1, <3>2, <3>3, <3>4 DEF HeardAt, Told
  <2>6. QED BY <1>1, <2>3, <2>4, <2>5 DEF HearInv, EverybodyHears
<1>6. CASE Settings!Locks
  BY <1>2, <1>5, <1>6 DEF Settings!Locks
<1>7. CASE /\ handler.at = "telling" /\ handler.index > Len(observing)
           /\ handler' = Settings!Resting /\ UNCHANGED <<handled, heard>>
  <2>1. handler'.at = "none" /\ handler' \in [at : {"none"}, event : {"none"}, index : Nat]
    BY <1>7 DEF Settings!Resting
  <2>2. HearTypes' /\ EventsInOrder'
    BY <1>1, <1>7, <2>1 DEF HearInv, HearTypes, EventsInOrder
  <2>3. handler.index \in Nat /\ Len(observing) \in Nat
    BY DEF HearInv, HearTypes
  <2>4. ASSUME NEW i \in 1 .. Len(observing) PROVE HeardAt(i)'
    <3>1. ~(i >= handler.index) /\ HeardAt(i)
      BY <1>7, <2>3 DEF HearInv, EverybodyHears
    <3>2. QED BY <1>1, <1>7, <2>1, <3>1 DEF HeardAt, Told
  <2>5. QED BY <1>1, <2>2, <2>4 DEF HearInv, EverybodyHears
<1>8. CASE /\ handler.at = "telling" /\ handler.index <= Len(observing)
           /\ heard' = [heard EXCEPT ![observing[handler.index]] = Append(@, handler.event)]
           /\ handler' = [handler EXCEPT !.index = @ + 1] /\ UNCHANGED handled
  <2> DEFINE k == handler.index
             o == observing[handler.index]
  <2>1. /\ k \in 1 .. Len(observing) /\ k \in Nat /\ Len(observing) \in Nat
        /\ o \in Observers /\ handler.event = handled[Len(handled)]
        /\ handler.event \in EventKinds /\ handled # <<>> /\ handled \in Seq(EventKinds)
        /\ since[o] \in Nat /\ since[o] < Len(handled) /\ Len(handled) \in Nat
    BY <1>8 DEF HearInv, HearTypes, EventsInOrder
  <2> HIDE DEF o
  <2>2. /\ handler' \in [at : {"telling"}, event : EventKinds, index : Nat]
        /\ handler'.at = "telling" /\ handler'.index = k + 1 /\ handler'.event = handler.event
    <3>1. handler \in [at : {"telling"}, event : EventKinds, index : Nat]
      BY <1>8, <2>1 DEF HearInv, HearTypes
    <3>2. QED BY <1>8, <3>1
  <2>3. heard[o] = Front(Told(since[o]))
    BY <1>8, <2>1 DEF HearInv, EverybodyHears, HeardAt, o
  <2>4. /\ Told(since[o]) \in Seq(EventKinds) /\ Len(Told(since[o])) = Len(handled) - since[o]
        /\ \A i \in 1 .. Len(handled) - since[o] : Told(since[o])[i] = handled[since[o] + i]
    <3>1. since[o] <= Len(handled)
      BY <2>1
    <3>2. QED BY <2>1, <3>1, SuffixOf DEF Told
  <2>5. Told(since[o]) # <<>> /\ Told(since[o])[Len(Told(since[o]))] = handler.event
    <3> DEFINE n == Len(handled) - since[o]
    <3>1. n \in 1 .. Len(handled) - since[o] /\ since[o] + n = Len(handled) /\ n # 0
      BY <2>1
    <3>2. Told(since[o])[n] = handled[Len(handled)]
      BY <2>4, <3>1
    <3>3. Told(since[o]) # <<>>
      BY <2>4, <3>1
    <3>4. QED BY <2>1, <2>4, <3>2, <3>3
  <2>6. Append(heard[o], handler.event) = Told(since[o])
    BY <2>3, <2>4, <2>5, LastOfAll
  <2>7. heard' = [heard EXCEPT ![o] = Told(since[o])]
    BY <1>8, <2>6 DEF o
  <2>8. HearTypes'
    <3>1. heard \in [Observers -> Seq(EventKinds)]
      BY DEF HearInv, HearTypes
    <3>2. heard' \in [Observers -> Seq(EventKinds)]
      BY <2>1, <2>4, <2>7, <3>1
    <3>3. QED BY <1>1, <1>8, <2>2, <3>2 DEF HearInv, HearTypes
  <2>9. EventsInOrder'
    <3>1. /\ \A p \in Observers : since[p] < Len(handled) /\ since[p] <= Len(handled)
          /\ handled' = handled /\ since' = since
      BY <1>1, <1>8 DEF HearInv, EventsInOrder
    <3>2. /\ handler'.index # 0 /\ handler'.event = handled'[Len(handled')]
          /\ handled' # <<>> /\ handler'.at \notin {"called", "found"}
      BY <2>1, <2>2, <3>1
    <3>3. QED BY <3>1, <3>2 DEF EventsInOrder
  <2>10. ASSUME NEW i \in 1 .. Len(observing) PROVE HeardAt(i)'
    <3>1. HeardAt(i) /\ observing[i] \in Observers
      BY DEF HearInv, HearTypes, EverybodyHears
    <3>2. CASE i = k
      <4>1. heard'[o] = Told(since[o]) /\ observing'[i] = o /\ since'[o] = since[o]
        BY <1>1, <2>1, <2>7, <3>2 DEF HearInv, HearTypes, o
      <4>2. ~(i >= handler'.index)
        BY <2>1, <2>2, <3>2
      <4>3. QED BY <1>8, <4>1, <4>2 DEF HeardAt, Told
    <3>3. CASE i # k
      <4>1. observing[i] # o
        BY <2>1, <3>3 DEF HearInv, RegisteredOnce, o
      <4>2. heard'[observing[i]] = heard[observing[i]]
        BY <2>7, <3>1, <4>1 DEF HearInv, HearTypes
      <4>3. (i >= k + 1) <=> (i >= k)
        BY <2>1, <3>3
      <4>4. QED BY <1>1, <1>8, <2>2, <3>1, <4>2, <4>3 DEF HeardAt, Told
    <3>4. QED BY <3>2, <3>3
  <2>11. QED BY <1>1, <2>8, <2>9, <2>10 DEF HearInv, EverybodyHears
<1>9. CASE Settings!Tells
  <2>1. handler.index \in Nat /\ Len(observing) \in Nat
    BY DEF HearInv, HearTypes
  <2>2. CASE object = "gone"
    BY <1>2, <1>9, <2>2 DEF Settings!Tells
  <2>3. CASE object # "gone"
    BY <1>7, <1>8, <1>9, <2>1, <2>3 DEF Settings!Tells
  <2>4. QED BY <2>2, <2>3
<1>10. QED BY <1>4, <1>6, <1>9

\* The plugin object comes and goes, or nothing moves: what is heard is so.
LEMMA NobodyHears ==
  ASSUME HearInv, UNCHANGED <<handler, observing, handled, heard, since>>
  PROVE  HearInv'
BY DEF HearInv, HearTypes, EventsInOrder, RegisteredOnce, EverybodyHears, HeardAt, Told

-----------------------------------------------------------------------------
(* The codecs.                                                             *)

CodecsInv ==
  /\ cap \in Nat \ {0} /\ codecs \in Seq({Caps[i].codec : i \in Nat}) /\ registry \in Registries
  /\ Codecs!CodecsArePlayable

\* A codec is listed once or more if it can be played, and else not.
LEMMA ListedIfPlayable ==
  ASSUME registry \in Registries, NEW formats
  PROVE  Codecs!Times(formats) \in Nat /\ (Codecs!Times(formats) # 0 <=> Codecs!Playable(formats))
<1> DEFINE parsers == Codecs!GstRegistryGetElementForMediaType(registry.parsers, formats)
           Follows(sources) == Codecs!GstRegistryGetElementForMediaType(registry.decoders, sources) # {}
           Pads(p) == {k \in DOMAIN p.sources : Follows(p.sources[k])}
           f == [p \in parsers |-> {p} \X Pads(p)]
           Pairs == {{p} \X Pads(p) : p \in parsers}
<1>1. IsFiniteSet(parsers) /\ \A p \in parsers : IsFiniteSet(DOMAIN p.sources)
  <2>1. parsers \subseteq registry.parsers
    BY DEF Codecs!GstRegistryGetElementForMediaType
  <2>2. IsFiniteSet(registry.parsers) /\ \A p \in registry.parsers : IsFiniteSet(DOMAIN p.sources)
    BY RegistryAssumption
  <2>3. QED BY <2>1, <2>2, FS_Subset
<1>2. ASSUME NEW p \in parsers PROVE IsFiniteSet({p} \X Pads(p))
  <2>1. IsFiniteSet({p})
    BY FS_Singleton
  <2>2. IsFiniteSet(Pads(p))
    BY <1>1, FS_Subset
  <2>3. QED BY <2>1, <2>2, FS_Product
<1>3. IsFiniteSet(Pairs)
  <2>1. f \in Surjection(parsers, Pairs)
    BY DEF Surjection
  <2>2. QED BY <1>1, <2>1, FS_Surjection
<1>4. Codecs!Parsed(formats) = UNION Pairs
  BY DEF Codecs!Parsed
<1>5. IsFiniteSet(Codecs!Parsed(formats))
  <2>1. \A t \in Pairs : IsFiniteSet(t)
    BY <1>2
  <2>2. IsFiniteSet(UNION Pairs)
    BY <1>3, <2>1, FS_UNION
  <2>3. QED BY <1>4, <2>2
<1>6. /\ Cardinality(Codecs!Parsed(formats)) \in Nat
      /\ Cardinality(Codecs!Parsed(formats)) = 0 <=> Codecs!Parsed(formats) = {}
  BY <1>5, FS_CardinalityType, FS_EmptySet
<1>7. Codecs!Parsed(formats) # {} <=>
        \E d \in registry.decoders, p \in registry.parsers :
          (\E m \in formats : m \in p.sinks) /\ \E s \in Codecs!ToSet(p.sources) : s \cap d.sinks # {}
  <2>1. Codecs!Parsed(formats) # {} <=> \E p \in parsers : Pads(p) # {}
    <3> HIDE DEF parsers, Pads
    <3>1. ASSUME NEW p \in parsers, NEW k \in Pads(p) PROVE Codecs!Parsed(formats) # {}
      <4>1. <<p, k>> \in {p} \X Pads(p)
        OBVIOUS
      <4>2. QED BY <1>4, <4>1
    <3>2. ASSUME NEW e \in UNION Pairs PROVE \E p \in parsers : Pads(p) # {}
      <4>1. PICK p \in parsers : e \in {p} \X Pads(p)
        OBVIOUS
      <4>2. QED BY <4>1
    <3>3. QED BY <1>4, <3>1, <3>2
  <2>2. \A p : Pads(p) # {} <=> \E d \in registry.decoders : \E s \in Codecs!ToSet(p.sources) : s \cap d.sinks # {}
    BY DEF Codecs!GstRegistryGetElementForMediaType, Codecs!ToSet
  <2>3. \A p : p \in parsers <=> p \in registry.parsers /\ \E m \in formats : m \in p.sinks
    BY DEF Codecs!GstRegistryGetElementForMediaType
  <2> HIDE DEF parsers, Pads
  <2>4. QED BY <2>1, <2>2, <2>3
<1>8. Follows(formats) <=> \E d \in registry.decoders : \E m \in formats : m \in d.sinks
  BY DEF Codecs!GstRegistryGetElementForMediaType
<1>9. Codecs!Times(formats) = IF Follows(formats) THEN 1 ELSE Cardinality(Codecs!Parsed(formats))
  <2>1. Codecs!Cardinality(Codecs!Parsed(formats)) = Cardinality(Codecs!Parsed(formats))
    BY DEF Cardinality, Codecs!Cardinality
  <2>2. QED BY <2>1 DEF Codecs!Times
<1> HIDE DEF Follows, parsers, Pads, Pairs, f
<1>10. Codecs!Playable(formats) <=> Follows(formats) \/ Codecs!Parsed(formats) # {}
  BY <1>7, <1>8 DEF Codecs!Playable
<1>11. QED BY <1>6, <1>9, <1>10

LEMMA CodecsStep ==
  ASSUME CodecsInv, Codecs!Next
  PROVE  CodecsInv'
<1> DEFINE S == {Caps[i].codec : i \in Nat}
           c == Caps[cap].codec
           n == Codecs!Times(Caps[cap].formats)
           r == [k \in 1 .. n |-> c]
           Listed(j) == Codecs!Playable(Caps[j].formats)
<1>1. cap' = cap + 1 /\ codecs' = codecs \o r /\ UNCHANGED registry
  BY DEF Codecs!Next, Codecs!GstRegistryCheckElementsForMediaTypes
<1>2. n \in Nat /\ (n # 0 <=> Listed(cap))
  BY ListedIfPlayable DEF CodecsInv
<1>3. cap \in Nat \ {0} /\ c \in S /\ codecs \in Seq(S)
  BY DEF CodecsInv
<1> HIDE DEF c, n, S
<1>4. r \in Seq(S) /\ Len(r) = n /\ \A k \in 1 .. n : r[k] = c
  BY <1>2, <1>3
<1> HIDE DEF r
<1>5. /\ codecs' \in Seq(S) /\ Len(codecs') = Len(codecs) + n
      /\ \A i \in 1 .. Len(codecs) + n : codecs'[i] = IF i <= Len(codecs) THEN codecs[i] ELSE r[i - Len(codecs)]
  BY <1>1, <1>3, <1>4, ConcatProperties
<1>6. Len(codecs) \in Nat /\ DOMAIN codecs = 1 .. Len(codecs) /\ DOMAIN codecs' = 1 .. Len(codecs')
  BY <1>3, <1>5
<1>7. Codecs!ToSet(codecs)' = Codecs!ToSet(codecs) \cup IF n # 0 THEN {c} ELSE {}
  <2>1. ASSUME NEW i \in 1 .. Len(codecs) PROVE codecs[i] = codecs'[i] /\ i \in 1 .. Len(codecs')
    BY <1>2, <1>5, <1>6
  <2>2. ASSUME NEW i \in 1 .. Len(codecs'), ~(i <= Len(codecs)) PROVE n # 0 /\ codecs'[i] = c
    <3>1. i - Len(codecs) \in 1 .. n
      BY <1>2, <1>5, <1>6, <2>2
    <3>2. QED BY <1>2, <1>4, <1>5, <2>2, <3>1
  <2>3. n # 0 => Len(codecs) + 1 \in 1 .. Len(codecs') /\ codecs'[Len(codecs) + 1] = c
    <3>1. n # 0 => Len(codecs) + 1 \in 1 .. Len(codecs') /\ ~(Len(codecs) + 1 <= Len(codecs))
      BY <1>2, <1>5, <1>6
    <3>2. QED BY <2>2, <3>1
  <2>4. ASSUME NEW i \in 1 .. Len(codecs')
        PROVE  i \in 1 .. Len(codecs) \/ ~(i <= Len(codecs))
    BY <1>6
  <2>5. Codecs!ToSet(codecs)' = {codecs'[i] : i \in 1 .. Len(codecs')}
        /\ Codecs!ToSet(codecs) = {codecs[i] : i \in 1 .. Len(codecs)}
    BY <1>6 DEF Codecs!ToSet
  <2>6. ASSUME NEW e \in Codecs!ToSet(codecs)'
        PROVE  e \in Codecs!ToSet(codecs) \cup IF n # 0 THEN {c} ELSE {}
    BY <2>1, <2>2, <2>4, <2>5
  <2>7. ASSUME NEW e \in Codecs!ToSet(codecs) \cup IF n # 0 THEN {c} ELSE {}
        PROVE  e \in Codecs!ToSet(codecs)'
    BY <2>1, <2>3, <2>5
  <2>8. QED BY <2>6, <2>7
<1>8. \A j : Codecs!Playable(Caps[j].formats)' = Listed(j)
  BY <1>1 DEF Codecs!Playable, Codecs!ToSet
<1> HIDE DEF Listed
<1>9. Codecs!ToSet(codecs) = {Caps[i].codec : i \in {j \in 1 .. cap - 1 : Listed(j)}}
  BY DEF CodecsInv, Codecs!CodecsArePlayable, Listed
<1>10. Codecs!ToSet(codecs)' = {Caps[i].codec : i \in {j \in 1 .. cap : Listed(j)}}
  <2>1. \A j : j \in 1 .. cap <=> j \in 1 .. cap - 1 \/ j = cap
    BY <1>3
  <2>2. QED BY <1>2, <1>7, <1>9, <2>1 DEF c
<1>11. cap' - 1 = cap /\ cap' \in Nat \ {0}
  BY <1>1, <1>3
<1>12. Codecs!CodecsArePlayable'
  BY <1>8, <1>10, <1>11 DEF Codecs!CodecsArePlayable
<1>13. QED BY <1>1, <1>5, <1>11, <1>12 DEF CodecsInv, S

\* What the three plugins answer of display and sound: DisplayInfo on Linux has
\* it as it is once its threads are at rest; with the DeviceSettings library everyone
\* who registered heard every event since, once and in order, and an answer is
\* of the port that is meant; the codecs that are listed can be played.
THEOREM DisplayAndSoundStayKnown == MCSpec => []DisplayAndSoundAreKnown
<1>1. MCInit => AnswersInv /\ HearInv /\ CodecsInv
  <2> SUFFICES ASSUME MCInit PROVE AnswersInv /\ HearInv /\ CodecsInv
    OBVIOUS
  <2>1. /\ ask = Settings!NoQuestion /\ handler = Settings!Resting /\ handled = <<>> /\ observing = <<>>
        /\ heard = [o \in Observers |-> <<>>] /\ since = [o \in Observers |-> 0]
        /\ registry \in Registries /\ cap = 1 /\ codecs = <<>>
    BY DEF MCInit, Settings!Init, Codecs!Init
  <2>2. AnswersInv
    BY <2>1 DEF AnswersInv, AskKept, PortInOrder, Settings!AnswersAreMeant, Settings!NoQuestion
  <2>3. HearInv
    <3>1. HearTypes
      BY <2>1 DEF HearTypes, Settings!Resting
    <3>2. EventsInOrder /\ RegisteredOnce /\ EverybodyHears
      BY <2>1 DEF EventsInOrder, RegisteredOnce, EverybodyHears, Settings!Resting
    <3>3. QED BY <3>1, <3>2 DEF HearInv
  <2>4. CodecsInv
    <3>1. Codecs!ToSet(codecs) = {} /\ \A j : j \notin 1 .. cap - 1
      BY <2>1 DEF Codecs!ToSet
    <3>2. QED BY <2>1, <3>1 DEF CodecsInv, Codecs!CodecsArePlayable
  <2>5. QED BY <2>2, <2>3, <2>4
<1>2. ASSUME AnswersInv, HearInv, CodecsInv,
             [MCNext]_<<group, agentVars, pluginVars, otherVars, mediaVars>>
      PROVE  (AnswersInv /\ HearInv /\ CodecsInv)'
  <2>1. /\ Settings!Events \/ Settings!Construct \/ Settings!Answers \/ UNCHANGED settingsVars
        /\ Codecs!Next \/ UNCHANGED codecVars
    BY <1>2 DEF MCNext, mediaVars
  <2>2. AnswersInv'
    <3>1. CASE Settings!Answers
      BY <1>2, <3>1, QuestionStep
    <3>2. CASE UNCHANGED <<ports, ask>>
      BY <1>2, <3>2 DEF AnswersInv, AskKept, PortInOrder, Preferred, Settings!AnswersAreMeant,
                        Settings!Main, Settings!Has, OfDisplay, Settings!Strict, Settings!OfOutput,
                        Settings!OfEdid, Settings!Capabilities, Settings!Lenient, Settings!Plain
    <3>3. QED
      BY <2>1, <3>1, <3>2 DEF settingsVars, Settings!Events, Settings!Construct, Settings!Destruct,
         Settings!Raised, Settings!Looks, Settings!Locks, Settings!Tells, Settings!Register,
         Settings!Unregister, Settings!answerVars
  <2>3. HearInv'
    <3>1. CASE UNCHANGED <<handler, observing, handled, heard, since>>
      BY <1>2, <3>1, NobodyHears
    <3>2. CASE Settings!Events
      BY <1>2, <3>1, <3>2, RegistersStep, UnregistersStep, HandlerStep
         DEF Settings!Events, Settings!Construct, Settings!Destruct
    <3>3. QED
      BY <2>1, <3>1, <3>2 DEF settingsVars, Settings!Construct, Settings!Answers, Settings!eventVars
  <2>4. CodecsInv'
    <3>1. CASE UNCHANGED codecVars
      BY <1>2, <3>1 DEF codecVars, CodecsInv, Codecs!CodecsArePlayable, Codecs!Playable, Codecs!ToSet
    <3>2. QED BY <1>2, <2>1, <3>1, CodecsStep
  <2>5. QED BY <2>2, <2>3, <2>4
<1>3. ASSUME AnswersInv, HearInv, CodecsInv
      PROVE  Settings!SettingsAreTold /\ Codecs!CodecsArePlayable
  <2>1. ASSUME NEW i \in 1 .. Len(observing)
        PROVE  heard[observing[i]]
                 = IF Settings!Locked /\ i >= handler.index THEN Front(Told(since[observing[i]]))
                                                            ELSE Told(since[observing[i]])
    BY <1>3 DEF HearInv, EverybodyHears, HeardAt, Settings!Locked
  <2>2. Settings!ObserversHear
    BY <2>1 DEF Settings!ObserversHear, Told, Front
  <2>3. QED BY <1>3, <2>2 DEF AnswersInv, CodecsInv, Settings!SettingsAreTold
<1>4. Display!FreshAtRest /\ Display!ExtractNeverWaits /\ Settings!SettingsAreTold
      /\ Codecs!CodecsArePlayable => DisplayAndSoundAreKnown
  BY DEF DisplayAndSoundAreKnown, Display!DisplayIsKnown
<1>5. QED BY <1>1, <1>2, <1>3, <1>4, DisplayStaysKnown, PTL DEF MCSpec

-----------------------------------------------------------------------------
(* The library of RustBridge.                                              *)

\* The directories that were tried hold no complete library, and what is loaded
\* is from the one tried last.
SearchInOrder ==
  /\ next \in Nat \ {0} /\ \A p \in 1 .. next - 1 : ~Library!Complete(p)
  /\ library \in {0, next}
  /\ library # 0 => functions = library /\ Library!Complete(library)

Serving == library # 0 /\ registered = Methods /\ callback /\ held = 1
Unserving == ~callback /\ held = 0

\* The callback is there from Configure to the end, its reference from the
\* moment the plugin is there.
ConnectorInOrder ==
  /\ at \in {"new", "loading", "creating", "created", "configured", "refused", "gone", "crashed"}
  /\ at = "new" => Unserving /\ library = 0 /\ result # "ERROR_NONE"
  /\ at = "loading" => callback /\ held = 0 /\ library = 0 /\ result # "ERROR_NONE"
  /\ at \in {"creating", "created"} => callback /\ held = 0 /\ library # 0 /\ result = "ERROR_NONE"
  /\ at = "created" => registered = Methods
  /\ at = "configured" => rust = "alive" /\ result = "ERROR_NONE"
  /\ at = "refused" => Unserving /\ result # "ERROR_NONE"
  /\ at = "gone" => Unserving /\ library = 0
  /\ at = "crashed" => rust = "alive" \/ Unserving
  /\ rust = "alive" => Serving /\ at \in {"configured", "crashed"}

LibraryInv == SearchInOrder /\ ConnectorInOrder

\* A directory is tried.
LEMMA SearchStep ==
  ASSUME LibraryInv, Library!LoadLibrary
  PROVE  LibraryInv'
<1>1. /\ at = "loading" /\ result' = Library!LoadResult(next)
      /\ UNCHANGED <<place, rust, callback, held, inside, received, registered, pending, replies>>
      /\ IF Library!Complete(next)
         THEN library' = next /\ functions' = next /\ at' = "creating" /\ UNCHANGED next
         ELSE next' = next + 1 /\ UNCHANGED <<library, at>>
  BY DEF Library!LoadLibrary, Library!frontVars
<1>2. /\ next \in Nat \ {0} /\ \A p \in 1 .. next - 1 : ~Library!Complete(p)
      /\ library = 0 /\ callback /\ held = 0 /\ rust # "alive"
  BY <1>1 DEF LibraryInv, SearchInOrder, ConnectorInOrder
<1>3. \A p : Library!Complete(p)' = Library!Complete(p)
  BY <1>1 DEF Library!Complete, Library!LoadResult
<1>4. Library!Complete(next) <=> result' = "ERROR_NONE"
  BY <1>1 DEF Library!Complete
<1>5. CASE Library!Complete(next)
  BY <1>1, <1>2, <1>3, <1>4, <1>5 DEF LibraryInv, SearchInOrder, ConnectorInOrder, Unserving, Serving
<1>6. CASE ~Library!Complete(next)
  <2>1. next' = next + 1 /\ UNCHANGED <<library, at>>
    BY <1>1, <1>6
  <2>2. \A p \in 1 .. next' - 1 : p \in 1 .. next - 1 \/ p = next
    BY <1>2, <2>1
  <2>3. SearchInOrder'
    BY <1>2, <1>3, <1>6, <2>1, <2>2 DEF SearchInOrder
  <2>4. ConnectorInOrder'
    BY <1>1, <1>2, <1>4, <1>6, <2>1 DEF ConnectorInOrder, Unserving, Serving
  <2>5. QED BY <2>3, <2>4 DEF LibraryInv
<1>7. QED BY <1>5, <1>6

LEMMA LibraryStep ==
  ASSUME LibraryInv, Library!Next \/ UNCHANGED rustVars
  PROVE  LibraryInv'
<1> USE DEF LibraryInv, ConnectorInOrder, Unserving, Serving
<1>1. ASSUME UNCHANGED <<place, next, library, functions>> PROVE SearchInOrder'
  <2>1. \A p : Library!Complete(p)' = Library!Complete(p)
    BY <1>1 DEF Library!Complete, Library!LoadResult
  <2>2. QED BY <1>1, <2>1 DEF SearchInOrder
<1>2. CASE Library!Configure
  <2>1. ConnectorInOrder'
    BY <1>2 DEF Library!Configure, Library!connector, Library!frontVars
  <2>2. QED BY <1>1, <1>2, <2>1 DEF Library!Configure, Library!connector
<1>3. CASE Library!LoadLibrary
  BY <1>3, SearchStep
<1>4. CASE Library!NotFound
  <2>1. ConnectorInOrder'
    BY <1>4 DEF Library!NotFound, Library!Refused, Library!connector, Library!frontVars
  <2>2. QED BY <1>1, <1>4, <2>1 DEF Library!NotFound, Library!connector
<1>5. CASE Library!Creates
  <2>1. ConnectorInOrder'
    BY <1>5 DEF Library!Creates, Library!Refused, Library!InternalMessage
  <2>2. QED BY <1>1, <1>5, <2>1 DEF Library!Creates
<1>6. CASE Library!Created
  <2>1. ConnectorInOrder'
    BY <1>6 DEF Library!Created, Library!frontVars
  <2>2. QED BY <1>1, <1>6, <2>1 DEF Library!Created
<1>7. CASE UNCHANGED <<place, next, library, functions, rust, at, result, callback, held, registered>>
  <2>1. ConnectorInOrder'
    BY <1>7
  <2>2. QED BY <1>1, <1>7, <2>1
<1>8. CASE Library!Destroy
  <2>1. CASE Library!UnsafeToDestroy
    <3>1. ConnectorInOrder'
      BY <1>8, <2>1 DEF Library!Destroy, Library!frontVars
    <3>2. QED BY <1>1, <1>8, <2>1, <3>1 DEF Library!Destroy
  <2>2. CASE ~Library!UnsafeToDestroy
    <3>1. /\ at' = "gone" /\ library' = 0 /\ functions' = 0 /\ callback' = FALSE /\ rust' # "alive"
          /\ held' = IF callback THEN held - 1 ELSE held
          /\ UNCHANGED <<place, next, result, registered>>
      BY <1>8, <2>2 DEF Library!Destroy, Library!ReleasesCallback, Library!frontVars
    <3>2. held' = 0
      BY <1>8, <3>1 DEF Library!Destroy
    <3>3. ConnectorInOrder'
      BY <3>1, <3>2
    <3>4. \A p : Library!Complete(p)' = Library!Complete(p)
      BY <3>1 DEF Library!Complete, Library!LoadResult
    <3>5. SearchInOrder'
      BY <3>1, <3>4 DEF SearchInOrder
    <3>6. QED BY <3>3, <3>5
  <2>3. QED BY <2>1, <2>2
<1>9. CASE \E i : Library!Invoke(i) \/ Library!SendTo(i) \/ Library!Return(i)
  BY <1>7, <1>9 DEF Library!Invoke, Library!SendTo, Library!Return, Library!connector, Library!frontVars
<1>10. QED
  BY <1>2, <1>3, <1>4, <1>5, <1>6, <1>7, <1>8, <1>9 DEF Library!Next, rustVars

\* The library that serves is the first whole one, it is asked what it can do
\* and called back as long as it may answer; and nothing is kept at the end.
THEOREM LibraryStaysInOrder == MCSpec => []Library!LibraryServes
<1>1. MCInit => LibraryInv
  BY DEF MCInit, Library!Init, LibraryInv, SearchInOrder, ConnectorInOrder, Unserving, Serving
<1>2. LibraryInv /\ [MCNext]_<<group, agentVars, pluginVars, otherVars, mediaVars>> => LibraryInv'
  <2> SUFFICES ASSUME LibraryInv, [MCNext]_<<group, agentVars, pluginVars, otherVars, mediaVars>>
               PROVE  LibraryInv'
    OBVIOUS
  <2>1. Library!Next \/ UNCHANGED rustVars
    BY DEF MCNext, otherVars
  <2>2. QED BY <2>1, LibraryStep
<1>3. LibraryInv => Library!LibraryServes
  BY DEF LibraryInv, SearchInOrder, ConnectorInOrder, Unserving, Serving, Library!LibraryServes
<1>4. QED BY <1>1, <1>2, <1>3, PTL DEF MCSpec

-----------------------------------------------------------------------------
(* Plugins come and go.  First the lists of their steps: how those of      *)
(* Initialize and those of Deinitialize pair up.                           *)

\* The results of calls, which are remembered until the next Initialize.
Results == {"Configure", "deviceId", "persistent"}
OfRoot == Shell!FromRoot \cup {"root"}

Gets(s) == s.op \in {"hold", "take", "root", "watch"}
Drops(s, x) == s.op = "drop" /\ s.x = x
Puts(s, r) == s.op = "put" /\ s.x = r
Pulls(s, r) == s.op = "pull" /\ s.x = r

\* What Deinitialize of a plugin may unregister in vain.
InVain(p) == CASE p = "WebKitBrowser" -> {"stateControlSink", "subSystemSink"}
               [] p = "Messenger"     -> {"JMessenger"}
               [] p = "Packager"      -> {"JPackager"}
               [] OTHER               -> {}

\* What comes from the implementation is only asked for when it is there.
UpInOrder(up) ==
  \A i \in 1 .. Len(up) :
    /\ up[i].op \in {"hold", "take", "ask", "root", "watch", "put", "drop"}
    /\ up[i].op = "ask" <=> up[i].x \in Results
    /\ up[i].op = "root" <=> up[i].x = "root"
    /\ up[i].op = "drop" => /\ up[i].x \in {"stateControl", "subSystems"}
                            /\ up[i].x # "subSystems" => up[i].when = {up[i].x}
    /\ up[i].op # "drop" /\ up[i].x \in Shell!FromRoot \cup Shell!Sinks => up[i].when \cap OfRoot # {}
    /\ up[i].x = "videoCodecs" => "audioCodecs" \in up[i].when
    /\ up[i].x = "application" => "stateControl" \in up[i].when

DownInOrder(down) ==
  \A j \in 1 .. Len(down) :
    /\ down[j].op \in {"hold", "pull", "drop"} /\ down[j].x \notin Results \cup {"alive"}
    /\ down[j].op = "hold" => down[j].x = "subSystems"
    /\ down[j].op = "drop" => down[j].when = {down[j].x}
    /\ down[j].op = "pull" => /\ "subSystems" \in down[j].when => \A k \in 1 .. Len(down) : down[k].op # "hold"
                              /\ "alive" \in down[j].when => down[j].x \in Shell!Sinks \cup {"subSystemSink"}

\* Each thing is taken once and given back.
TakenOnce(up, down) ==
  \A i \in 1 .. Len(up) : Gets(up[i]) /\ up[i].x # "subSystems" =>
    /\ \A j \in 1 .. Len(up) : j < i /\ (Gets(up[j]) \/ up[j].op = "drop") => up[j].x # up[i].x
    /\ \/ \E k \in 1 .. Len(up) : Drops(up[k], up[i].x)
       \/ \E k \in 1 .. Len(down) : Drops(down[k], up[i].x)

\* The implementation is released last.
RootLast(up, down) ==
  \A k \in 1 .. Len(down) : Drops(down[k], "root") =>
    /\ \A i \in 1 .. Len(up) : Gets(up[i]) /\ up[i].x \in Shell!FromRoot =>
         \/ \E m \in 1 .. Len(up) : Drops(up[m], up[i].x)
         \/ \E m \in 1 .. Len(down) : m < k /\ Drops(down[m], up[i].x)
    /\ \A i \in 1 .. Len(up) : up[i].op = "put" /\ up[i].x \in Shell!Sinks \ {"stateControllerSink"} =>
         \E m \in 1 .. Len(down) : m < k /\ Pulls(down[m], up[i].x)
    /\ \A j \in 1 .. Len(down) : down[j].op = "pull" /\ down[j].x \in Shell!Sinks => j < k

\* What is registered is unregistered under the condition under which it was
\* registered, as long as that holds.
PulledAsPut(up, down, vain) ==
  \A j \in 1 .. Len(down) : down[j].op = "pull" =>
    \A i \in 1 .. Len(up) : Puts(up[i], down[j].x) =>
      /\ down[j].x # "subSystemSink" =>
           \A y \in down[j].when :
             \/ y = "alive" \/ y \in up[i].when
             \/ y = "root" /\ up[i].when \cap OfRoot # {}
             \/ y = "audioCodecs" /\ "videoCodecs" \in up[i].when
      /\ down[j].x \notin vain =>
           /\ \A y \in up[i].when :
                y \in down[j].when \/ (y \in {"root", "stateControl"} /\ "application" \in down[j].when)
           /\ \A k \in 1 .. Len(up) : k > i /\ up[k].op \notin {"put", "drop"} => up[k].x \notin down[j].when

PulledOnce(up, down, vain) ==
  \A j \in 1 .. Len(down) : down[j].op = "pull" =>
    /\ \/ down[j].x \in vain
       \/ "alive" \notin down[j].when /\ \E i \in 1 .. Len(up) : Puts(up[i], down[j].x)
    /\ \A k \in 1 .. Len(down) : k # j => ~Pulls(down[k], down[j].x)
    /\ \A k \in 1 .. Len(down) : down[k].op = "drop" /\ down[k].x \in down[j].when => j < k
    /\ \A k \in 1 .. Len(up) : up[k].op = "drop" => up[k].x \notin down[j].when

PutOnce(up, down, p) ==
  \A i \in 1 .. Len(up) : up[i].op = "put" =>
    /\ up[i].x = "subSystemSink" => p = "WebKitBrowser"
    /\ \A k \in 1 .. Len(up) : k < i => ~Drops(up[k], "stateControl")
    /\ \/ up[i].x \in Shell!Sinks \cup {"SECURITY", "subSystemSink"}
       \/ \E j \in 1 .. Len(down) : Pulls(down[j], up[i].x)

Entries(steps) == {steps[i] : i \in 1 .. Len(steps)}
IsList(steps) == steps \in Seq(Entries(steps))

PairsUp(up, down, p) ==
  /\ IsList(up) /\ IsList(down)
  /\ UpInOrder(up) /\ DownInOrder(down) /\ TakenOnce(up, down) /\ RootLast(up, down)
  /\ PulledAsPut(up, down, InVain(p)) /\ PulledOnce(up, down, InVain(p)) /\ PutOnce(up, down, p)

-----------------------------------------------------------------------------
(* Second: how far the shell is in the lists, and what that says of what   *)
(* the plugin has.                                                         *)
UpList == Shell!InitializeOf[plugin]
DownList == Shell!DeinitializeOf[plugin]

\* The steps of Initialize that were taken or skipped since the activation, those
\* of Deinitialize since then.
GoesUp == life \in {"initializing", "activated"}
StepsUp == IF GoesUp THEN Len(UpList) - Len(todo) ELSE Len(UpList)
StepsDown == IF GoesUp THEN 0 ELSE Len(DownList) - Len(todo)

ToDoOf(steps) ==
  /\ todo \in Seq(Entries(steps)) /\ Len(todo) <= Len(steps)
  /\ \A i \in 1 .. Len(todo) : todo[i] = steps[Len(steps) - Len(todo) + i]

PlaceInOrder ==
  /\ plugin \in Plugins
  /\ life \in {"deactivated", "initializing", "activated", "deinitializing"}
  /\ life = "initializing" => ToDoOf(UpList)
  /\ life = "deinitializing" => ToDoOf(DownList)
  /\ life \in {"deactivated", "activated"} => todo = <<>>

\* What there is was got and not dropped since.
HaveInOrder ==
  \A x \in have \ (Results \cup {"subSystems"}) :
    /\ \E i \in 1 .. StepsUp : Gets(UpList[i]) /\ UpList[i].x = x
    /\ \A k \in 1 .. StepsUp : ~Drops(UpList[k], x)
    /\ \A k \in 1 .. StepsDown : ~Drops(DownList[k], x)

\* The plugin owns one reference of what it has, and no other.
RefsInOrder ==
  /\ DOMAIN refs = Shell!Things
  /\ \A x \in Shell!Things \ {"subSystems"} : refs[x] = IF x \in have \ Results THEN 1 ELSE 0

\* What comes from the implementation needs it.
RootInOrder ==
  /\ process \in {"none", "inside", "alive", "dead"}
  /\ process = "none" <=> "root" \notin have
  /\ have \cap (Shell!FromRoot \ Results) # {} => "root" \in have
  /\ GoesUp =>
       /\ have \cap Shell!FromRoot # {} => "root" \in have
       /\ "videoCodecs" \in have => "audioCodecs" \in have
       /\ "application" \in have =>
            "stateControl" \in have \/ \E k \in 1 .. StepsUp : Drops(UpList[k], "stateControl")

\* What is registered was registered by Initialize, and Deinitialize will come to
\* where that ends, with what it asks for there.
RegsInOrder ==
  \A r \in regs :
    /\ \E i \in 1 .. Len(UpList) : Puts(UpList[i], r)
    /\ r \in Shell!Sinks => process \in {"inside", "alive"}
    /\ r # "subSystemSink" =>
         \A j \in 1 .. Len(DownList) : Pulls(DownList[j], r) =>
           j > StepsDown /\ DownList[j].when \ {"alive"} \subseteq have

\* What Deinitialize is going to unregister is registered, or with an implementation
\* that died.
PutsInOrder ==
  \A i \in 1 .. StepsUp, j \in 1 .. Len(DownList) :
    /\ UpList[i].op = "put" /\ UpList[i].x \notin InVain(plugin)
    /\ j > StepsDown /\ Pulls(DownList[j], UpList[i].x) /\ DownList[j].when \subseteq have
    => UpList[i].x \in regs \/ (UpList[i].x \in Shell!Sinks /\ process = "dead")

HistoryInOrder == stray \subseteq InVain(plugin) /\ orphans \subseteq {"stateControllerSink"}

ShellInv ==
  /\ PlaceInOrder /\ HaveInOrder /\ RefsInOrder /\ RootInOrder
  /\ RegsInOrder /\ PutsInOrder /\ HistoryInOrder

-----------------------------------------------------------------------------
\* The lists of each plugin pair up: nothing but their steps is looked at.
LEMMA WebKitBrowserPairsUp ==
  PairsUp(Shell!WebKitBrowserInitialize, Shell!WebKitBrowserDeinitialize, "WebKitBrowser")
<1> DEFINE up == Shell!WebKitBrowserInitialize
           down == Shell!WebKitBrowserDeinitialize
<1>0. IsList(up) /\ IsList(down)
  BY SMTT(60) DEF IsList, Entries, Shell!WebKitBrowserInitialize, Shell!WebKitBrowserDeinitialize
<1> USE DEF Shell!Hold, Shell!Take, Shell!MustTake, Shell!Ask, Shell!MustAsk, Shell!Root, Shell!Watch, Shell!MustWatch,
           Shell!Put, Shell!Pull, Shell!Drop, Shell!Step, Gets, Drops, Puts, Pulls, OfRoot, Results,
           Shell!FromRoot, Shell!Sinks, InVain
<1>1. UpInOrder(up)
  BY SMTT(60) DEF UpInOrder, Shell!WebKitBrowserInitialize
<1>2. DownInOrder(down)
  BY SMTT(60) DEF DownInOrder, Shell!WebKitBrowserDeinitialize
<1>3. TakenOnce(up, down)
  BY SMTT(60) DEF TakenOnce, Shell!WebKitBrowserInitialize, Shell!WebKitBrowserDeinitialize
<1>4. RootLast(up, down)
  BY SMTT(60) DEF RootLast, Shell!WebKitBrowserInitialize, Shell!WebKitBrowserDeinitialize
<1>5. PulledAsPut(up, down, InVain("WebKitBrowser"))
  BY SMTT(60) DEF PulledAsPut, Shell!WebKitBrowserInitialize, Shell!WebKitBrowserDeinitialize
<1>6. PulledOnce(up, down, InVain("WebKitBrowser"))
  BY SMTT(60) DEF PulledOnce, Shell!WebKitBrowserInitialize, Shell!WebKitBrowserDeinitialize
<1>7. PutOnce(up, down, "WebKitBrowser")
  BY SMTT(60) DEF PutOnce, Shell!WebKitBrowserInitialize, Shell!WebKitBrowserDeinitialize
<1> QED
  BY <1>0, <1>1, <1>2, <1>3, <1>4, <1>5, <1>6, <1>7 DEF PairsUp

LEMMA OCDMPairsUp ==
  PairsUp(Shell!OCDMInitialize, Shell!OCDMDeinitialize, "OCDM")
<1> DEFINE up == Shell!OCDMInitialize
           down == Shell!OCDMDeinitialize
<1>0. IsList(up) /\ IsList(down)
  BY SMTT(60) DEF IsList, Entries, Shell!OCDMInitialize, Shell!OCDMDeinitialize
<1> USE DEF Shell!Hold, Shell!Take, Shell!MustTake, Shell!Ask, Shell!MustAsk, Shell!Root, Shell!Watch, Shell!MustWatch,
           Shell!Put, Shell!Pull, Shell!Drop, Shell!Step, Gets, Drops, Puts, Pulls, OfRoot, Results,
           Shell!FromRoot, Shell!Sinks, InVain
<1>1. UpInOrder(up)
  BY SMTT(60) DEF UpInOrder, Shell!OCDMInitialize
<1>2. DownInOrder(down)
  BY SMTT(60) DEF DownInOrder, Shell!OCDMDeinitialize
<1>3. TakenOnce(up, down)
  BY SMTT(60) DEF TakenOnce, Shell!OCDMInitialize, Shell!OCDMDeinitialize
<1>4. RootLast(up, down)
  BY SMTT(60) DEF RootLast, Shell!OCDMInitialize, Shell!OCDMDeinitialize
<1>5. PulledAsPut(up, down, InVain("OCDM"))
  BY SMTT(60) DEF PulledAsPut, Shell!OCDMInitialize, Shell!OCDMDeinitialize
<1>6. PulledOnce(up, down, InVain("OCDM"))
  BY SMTT(60) DEF PulledOnce, Shell!OCDMInitialize, Shell!OCDMDeinitialize
<1>7. PutOnce(up, down, "OCDM")
  BY SMTT(60) DEF PutOnce, Shell!OCDMInitialize, Shell!OCDMDeinitialize
<1> QED
  BY <1>0, <1>1, <1>2, <1>3, <1>4, <1>5, <1>6, <1>7 DEF PairsUp

LEMMA DisplayInfoPairsUp ==
  PairsUp(Shell!DisplayInfoInitialize, Shell!DisplayInfoDeinitialize, "DisplayInfo")
<1> DEFINE up == Shell!DisplayInfoInitialize
           down == Shell!DisplayInfoDeinitialize
<1>0. IsList(up) /\ IsList(down)
  BY SMTT(60) DEF IsList, Entries, Shell!DisplayInfoInitialize, Shell!DisplayInfoDeinitialize
<1> USE DEF Shell!Hold, Shell!Take, Shell!MustTake, Shell!Ask, Shell!MustAsk, Shell!Root, Shell!Watch, Shell!MustWatch,
           Shell!Put, Shell!Pull, Shell!Drop, Shell!Step, Gets, Drops, Puts, Pulls, OfRoot, Results,
           Shell!FromRoot, Shell!Sinks, InVain
<1>1. UpInOrder(up)
  BY SMTT(60) DEF UpInOrder, Shell!DisplayInfoInitialize
<1>2. DownInOrder(down)
  BY SMTT(60) DEF DownInOrder, Shell!DisplayInfoDeinitialize
<1>3. TakenOnce(up, down)
  BY SMTT(60) DEF TakenOnce, Shell!DisplayInfoInitialize, Shell!DisplayInfoDeinitialize
<1>4. RootLast(up, down)
  BY SMTT(60) DEF RootLast, Shell!DisplayInfoInitialize, Shell!DisplayInfoDeinitialize
<1>5. PulledAsPut(up, down, InVain("DisplayInfo"))
  BY SMTT(60) DEF PulledAsPut, Shell!DisplayInfoInitialize, Shell!DisplayInfoDeinitialize
<1>6. PulledOnce(up, down, InVain("DisplayInfo"))
  BY SMTT(60) DEF PulledOnce, Shell!DisplayInfoInitialize, Shell!DisplayInfoDeinitialize
<1>7. PutOnce(up, down, "DisplayInfo")
  BY SMTT(60) DEF PutOnce, Shell!DisplayInfoInitialize, Shell!DisplayInfoDeinitialize
<1> QED
  BY <1>0, <1>1, <1>2, <1>3, <1>4, <1>5, <1>6, <1>7 DEF PairsUp

LEMMA PlayerInfoPairsUp ==
  PairsUp(Shell!PlayerInfoInitialize, Shell!PlayerInfoDeinitialize, "PlayerInfo")
<1> DEFINE up == Shell!PlayerInfoInitialize
           down == Shell!PlayerInfoDeinitialize
<1>0. IsList(up) /\ IsList(down)
  BY SMTT(60) DEF IsList, Entries, Shell!PlayerInfoInitialize, Shell!PlayerInfoDeinitialize
<1> USE DEF Shell!Hold, Shell!Take, Shell!MustTake, Shell!Ask, Shell!MustAsk, Shell!Root, Shell!Watch, Shell!MustWatch,
           Shell!Put, Shell!Pull, Shell!Drop, Shell!Step, Gets, Drops, Puts, Pulls, OfRoot, Results,
           Shell!FromRoot, Shell!Sinks, InVain
<1>1. UpInOrder(up)
  BY SMTT(60) DEF UpInOrder, Shell!PlayerInfoInitialize
<1>2. DownInOrder(down)
  BY SMTT(60) DEF DownInOrder, Shell!PlayerInfoDeinitialize
<1>3. TakenOnce(up, down)
  BY SMTT(60) DEF TakenOnce, Shell!PlayerInfoInitialize, Shell!PlayerInfoDeinitialize
<1>4. RootLast(up, down)
  BY SMTT(60) DEF RootLast, Shell!PlayerInfoInitialize, Shell!PlayerInfoDeinitialize
<1>5. PulledAsPut(up, down, InVain("PlayerInfo"))
  BY SMTT(60) DEF PulledAsPut, Shell!PlayerInfoInitialize, Shell!PlayerInfoDeinitialize
<1>6. PulledOnce(up, down, InVain("PlayerInfo"))
  BY SMTT(60) DEF PulledOnce, Shell!PlayerInfoInitialize, Shell!PlayerInfoDeinitialize
<1>7. PutOnce(up, down, "PlayerInfo")
  BY SMTT(60) DEF PutOnce, Shell!PlayerInfoInitialize, Shell!PlayerInfoDeinitialize
<1> QED
  BY <1>0, <1>1, <1>2, <1>3, <1>4, <1>5, <1>6, <1>7 DEF PairsUp

LEMMA DeviceIdentificationPairsUp ==
  PairsUp(Shell!DeviceIdentificationInitialize, Shell!DeviceIdentificationDeinitialize, "DeviceIdentification")
<1> DEFINE up == Shell!DeviceIdentificationInitialize
           down == Shell!DeviceIdentificationDeinitialize
<1>0. IsList(up) /\ IsList(down)
  BY SMTT(60) DEF IsList, Entries, Shell!DeviceIdentificationInitialize, Shell!DeviceIdentificationDeinitialize
<1> USE DEF Shell!Hold, Shell!Take, Shell!MustTake, Shell!Ask, Shell!MustAsk, Shell!Root, Shell!Watch, Shell!MustWatch,
           Shell!Put, Shell!Pull, Shell!Drop, Shell!Step, Gets, Drops, Puts, Pulls, OfRoot, Results,
           Shell!FromRoot, Shell!Sinks, InVain
<1>1. UpInOrder(up)
  BY SMTT(60) DEF UpInOrder, Shell!DeviceIdentificationInitialize
<1>2. DownInOrder(down)
  BY SMTT(60) DEF DownInOrder, Shell!DeviceIdentificationDeinitialize
<1>3. TakenOnce(up, down)
  BY SMTT(60) DEF TakenOnce, Shell!DeviceIdentificationInitialize, Shell!DeviceIdentificationDeinitialize
<1>4. RootLast(up, down)
  BY SMTT(60) DEF RootLast, Shell!DeviceIdentificationInitialize, Shell!DeviceIdentificationDeinitialize
<1>5. PulledAsPut(up, down, InVain("DeviceIdentification"))
  BY SMTT(60) DEF PulledAsPut, Shell!DeviceIdentificationInitialize, Shell!DeviceIdentificationDeinitialize
<1>6. PulledOnce(up, down, InVain("DeviceIdentification"))
  BY SMTT(60) DEF PulledOnce, Shell!DeviceIdentificationInitialize, Shell!DeviceIdentificationDeinitialize
<1>7. PutOnce(up, down, "DeviceIdentification")
  BY SMTT(60) DEF PutOnce, Shell!DeviceIdentificationInitialize, Shell!DeviceIdentificationDeinitialize
<1> QED
  BY <1>0, <1>1, <1>2, <1>3, <1>4, <1>5, <1>6, <1>7 DEF PairsUp

LEMMA MessengerPairsUp ==
  PairsUp(Shell!MessengerInitialize, Shell!MessengerDeinitialize, "Messenger")
<1> DEFINE up == Shell!MessengerInitialize
           down == Shell!MessengerDeinitialize
<1>0. IsList(up) /\ IsList(down)
  BY SMTT(60) DEF IsList, Entries, Shell!MessengerInitialize, Shell!MessengerDeinitialize
<1> USE DEF Shell!Hold, Shell!Take, Shell!MustTake, Shell!Ask, Shell!MustAsk, Shell!Root, Shell!Watch, Shell!MustWatch,
           Shell!Put, Shell!Pull, Shell!Drop, Shell!Step, Gets, Drops, Puts, Pulls, OfRoot, Results,
           Shell!FromRoot, Shell!Sinks, InVain
<1>1. UpInOrder(up)
  BY SMTT(60) DEF UpInOrder, Shell!MessengerInitialize
<1>2. DownInOrder(down)
  BY SMTT(60) DEF DownInOrder, Shell!MessengerDeinitialize
<1>3. TakenOnce(up, down)
  BY SMTT(60) DEF TakenOnce, Shell!MessengerInitialize, Shell!MessengerDeinitialize
<1>4. RootLast(up, down)
  BY SMTT(60) DEF RootLast, Shell!MessengerInitialize, Shell!MessengerDeinitialize
<1>5. PulledAsPut(up, down, InVain("Messenger"))
  BY SMTT(60) DEF PulledAsPut, Shell!MessengerInitialize, Shell!MessengerDeinitialize
<1>6. PulledOnce(up, down, InVain("Messenger"))
  BY SMTT(60) DEF PulledOnce, Shell!MessengerInitialize, Shell!MessengerDeinitialize
<1>7. PutOnce(up, down, "Messenger")
  BY SMTT(60) DEF PutOnce, Shell!MessengerInitialize, Shell!MessengerDeinitialize
<1> QED
  BY <1>0, <1>1, <1>2, <1>3, <1>4, <1>5, <1>6, <1>7 DEF PairsUp

LEMMA PackagerPairsUp ==
  PairsUp(Shell!PackagerInitialize, Shell!PackagerDeinitialize, "Packager")
<1> DEFINE up == Shell!PackagerInitialize
           down == Shell!PackagerDeinitialize
<1>0. IsList(up) /\ IsList(down)
  BY SMTT(60) DEF IsList, Entries, Shell!PackagerInitialize, Shell!PackagerDeinitialize
<1> USE DEF Shell!Hold, Shell!Take, Shell!MustTake, Shell!Ask, Shell!MustAsk, Shell!Root, Shell!Watch, Shell!MustWatch,
           Shell!Put, Shell!Pull, Shell!Drop, Shell!Step, Gets, Drops, Puts, Pulls, OfRoot, Results,
           Shell!FromRoot, Shell!Sinks, InVain
<1>1. UpInOrder(up)
  BY SMTT(60) DEF UpInOrder, Shell!PackagerInitialize
<1>2. DownInOrder(down)
  BY SMTT(60) DEF DownInOrder, Shell!PackagerDeinitialize
<1>3. TakenOnce(up, down)
  BY SMTT(60) DEF TakenOnce, Shell!PackagerInitialize, Shell!PackagerDeinitialize
<1>4. RootLast(up, down)
  BY SMTT(60) DEF RootLast, Shell!PackagerInitialize, Shell!PackagerDeinitialize
<1>5. PulledAsPut(up, down, InVain("Packager"))
  BY SMTT(60) DEF PulledAsPut, Shell!PackagerInitialize, Shell!PackagerDeinitialize
<1>6. PulledOnce(up, down, InVain("Packager"))
  BY SMTT(60) DEF PulledOnce, Shell!PackagerInitialize, Shell!PackagerDeinitialize
<1>7. PutOnce(up, down, "Packager")
  BY SMTT(60) DEF PutOnce, Shell!PackagerInitialize, Shell!PackagerDeinitialize
<1> QED
  BY <1>0, <1>1, <1>2, <1>3, <1>4, <1>5, <1>6, <1>7 DEF PairsUp

LEMMA SecurityAgentPairsUp ==
  PairsUp(Shell!SecurityAgentInitialize, Shell!SecurityAgentDeinitialize, "SecurityAgent")
<1> DEFINE up == Shell!SecurityAgentInitialize
           down == Shell!SecurityAgentDeinitialize
<1>0. IsList(up) /\ IsList(down)
  <2> DEFINE step == Shell!Step("drop", "subSystems", {"dispatcher"}, FALSE)
             other(s) == << Shell!Hold("subSystems", {}),
                            Shell!Take("dac", {}),
                            Shell!Put("fileMonitor", {"dac"}),
                            Shell!Take("dispatcher", {}),
                            Shell!Put("SECURITY", {"dispatcher"}),
                            s, Shell!Put("JSecurityAgent", {}) >>
  <2>1. up = other(step)
    BY DEF Shell!SecurityAgentInitialize
  <2>2. \A s : IsList(other(s))
    BY SMTT(60) DEF IsList, Entries
  <2>3. IsList(down)
    BY SMTT(60) DEF IsList, Entries, Shell!SecurityAgentDeinitialize
  <2> HIDE DEF other, step
  <2>4. QED BY <2>1, <2>2, <2>3
<1> USE DEF Shell!Hold, Shell!Take, Shell!MustTake, Shell!Ask, Shell!MustAsk, Shell!Root, Shell!Watch, Shell!MustWatch,
           Shell!Put, Shell!Pull, Shell!Drop, Shell!Step, Gets, Drops, Puts, Pulls, OfRoot, Results,
           Shell!FromRoot, Shell!Sinks, InVain
<1>1. UpInOrder(up)
  BY SMTT(60) DEF UpInOrder, Shell!SecurityAgentInitialize
<1>2. DownInOrder(down)
  BY SMTT(60) DEF DownInOrder, Shell!SecurityAgentDeinitialize
<1>3. TakenOnce(up, down)
  BY SMTT(60) DEF TakenOnce, Shell!SecurityAgentInitialize, Shell!SecurityAgentDeinitialize
<1>4. RootLast(up, down)
  BY SMTT(60) DEF RootLast, Shell!SecurityAgentInitialize, Shell!SecurityAgentDeinitialize
<1>5. PulledAsPut(up, down, InVain("SecurityAgent"))
  BY SMTT(60) DEF PulledAsPut, Shell!SecurityAgentInitialize, Shell!SecurityAgentDeinitialize
<1>6. PulledOnce(up, down, InVain("SecurityAgent"))
  BY SMTT(60) DEF PulledOnce, Shell!SecurityAgentInitialize, Shell!SecurityAgentDeinitialize
<1>7. PutOnce(up, down, "SecurityAgent")
  BY SMTT(60) DEF PutOnce, Shell!SecurityAgentInitialize, Shell!SecurityAgentDeinitialize
<1> QED
  BY <1>0, <1>1, <1>2, <1>3, <1>4, <1>5, <1>6, <1>7 DEF PairsUp

LEMMA DeviceInfoPairsUp ==
  PairsUp(Shell!DeviceInfoInitialize, Shell!DeviceInfoDeinitialize, "DeviceInfo")
<1> DEFINE up == Shell!DeviceInfoInitialize
           down == Shell!DeviceInfoDeinitialize
<1>0. IsList(up) /\ IsList(down)
  <2> DEFINE step == Shell!Step("root", "root", {"subSystems"}, TRUE)
             other(s) == << Shell!Hold("service", {}),
                            Shell!Put("process", {}),
                            Shell!MustTake("subSystems", {}),
                            Shell!Hold("subSystems", {"subSystems"}),
                            Shell!Put("updates", {"subSystems"}),
                            s, Shell!MustTake("audio", {"root"}),
                            Shell!MustTake("video", {"audio"}),
                            Shell!Put("RegisterAll", {"video"}) >>
  <2>1. up = other(step)
    BY DEF Shell!DeviceInfoInitialize
  <2>2. \A s : IsList(other(s))
    BY SMTT(60) DEF IsList, Entries
  <2>3. IsList(down)
    BY SMTT(60) DEF IsList, Entries, Shell!DeviceInfoDeinitialize
  <2> HIDE DEF other, step
  <2>4. QED BY <2>1, <2>2, <2>3
<1> USE DEF Shell!Hold, Shell!Take, Shell!MustTake, Shell!Ask, Shell!MustAsk, Shell!Root, Shell!Watch, Shell!MustWatch,
           Shell!Put, Shell!Pull, Shell!Drop, Shell!Step, Gets, Drops, Puts, Pulls, OfRoot, Results,
           Shell!FromRoot, Shell!Sinks, InVain
<1>1. UpInOrder(up)
  BY SMTT(60) DEF UpInOrder, Shell!DeviceInfoInitialize
<1>2. DownInOrder(down)
  BY SMTT(60) DEF DownInOrder, Shell!DeviceInfoDeinitialize
<1>3. TakenOnce(up, down)
  BY SMTT(60) DEF TakenOnce, Shell!DeviceInfoInitialize, Shell!DeviceInfoDeinitialize
<1>4. RootLast(up, down)
  BY SMTT(60) DEF RootLast, Shell!DeviceInfoInitialize, Shell!DeviceInfoDeinitialize
<1>5. PulledAsPut(up, down, InVain("DeviceInfo"))
  BY SMTT(60) DEF PulledAsPut, Shell!DeviceInfoInitialize, Shell!DeviceInfoDeinitialize
<1>6. PulledOnce(up, down, InVain("DeviceInfo"))
  BY SMTT(60) DEF PulledOnce, Shell!DeviceInfoInitialize, Shell!DeviceInfoDeinitialize
<1>7. PutOnce(up, down, "DeviceInfo")
  BY SMTT(60) DEF PutOnce, Shell!DeviceInfoInitialize, Shell!DeviceInfoDeinitialize
<1> QED
  BY <1>0, <1>1, <1>2, <1>3, <1>4, <1>5, <1>6, <1>7 DEF PairsUp

LEMMA RustBridgePairsUp ==
  PairsUp(Shell!RustBridgeInitialize, Shell!RustBridgeDeinitialize, "RustBridge")
<1> DEFINE up == Shell!RustBridgeInitialize
           down == Shell!RustBridgeDeinitialize
<1>0. IsList(up) /\ IsList(down)
  BY SMTT(60) DEF IsList, Entries, Shell!RustBridgeInitialize, Shell!RustBridgeDeinitialize
<1> USE DEF Shell!Hold, Shell!Take, Shell!MustTake, Shell!Ask, Shell!MustAsk, Shell!Root, Shell!Watch, Shell!MustWatch,
           Shell!Put, Shell!Pull, Shell!Drop, Shell!Step, Gets, Drops, Puts, Pulls, OfRoot, Results,
           Shell!FromRoot, Shell!Sinks, InVain
<1>1. UpInOrder(up)
  BY SMTT(60) DEF UpInOrder, Shell!RustBridgeInitialize
<1>2. DownInOrder(down)
  BY SMTT(60) DEF DownInOrder, Shell!RustBridgeDeinitialize
<1>3. TakenOnce(up, down)
  BY SMTT(60) DEF TakenOnce, Shell!RustBridgeInitialize, Shell!RustBridgeDeinitialize
<1>4. RootLast(up, down)
  BY SMTT(60) DEF RootLast, Shell!RustBridgeInitialize, Shell!RustBridgeDeinitialize
<1>5. PulledAsPut(up, down, InVain("RustBridge"))
  BY SMTT(60) DEF PulledAsPut, Shell!RustBridgeInitialize, Shell!RustBridgeDeinitialize
<1>6. PulledOnce(up, down, InVain("RustBridge"))
  BY SMTT(60) DEF PulledOnce, Shell!RustBridgeInitialize, Shell!RustBridgeDeinitialize
<1>7. PutOnce(up, down, "RustBridge")
  BY SMTT(60) DEF PutOnce, Shell!RustBridgeInitialize, Shell!RustBridgeDeinitialize
<1> QED
  BY <1>0, <1>1, <1>2, <1>3, <1>4, <1>5, <1>6, <1>7 DEF PairsUp

LEMMA MonitorPairsUp ==
  PairsUp(Shell!MonitorInitialize, Shell!MonitorDeinitialize, "Monitor")
<1> DEFINE up == Shell!MonitorInitialize
           down == Shell!MonitorDeinitialize
<1>0. IsList(up) /\ IsList(down)
  BY SMTT(60) DEF IsList, Entries, Shell!MonitorInitialize, Shell!MonitorDeinitialize
<1> USE DEF Shell!Hold, Shell!Take, Shell!MustTake, Shell!Ask, Shell!MustAsk, Shell!Root, Shell!Watch, Shell!MustWatch,
           Shell!Put, Shell!Pull, Shell!Drop, Shell!Step, Gets, Drops, Puts, Pulls, OfRoot, Results,
           Shell!FromRoot, Shell!Sinks, InVain
<1>1. UpInOrder(up)
  BY SMTT(60) DEF UpInOrder, Shell!MonitorInitialize
<1>2. DownInOrder(down)
  BY SMTT(60) DEF DownInOrder, Shell!MonitorDeinitialize
<1>3. TakenOnce(up, down)
  BY SMTT(60) DEF TakenOnce, Shell!MonitorInitialize, Shell!MonitorDeinitialize
<1>4. RootLast(up, down)
  BY SMTT(60) DEF RootLast, Shell!MonitorInitialize, Shell!MonitorDeinitialize
<1>5. PulledAsPut(up, down, InVain("Monitor"))
  BY SMTT(60) DEF PulledAsPut, Shell!MonitorInitialize, Shell!MonitorDeinitialize
<1>6. PulledOnce(up, down, InVain("Monitor"))
  BY SMTT(60) DEF PulledOnce, Shell!MonitorInitialize, Shell!MonitorDeinitialize
<1>7. PutOnce(up, down, "Monitor")
  BY SMTT(60) DEF PutOnce, Shell!MonitorInitialize, Shell!MonitorDeinitialize
<1> QED
  BY <1>0, <1>1, <1>2, <1>3, <1>4, <1>5, <1>6, <1>7 DEF PairsUp

LEMMA MessageControlPairsUp ==
  PairsUp(Shell!MessageControlInitialize, Shell!MessageControlDeinitialize, "MessageControl")
<1> DEFINE up == Shell!MessageControlInitialize
           down == Shell!MessageControlDeinitialize
<1>0. IsList(up) /\ IsList(down)
  BY SMTT(60) DEF IsList, Entries, Shell!MessageControlInitialize, Shell!MessageControlDeinitialize
<1> USE DEF Shell!Hold, Shell!Take, Shell!MustTake, Shell!Ask, Shell!MustAsk, Shell!Root, Shell!Watch, Shell!MustWatch,
           Shell!Put, Shell!Pull, Shell!Drop, Shell!Step, Gets, Drops, Puts, Pulls, OfRoot, Results,
           Shell!FromRoot, Shell!Sinks, InVain
<1>1. UpInOrder(up)
  BY SMTT(60) DEF UpInOrder, Shell!MessageControlInitialize
<1>2. DownInOrder(down)
  BY SMTT(60) DEF DownInOrder, Shell!MessageControlDeinitialize
<1>3. TakenOnce(up, down)
  BY SMTT(60) DEF TakenOnce, Shell!MessageControlInitialize, Shell!MessageControlDeinitialize
<1>4. RootLast(up, down)
  BY SMTT(60) DEF RootLast, Shell!MessageControlInitialize, Shell!MessageControlDeinitialize
<1>5. PulledAsPut(up, down, InVain("MessageControl"))
  BY SMTT(60) DEF PulledAsPut, Shell!MessageControlInitialize, Shell!MessageControlDeinitialize
<1>6. PulledOnce(up, down, InVain("MessageControl"))
  BY SMTT(60) DEF PulledOnce, Shell!MessageControlInitialize, Shell!MessageControlDeinitialize
<1>7. PutOnce(up, down, "MessageControl")
  BY SMTT(60) DEF PutOnce, Shell!MessageControlInitialize, Shell!MessageControlDeinitialize
<1> QED
  BY <1>0, <1>1, <1>2, <1>3, <1>4, <1>5, <1>6, <1>7 DEF PairsUp

LEMMA PerformanceMetricsPairsUp ==
  PairsUp(Shell!PerformanceMetricsInitialize, Shell!PerformanceMetricsDeinitialize, "PerformanceMetrics")
<1> DEFINE up == Shell!PerformanceMetricsInitialize
           down == Shell!PerformanceMetricsDeinitialize
<1>0. IsList(up) /\ IsList(down)
  BY SMTT(60) DEF IsList, Entries, Shell!PerformanceMetricsInitialize, Shell!PerformanceMetricsDeinitialize
<1> USE DEF Shell!Hold, Shell!Take, Shell!MustTake, Shell!Ask, Shell!MustAsk, Shell!Root, Shell!Watch, Shell!MustWatch,
           Shell!Put, Shell!Pull, Shell!Drop, Shell!Step, Gets, Drops, Puts, Pulls, OfRoot, Results,
           Shell!FromRoot, Shell!Sinks, InVain
<1>1. UpInOrder(up)
  BY SMTT(60) DEF UpInOrder, Shell!PerformanceMetricsInitialize
<1>2. DownInOrder(down)
  BY SMTT(60) DEF DownInOrder, Shell!PerformanceMetricsDeinitialize
<1>3. TakenOnce(up, down)
  BY SMTT(60) DEF TakenOnce, Shell!PerformanceMetricsInitialize, Shell!PerformanceMetricsDeinitialize
<1>4. RootLast(up, down)
  BY SMTT(60) DEF RootLast, Shell!PerformanceMetricsInitialize, Shell!PerformanceMetricsDeinitialize
<1>5. PulledAsPut(up, down, InVain("PerformanceMetrics"))
  BY SMTT(60) DEF PulledAsPut, Shell!PerformanceMetricsInitialize, Shell!PerformanceMetricsDeinitialize
<1>6. PulledOnce(up, down, InVain("PerformanceMetrics"))
  BY SMTT(60) DEF PulledOnce, Shell!PerformanceMetricsInitialize, Shell!PerformanceMetricsDeinitialize
<1>7. PutOnce(up, down, "PerformanceMetrics")
  BY SMTT(60) DEF PutOnce, Shell!PerformanceMetricsInitialize, Shell!PerformanceMetricsDeinitialize
<1> QED
  BY <1>0, <1>1, <1>2, <1>3, <1>4, <1>5, <1>6, <1>7 DEF PairsUp

LEMMA PairsOf ==
  ASSUME NEW p \in Shell!Names
  PROVE  PairsUp(Shell!InitializeOf[p], Shell!DeinitializeOf[p], p)
<1>1. CASE p = "WebKitBrowser"
  <2>1. /\ Shell!InitializeOf["WebKitBrowser"] = Shell!WebKitBrowserInitialize
        /\ Shell!DeinitializeOf["WebKitBrowser"] = Shell!WebKitBrowserDeinitialize
    BY DEF Shell!InitializeOf, Shell!DeinitializeOf
  <2>2. QED BY <1>1, <2>1, WebKitBrowserPairsUp
<1>2. CASE p = "OCDM"
  <2>1. /\ Shell!InitializeOf["OCDM"] = Shell!OCDMInitialize
        /\ Shell!DeinitializeOf["OCDM"] = Shell!OCDMDeinitialize
    BY DEF Shell!InitializeOf, Shell!DeinitializeOf
  <2>2. QED BY <1>2, <2>1, OCDMPairsUp
<1>3. CASE p = "DisplayInfo"
  <2>1. /\ Shell!InitializeOf["DisplayInfo"] = Shell!DisplayInfoInitialize
        /\ Shell!DeinitializeOf["DisplayInfo"] = Shell!DisplayInfoDeinitialize
    BY DEF Shell!InitializeOf, Shell!DeinitializeOf
  <2>2. QED BY <1>3, <2>1, DisplayInfoPairsUp
<1>4. CASE p = "PlayerInfo"
  <2>1. /\ Shell!InitializeOf["PlayerInfo"] = Shell!PlayerInfoInitialize
        /\ Shell!DeinitializeOf["PlayerInfo"] = Shell!PlayerInfoDeinitialize
    BY DEF Shell!InitializeOf, Shell!DeinitializeOf
  <2>2. QED BY <1>4, <2>1, PlayerInfoPairsUp
<1>5. CASE p = "DeviceIdentification"
  <2>1. /\ Shell!InitializeOf["DeviceIdentification"] = Shell!DeviceIdentificationInitialize
        /\ Shell!DeinitializeOf["DeviceIdentification"] = Shell!DeviceIdentificationDeinitialize
    BY DEF Shell!InitializeOf, Shell!DeinitializeOf
  <2>2. QED BY <1>5, <2>1, DeviceIdentificationPairsUp
<1>6. CASE p = "Messenger"
  <2>1. /\ Shell!InitializeOf["Messenger"] = Shell!MessengerInitialize
        /\ Shell!DeinitializeOf["Messenger"] = Shell!MessengerDeinitialize
    BY DEF Shell!InitializeOf, Shell!DeinitializeOf
  <2>2. QED BY <1>6, <2>1, MessengerPairsUp
<1>7. CASE p = "Packager"
  <2>1. /\ Shell!InitializeOf["Packager"] = Shell!PackagerInitialize
        /\ Shell!DeinitializeOf["Packager"] = Shell!PackagerDeinitialize
    BY DEF Shell!InitializeOf, Shell!DeinitializeOf
  <2>2. QED BY <1>7, <2>1, PackagerPairsUp
<1>8. CASE p = "SecurityAgent"
  <2>1. /\ Shell!InitializeOf["SecurityAgent"] = Shell!SecurityAgentInitialize
        /\ Shell!DeinitializeOf["SecurityAgent"] = Shell!SecurityAgentDeinitialize
    BY DEF Shell!InitializeOf, Shell!DeinitializeOf
  <2>2. QED BY <1>8, <2>1, SecurityAgentPairsUp
<1>9. CASE p = "DeviceInfo"
  <2>1. /\ Shell!InitializeOf["DeviceInfo"] = Shell!DeviceInfoInitialize
        /\ Shell!DeinitializeOf["DeviceInfo"] = Shell!DeviceInfoDeinitialize
    BY DEF Shell!InitializeOf, Shell!DeinitializeOf
  <2>2. QED BY <1>9, <2>1, DeviceInfoPairsUp
<1>10. CASE p = "RustBridge"
  <2>1. /\ Shell!InitializeOf["RustBridge"] = Shell!RustBridgeInitialize
        /\ Shell!DeinitializeOf["RustBridge"] = Shell!RustBridgeDeinitialize
    BY DEF Shell!InitializeOf, Shell!DeinitializeOf
  <2>2. QED BY <1>10, <2>1, RustBridgePairsUp
<1>11. CASE p = "Monitor"
  <2>1. /\ Shell!InitializeOf["Monitor"] = Shell!MonitorInitialize
        /\ Shell!DeinitializeOf["Monitor"] = Shell!MonitorDeinitialize
    BY DEF Shell!InitializeOf, Shell!DeinitializeOf
  <2>2. QED BY <1>11, <2>1, MonitorPairsUp
<1>12. CASE p = "MessageControl"
  <2>1. /\ Shell!InitializeOf["MessageControl"] = Shell!MessageControlInitialize
        /\ Shell!DeinitializeOf["MessageControl"] = Shell!MessageControlDeinitialize
    BY DEF Shell!InitializeOf, Shell!DeinitializeOf
  <2>2. QED BY <1>12, <2>1, MessageControlPairsUp
<1>13. CASE p = "PerformanceMetrics"
  <2>1. /\ Shell!InitializeOf["PerformanceMetrics"] = Shell!PerformanceMetricsInitialize
        /\ Shell!DeinitializeOf["PerformanceMetrics"] = Shell!PerformanceMetricsDeinitialize
    BY DEF Shell!InitializeOf, Shell!DeinitializeOf
  <2>2. QED BY <1>13, <2>1, PerformanceMetricsPairsUp
<1>14. QED BY <1>1, <1>2, <1>3, <1>4, <1>5, <1>6, <1>7, <1>8, <1>9, <1>10, <1>11, <1>12, <1>13 DEF Shell!Names

\* What comes from the implementation is one of the things that are counted.
LEMMA ThingsOfRoot == Shell!FromRoot \subseteq Shell!Things
<1>1. ASSUME NEW p \in Shell!Names, NEW i \in 1 .. Len(Shell!InitializeOf[p])
      PROVE  Shell!InitializeOf[p][i].x \in Shell!Things
  <2>1. DOMAIN Shell!InitializeOf[p] = 1 .. Len(Shell!InitializeOf[p])
    BY PairsOf DEF PairsUp, IsList
  <2>2. Shell!InitializeOf[p][i] \in Range(Shell!InitializeOf[p])
    BY <2>1 DEF Range
  <2>3. QED BY <2>2 DEF Shell!Things, Shell!Range
<1> USE DEF Shell!Hold, Shell!Take, Shell!MustTake, Shell!Ask, Shell!MustAsk, Shell!Root, Shell!Watch, Shell!MustWatch,
           Shell!Put, Shell!Pull, Shell!Drop, Shell!Step
<1>2. {"stateControl", "application", "stateController", "cookieJar", "browserScripting", "Configure"} \subseteq Shell!Things
  <2> DEFINE up == Shell!WebKitBrowserInitialize
  <2>1. /\ Len(up) \in Nat /\ Len(up) >= 18
        /\ up[4].x = "stateControl"
        /\ up[5].x = "application"
        /\ up[7].x = "stateController"
        /\ up[12].x = "cookieJar"
        /\ up[14].x = "browserScripting"
        /\ up[18].x = "Configure"
    BY SMTT(60) DEF Shell!WebKitBrowserInitialize
  <2>2. Shell!InitializeOf["WebKitBrowser"] = up /\ "WebKitBrowser" \in Shell!Names
    BY DEF Shell!InitializeOf, Shell!Names
  <2>3. 4 \in 1 .. Len(up) /\ 5 \in 1 .. Len(up) /\ 7 \in 1 .. Len(up) /\ 12 \in 1 .. Len(up) /\ 14 \in 1 .. Len(up) /\ 18 \in 1 .. Len(up)
    BY <2>1
  <2>4. /\ Shell!InitializeOf["WebKitBrowser"][4].x \in Shell!Things
        /\ Shell!InitializeOf["WebKitBrowser"][5].x \in Shell!Things
        /\ Shell!InitializeOf["WebKitBrowser"][7].x \in Shell!Things
        /\ Shell!InitializeOf["WebKitBrowser"][12].x \in Shell!Things
        /\ Shell!InitializeOf["WebKitBrowser"][14].x \in Shell!Things
        /\ Shell!InitializeOf["WebKitBrowser"][18].x \in Shell!Things
    BY <1>1, <2>2, <2>3
  <2>5. QED BY <2>1, <2>2, <2>4
<1>3. {"graphics", "hdr", "display"} \subseteq Shell!Things
  <2> DEFINE up == Shell!DisplayInfoInitialize
  <2>1. /\ Len(up) \in Nat /\ Len(up) >= 10
        /\ up[6].x = "graphics"
        /\ up[8].x = "hdr"
        /\ up[10].x = "display"
    BY SMTT(60) DEF Shell!DisplayInfoInitialize
  <2>2. Shell!InitializeOf["DisplayInfo"] = up /\ "DisplayInfo" \in Shell!Names
    BY DEF Shell!InitializeOf, Shell!Names
  <2>3. 6 \in 1 .. Len(up) /\ 8 \in 1 .. Len(up) /\ 10 \in 1 .. Len(up)
    BY <2>1
  <2>4. /\ Shell!InitializeOf["DisplayInfo"][6].x \in Shell!Things
        /\ Shell!InitializeOf["DisplayInfo"][8].x \in Shell!Things
        /\ Shell!InitializeOf["DisplayInfo"][10].x \in Shell!Things
    BY <1>1, <2>2, <2>3
  <2>5. QED BY <2>1, <2>2, <2>4
<1>4. {"audioCodecs", "videoCodecs", "dolby"} \subseteq Shell!Things
  <2> DEFINE up == Shell!PlayerInfoInitialize
  <2>1. /\ Len(up) \in Nat /\ Len(up) >= 7
        /\ up[4].x = "audioCodecs"
        /\ up[5].x = "videoCodecs"
        /\ up[7].x = "dolby"
    BY SMTT(60) DEF Shell!PlayerInfoInitialize
  <2>2. Shell!InitializeOf["PlayerInfo"] = up /\ "PlayerInfo" \in Shell!Names
    BY DEF Shell!InitializeOf, Shell!Names
  <2>3. 4 \in 1 .. Len(up) /\ 5 \in 1 .. Len(up) /\ 7 \in 1 .. Len(up)
    BY <2>1
  <2>4. /\ Shell!InitializeOf["PlayerInfo"][4].x \in Shell!Things
        /\ Shell!InitializeOf["PlayerInfo"][5].x \in Shell!Things
        /\ Shell!InitializeOf["PlayerInfo"][7].x \in Shell!Things
    BY <1>1, <2>2, <2>3
  <2>5. QED BY <2>1, <2>2, <2>4
<1>5. {"deviceId", "identifier"} \subseteq Shell!Things
  <2> DEFINE up == Shell!DeviceIdentificationInitialize
  <2>1. /\ Len(up) \in Nat /\ Len(up) >= 7
        /\ up[4].x = "deviceId"
        /\ up[7].x = "identifier"
    BY SMTT(60) DEF Shell!DeviceIdentificationInitialize
  <2>2. Shell!InitializeOf["DeviceIdentification"] = up /\ "DeviceIdentification" \in Shell!Names
    BY DEF Shell!InitializeOf, Shell!Names
  <2>3. 4 \in 1 .. Len(up) /\ 7 \in 1 .. Len(up)
    BY <2>1
  <2>4. /\ Shell!InitializeOf["DeviceIdentification"][4].x \in Shell!Things
        /\ Shell!InitializeOf["DeviceIdentification"][7].x \in Shell!Things
    BY <1>1, <2>2, <2>3
  <2>5. QED BY <2>1, <2>2, <2>4
<1>6. {"audio", "video"} \subseteq Shell!Things
  <2> DEFINE up == Shell!DeviceInfoInitialize
  <2>1. /\ Len(up) \in Nat /\ Len(up) >= 8
        /\ up[7].x = "audio"
        /\ up[8].x = "video"
    BY SMTT(60) DEF Shell!DeviceInfoInitialize
  <2>2. Shell!InitializeOf["DeviceInfo"] = up /\ "DeviceInfo" \in Shell!Names
    BY DEF Shell!InitializeOf, Shell!Names
  <2>3. 7 \in 1 .. Len(up) /\ 8 \in 1 .. Len(up)
    BY <2>1
  <2>4. /\ Shell!InitializeOf["DeviceInfo"][7].x \in Shell!Things
        /\ Shell!InitializeOf["DeviceInfo"][8].x \in Shell!Things
    BY <1>1, <2>2, <2>3
  <2>5. QED BY <2>1, <2>2, <2>4
<1>7. QED BY <1>2, <1>3, <1>4, <1>5, <1>6 DEF Shell!FromRoot

-----------------------------------------------------------------------------
(* The next step of a list.                                                *)
UpTo(i) ==
  /\ i \in 1 .. Len(UpList) /\ Len(UpList) \in Nat /\ Len(DownList) \in Nat
  /\ GoesUp /\ GoesUp' /\ StepsUp = i - 1 /\ StepsUp' = i /\ StepsDown = 0 /\ StepsDown' = 0
  /\ UpList' = UpList /\ DownList' = DownList /\ plugin' = plugin

DownTo(j) ==
  /\ j \in 1 .. Len(DownList) /\ Len(UpList) \in Nat /\ Len(DownList) \in Nat
  /\ ~GoesUp /\ ~GoesUp' /\ StepsUp = Len(UpList) /\ StepsUp' = Len(UpList)
  /\ StepsDown = j - 1 /\ StepsDown' = j
  /\ UpList' = UpList /\ DownList' = DownList /\ plugin' = plugin

PairOff == PairsUp(UpList, DownList, plugin)

OwnInOrder ==
  /\ HaveInOrder /\ RefsInOrder /\ RootInOrder /\ RegsInOrder /\ PutsInOrder /\ HistoryInOrder

\* A step of Initialize that is skipped, or that gets nothing.
LEMMA UpNothing ==
  ASSUME OwnInOrder, PairOff, NEW i, UpTo(i),
         UpList[i].op \in {"put", "drop"} => ~Shell!Reached(UpList[i]),
         UNCHANGED <<have, refs, regs, process, stray, orphans>>
  PROVE  OwnInOrder'
<1>1. HaveInOrder'
  BY DEF OwnInOrder, HaveInOrder, UpTo, Drops, Gets, PairOff, PairsUp, UpInOrder, Shell!Reached
<1>2. RefsInOrder'
  BY DEF OwnInOrder, RefsInOrder
<1>3. RootInOrder'
  BY DEF OwnInOrder, RootInOrder, UpTo, Drops
<1>4. RegsInOrder'
  BY DEF OwnInOrder, RegsInOrder, UpTo, Puts, Pulls
<1>5. PutsInOrder'
  <2> SUFFICES ASSUME NEW j \in 1 .. Len(DownList), UpList[i].op = "put", UpList[i].x \notin InVain(plugin),
                      Pulls(DownList[j], UpList[i].x), DownList[j].when \subseteq have
               PROVE  FALSE
    BY DEF OwnInOrder, PutsInOrder, UpTo, Pulls
  <2>1. /\ \A y \in UpList[i].when : y \in DownList[j].when \/ (y \in {"root", "stateControl"} /\ "application" \in DownList[j].when)
        /\ \A k \in 1 .. Len(UpList) : k < i => ~Drops(UpList[k], "stateControl")
    BY DEF UpTo, PairOff, PairsUp, PulledAsPut, PutOnce, Puts, Pulls
  <2>2. "application" \in have => "root" \in have /\ "stateControl" \in have
    BY <2>1 DEF OwnInOrder, RootInOrder, UpTo, Shell!FromRoot, Results
  <2>3. UpList[i].when \subseteq have
    BY <2>1, <2>2
  <2>4. QED BY <2>3 DEF Shell!Reached
<1>6. HistoryInOrder'
  BY DEF OwnInOrder, HistoryInOrder, UpTo
<1>7. QED BY <1>1, <1>2, <1>3, <1>4, <1>5, <1>6 DEF OwnInOrder

\* Something is got.
LEMMA UpGets ==
  ASSUME OwnInOrder, PairOff, NEW i, UpTo(i), Gets(UpList[i]), Shell!Reached(UpList[i]), Shell!Got(UpList[i].x),
         IF UpList[i].x = "root" THEN process' \in {"inside", "alive"} ELSE process' = process,
         UNCHANGED <<regs, stray, orphans>>
  PROVE  OwnInOrder'
<1> DEFINE x == UpList[i].x
<1>0. /\ have' = have \cup {x} /\ refs' = [refs EXCEPT ![x] = @ + 1]
      /\ x \notin Results /\ UpList[i].op \notin {"put", "drop", "ask"}
      /\ x # "subSystems" => \A j \in 1 .. Len(UpList) : j < i /\ (Gets(UpList[j]) \/ UpList[j].op = "drop") => UpList[j].x # x
  BY DEF Shell!Got, UpTo, PairOff, PairsUp, UpInOrder, TakenOnce, Gets
<1>9. x # "subSystems" => x \notin have
  BY <1>0 DEF OwnInOrder, HaveInOrder, UpTo
<1>a. "root" \in UpList[i].when \/ UpList[i].when \cap Shell!FromRoot # {} => "root" \in have
  BY DEF Shell!Reached, OwnInOrder, RootInOrder, UpTo, Shell!FromRoot
<1>1. HaveInOrder'
  <2> SUFFICES ASSUME NEW y \in have' \ (Results \cup {"subSystems"})
               PROVE  /\ \E k \in 1 .. i : Gets(UpList[k]) /\ UpList[k].x = y
                      /\ \A k \in 1 .. i : ~Drops(UpList[k], y)
    BY DEF HaveInOrder, UpTo, Gets, Drops
  <2>1. CASE y \in have
    BY <2>1, <1>0 DEF OwnInOrder, HaveInOrder, UpTo, Drops
  <2>2. CASE y = x
    BY <2>2, <1>0 DEF UpTo, Drops
  <2>3. QED BY <2>1, <2>2, <1>0
<1>2. RefsInOrder'
  BY <1>0, <1>9 DEF OwnInOrder, RefsInOrder
<1>3. RootInOrder'
  <2>1. x \in Shell!FromRoot => "root" \in have
    BY <1>0, <1>a DEF UpTo, PairOff, PairsUp, UpInOrder, OfRoot
  <2>2. x = "videoCodecs" => "audioCodecs" \in have
    BY DEF UpTo, PairOff, PairsUp, UpInOrder, Shell!Reached
  <2>3. x = "application" => "stateControl" \in have
    BY DEF UpTo, PairOff, PairsUp, UpInOrder, Shell!Reached
  <2>4. QED BY <1>0, <2>1, <2>2, <2>3 DEF OwnInOrder, RootInOrder, UpTo, Drops
<1>4. RegsInOrder'
  <2>1. process \in {"inside", "alive"} => process' \in {"inside", "alive"}
    OBVIOUS
  <2>2. QED BY <1>0, <2>1 DEF OwnInOrder, RegsInOrder, UpTo, Puts, Pulls
<1>5. PutsInOrder'
  <2>1. process = "dead" => process' = "dead"
    BY <1>9 DEF OwnInOrder, RootInOrder
  <2> SUFFICES ASSUME NEW k \in 1 .. i, NEW j \in 1 .. Len(DownList),
                      UpList[k].op = "put", UpList[k].x \notin InVain(plugin),
                      Pulls(DownList[j], UpList[k].x), DownList[j].when \subseteq have'
               PROVE  UpList[k].x \in regs \/ (UpList[k].x \in Shell!Sinks /\ process' = "dead")
    BY DEF PutsInOrder, UpTo, Pulls
  <2>2. k # i /\ k \in 1 .. StepsUp
    BY <1>0 DEF UpTo
  <2>3. x \notin DownList[j].when
    BY <1>0, <2>2 DEF UpTo, PairOff, PairsUp, PulledAsPut, Puts, Pulls
  <2>4. DownList[j].when \subseteq have
    BY <1>0, <2>3
  <2>5. QED BY <2>1, <2>2, <2>4 DEF OwnInOrder, PutsInOrder, UpTo
<1>6. HistoryInOrder'
  BY DEF OwnInOrder, HistoryInOrder, UpTo
<1>7. QED BY <1>1, <1>2, <1>3, <1>4, <1>5, <1>6 DEF OwnInOrder

\* A call succeeds.
LEMMA UpAsks ==
  ASSUME OwnInOrder, PairOff, NEW i, UpTo(i), UpList[i].op = "ask", Shell!Reached(UpList[i]),
         have' = have \cup {UpList[i].x}, UNCHANGED <<refs, regs, process, stray, orphans>>
  PROVE  OwnInOrder'
<1> DEFINE x == UpList[i].x
<1>0. x \in Results
  BY DEF UpTo, PairOff, PairsUp, UpInOrder
<1>1. HaveInOrder'
  BY <1>0 DEF OwnInOrder, HaveInOrder, UpTo, Drops, Gets
<1>2. RefsInOrder'
  BY <1>0 DEF OwnInOrder, RefsInOrder
<1>3. RootInOrder'
  <2>1. x \in Shell!FromRoot => UpList[i].when \cap OfRoot # {}
    BY DEF UpTo, PairOff, PairsUp, UpInOrder
  <2>2. UpList[i].when \cap OfRoot # {} => "root" \in have
    BY DEF Shell!Reached, OwnInOrder, RootInOrder, UpTo, Shell!FromRoot, OfRoot
  <2>3. x \notin {"root", "videoCodecs", "application"}
    BY <1>0 DEF Results
  <2>4. QED BY <1>0, <2>1, <2>2, <2>3 DEF OwnInOrder, RootInOrder, UpTo, Drops
<1>4. RegsInOrder'
  BY DEF OwnInOrder, RegsInOrder, UpTo, Puts, Pulls
<1>5. PutsInOrder'
  <2> SUFFICES ASSUME NEW k \in 1 .. i, NEW j \in 1 .. Len(DownList),
                      UpList[k].op = "put", UpList[k].x \notin InVain(plugin),
                      Pulls(DownList[j], UpList[k].x), DownList[j].when \subseteq have'
               PROVE  UpList[k].x \in regs \/ (UpList[k].x \in Shell!Sinks /\ process = "dead")
    BY DEF PutsInOrder, UpTo, Pulls
  <2>2. k # i /\ k \in 1 .. StepsUp
    BY DEF UpTo
  <2>3. x \notin DownList[j].when
    BY <2>2 DEF UpTo, PairOff, PairsUp, PulledAsPut, Puts, Pulls
  <2>4. DownList[j].when \subseteq have
    BY <2>3
  <2>5. QED BY <2>2, <2>4 DEF OwnInOrder, PutsInOrder, UpTo
<1>6. HistoryInOrder'
  BY DEF OwnInOrder, HistoryInOrder, UpTo
<1>7. QED BY <1>1, <1>2, <1>3, <1>4, <1>5, <1>6 DEF OwnInOrder

\* Something is registered.
LEMMA UpPuts ==
  ASSUME OwnInOrder, PairOff, NEW i, UpTo(i), Shell!PutStep(UpList[i])
  PROVE  OwnInOrder'
<1> DEFINE x == UpList[i].x
<1>0. /\ UpList[i].op = "put" /\ Shell!Reached(UpList[i])
      /\ regs' = IF x \in Shell!Sinks /\ process = "dead" THEN regs ELSE regs \cup {x}
      /\ UNCHANGED <<have, refs, process, stray, orphans>>
  BY DEF Shell!PutStep
<1>1. HaveInOrder'
  BY <1>0 DEF OwnInOrder, HaveInOrder, UpTo, Drops, Gets
<1>2. RefsInOrder'
  BY <1>0 DEF OwnInOrder, RefsInOrder
<1>3. RootInOrder'
  BY <1>0 DEF OwnInOrder, RootInOrder, UpTo, Drops
<1>4. RegsInOrder'
  <2>1. UpList[i].when \cap OfRoot # {} => "root" \in have
    BY <1>0 DEF Shell!Reached, OwnInOrder, RootInOrder, UpTo, Shell!FromRoot, OfRoot
  <2>2. x \in Shell!Sinks => process # "none"
    BY <1>0, <2>1 DEF OwnInOrder, RootInOrder, UpTo, PairOff, PairsUp, UpInOrder
  <2>3. ASSUME NEW j \in 1 .. Len(DownList), Pulls(DownList[j], x), x # "subSystemSink",
               NEW y \in DownList[j].when \ {"alive"}
        PROVE  y \in have
    <3>1. \/ y \in UpList[i].when
          \/ y = "root" /\ UpList[i].when \cap OfRoot # {}
          \/ y = "audioCodecs" /\ "videoCodecs" \in UpList[i].when
      BY <2>3, <1>0 DEF UpTo, PairOff, PairsUp, PulledAsPut, Puts, Pulls
    <3>2. "videoCodecs" \in UpList[i].when => "audioCodecs" \in have
      BY <1>0 DEF Shell!Reached, OwnInOrder, RootInOrder, UpTo
    <3>3. QED BY <3>1, <3>2, <2>1, <1>0 DEF Shell!Reached
  <2>4. ASSUME NEW r \in regs'
        PROVE  /\ \E k \in 1 .. Len(UpList) : Puts(UpList[k], r)
               /\ r \in Shell!Sinks => process \in {"inside", "alive"}
               /\ r # "subSystemSink" =>
                    \A j \in 1 .. Len(DownList) : Pulls(DownList[j], r) =>
                      j > 0 /\ DownList[j].when \ {"alive"} \subseteq have
    <3>1. CASE r \in regs
      BY <3>1 DEF OwnInOrder, RegsInOrder, UpTo
    <3>2. CASE r \notin regs
      <4>1. r = x /\ ~(x \in Shell!Sinks /\ process = "dead")
        BY <3>2, <1>0
      <4>2. QED BY <4>1, <2>2, <2>3, <1>0 DEF OwnInOrder, RootInOrder, UpTo, Puts
    <3>3. QED BY <3>1, <3>2
  <2>5. QED BY <2>4, <1>0 DEF RegsInOrder, UpTo, Puts, Pulls
<1>5. PutsInOrder'
  BY <1>0 DEF OwnInOrder, PutsInOrder, UpTo, Pulls
<1>6. HistoryInOrder'
  BY <1>0 DEF OwnInOrder, HistoryInOrder, UpTo
<1>7. QED BY <1>1, <1>2, <1>3, <1>4, <1>5, <1>6 DEF OwnInOrder

\* Initialize releases what it only needed for a while.
LEMMA UpDrops ==
  ASSUME OwnInOrder, PairOff, NEW i, UpTo(i), Shell!DropStep(UpList[i])
  PROVE  OwnInOrder'
<1> DEFINE x == UpList[i].x
<1>0. /\ UpList[i].op = "drop" /\ x \in {"stateControl", "subSystems"} /\ Shell!Reached(UpList[i])
      /\ x # "subSystems" => UpList[i].when = {x}
      /\ have' = have \ {x} /\ refs' = [refs EXCEPT ![x] = @ - 1]
      /\ UNCHANGED <<regs, process, stray, orphans>>
  BY DEF Shell!DropStep, UpTo, PairOff, PairsUp, UpInOrder
<1>8. x # "subSystems" => x \in have
  BY <1>0 DEF Shell!Reached
<1>9. x \notin Results \cup {"root", "audioCodecs"}
  BY <1>0 DEF Results
<1>1. HaveInOrder'
  BY <1>0 DEF OwnInOrder, HaveInOrder, UpTo, Drops, Gets
<1>2. RefsInOrder'
  <2> SUFFICES ASSUME NEW y \in Shell!Things \ {"subSystems"}
               PROVE  refs'[y] = IF y \in have' \ Results THEN 1 ELSE 0
    BY <1>0 DEF OwnInOrder, RefsInOrder
  <2>1. CASE y = x
    BY <2>1, <1>0, <1>8, <1>9 DEF OwnInOrder, RefsInOrder
  <2>2. CASE y # x
    BY <2>2, <1>0 DEF OwnInOrder, RefsInOrder
  <2>3. QED BY <2>1, <2>2
<1>3. RootInOrder'
  BY <1>0, <1>9 DEF OwnInOrder, RootInOrder, UpTo, Drops
<1>4. RegsInOrder'
  <2>1. ASSUME NEW j \in 1 .. Len(DownList), DownList[j].op = "pull"
        PROVE  x \notin DownList[j].when
    BY <2>1, <1>0 DEF UpTo, PairOff, PairsUp, PulledOnce
  <2>2. QED BY <1>0, <2>1 DEF OwnInOrder, RegsInOrder, UpTo, Puts, Pulls
<1>5. PutsInOrder'
  BY <1>0 DEF OwnInOrder, PutsInOrder, UpTo, Pulls
<1>6. HistoryInOrder'
  BY <1>0 DEF OwnInOrder, HistoryInOrder, UpTo
<1>7. QED BY <1>1, <1>2, <1>3, <1>4, <1>5, <1>6 DEF OwnInOrder

\* A step of Deinitialize that is skipped: neither was it registered, nor is it there.
LEMMA DownNothing ==
  ASSUME OwnInOrder, PairOff, NEW j, DownTo(j), Shell!Skip(DownList[j])
  PROVE  OwnInOrder'
<1>0. ~Shell!Reached(DownList[j]) /\ UNCHANGED <<have, refs, regs, process, stray, orphans>>
  BY DEF Shell!Skip
<1>1. HaveInOrder'
  BY <1>0 DEF OwnInOrder, HaveInOrder, DownTo, Drops, Gets, PairOff, PairsUp, DownInOrder, Shell!Reached
<1>2. RefsInOrder'
  BY <1>0 DEF OwnInOrder, RefsInOrder
<1>3. RootInOrder'
  BY <1>0 DEF OwnInOrder, RootInOrder, DownTo, Drops
<1>4. RegsInOrder'
  <2>1. ASSUME NEW r \in regs, r # "subSystemSink"
        PROVE  ~Pulls(DownList[j], r)
    <3> SUFFICES ASSUME Pulls(DownList[j], r)
                 PROVE  FALSE
      OBVIOUS
    <3>1. DownList[j].when \ {"alive"} \subseteq have
      BY <2>1 DEF OwnInOrder, RegsInOrder, DownTo
    <3>2. "alive" \in DownList[j].when /\ process = "dead"
      BY <3>1, <1>0 DEF Shell!Reached
    <3>3. r \in Shell!Sinks
      BY <3>2, <2>1 DEF DownTo, PairOff, PairsUp, DownInOrder, Pulls
    <3>4. QED BY <3>2, <3>3 DEF OwnInOrder, RegsInOrder
  <2>2. QED BY <1>0, <2>1 DEF OwnInOrder, RegsInOrder, DownTo, Puts, Pulls
<1>5. PutsInOrder'
  BY <1>0 DEF OwnInOrder, PutsInOrder, DownTo, Pulls
<1>6. HistoryInOrder'
  BY <1>0 DEF OwnInOrder, HistoryInOrder, DownTo
<1>7. QED BY <1>1, <1>2, <1>3, <1>4, <1>5, <1>6 DEF OwnInOrder

\* SubSystems() returns one more reference.
LEMMA DownHolds ==
  ASSUME OwnInOrder, PairOff, NEW j, DownTo(j), Shell!HoldStep(DownList[j])
  PROVE  OwnInOrder'
<1>0. /\ DownList[j].op = "hold" /\ DownList[j].x = "subSystems"
      /\ have' = have \cup {"subSystems"} /\ refs' = [refs EXCEPT !["subSystems"] = @ + 1]
      /\ UNCHANGED <<regs, process, stray, orphans>>
  BY DEF Shell!HoldStep, Shell!Got, DownTo, PairOff, PairsUp, DownInOrder
<1>1. HaveInOrder'
  BY <1>0 DEF OwnInOrder, HaveInOrder, DownTo, Drops, Gets
<1>2. RefsInOrder'
  BY <1>0 DEF OwnInOrder, RefsInOrder
<1>3. RootInOrder'
  <2>1. "subSystems" \notin Shell!FromRoot \cup {"root"}
    BY DEF Shell!FromRoot
  <2>2. QED BY <1>0, <2>1 DEF OwnInOrder, RootInOrder, DownTo, Drops
<1>4. RegsInOrder'
  BY <1>0 DEF OwnInOrder, RegsInOrder, DownTo, Puts, Pulls
<1>5. PutsInOrder'
  <2>1. \A k \in 1 .. Len(DownList) : DownList[k].op = "pull" => "subSystems" \notin DownList[k].when
    BY <1>0 DEF DownTo, PairOff, PairsUp, DownInOrder
  <2>2. QED BY <1>0, <2>1 DEF OwnInOrder, PutsInOrder, DownTo, Pulls
<1>6. HistoryInOrder'
  BY <1>0 DEF OwnInOrder, HistoryInOrder, DownTo
<1>7. QED BY <1>1, <1>2, <1>3, <1>4, <1>5, <1>6 DEF OwnInOrder

\* Something is unregistered that was registered, or that may be in vain.
LEMMA DownPulls ==
  ASSUME OwnInOrder, PairOff, NEW j, DownTo(j), Shell!PullStep(DownList[j])
  PROVE  OwnInOrder'
<1> DEFINE r == DownList[j].x
<1>0. /\ DownList[j].op = "pull" /\ Shell!Reached(DownList[j])
      /\ regs' = regs \ {r}
      /\ stray' = IF r \in regs \/ (r \in Shell!Sinks /\ process = "dead")
                  THEN stray ELSE stray \cup {r}
      /\ UNCHANGED <<have, refs, process, orphans>>
  BY DEF Shell!PullStep
<1>9. \A k \in 1 .. Len(DownList) : k # j => ~Pulls(DownList[k], r)
  BY <1>0 DEF DownTo, PairOff, PairsUp, PulledOnce
<1>1. HaveInOrder'
  BY <1>0 DEF OwnInOrder, HaveInOrder, DownTo, Drops, Gets
<1>2. RefsInOrder'
  BY <1>0 DEF OwnInOrder, RefsInOrder
<1>3. RootInOrder'
  BY <1>0 DEF OwnInOrder, RootInOrder, DownTo, Drops
<1>4. RegsInOrder'
  BY <1>0 DEF OwnInOrder, RegsInOrder, DownTo, Puts, Pulls
<1>5. PutsInOrder'
  BY <1>0, <1>9 DEF OwnInOrder, PutsInOrder, DownTo, Pulls
<1>6. HistoryInOrder'
  <2>1. r \notin InVain(plugin) => r \in regs \/ (r \in Shell!Sinks /\ process = "dead")
    <3> SUFFICES ASSUME r \notin InVain(plugin)
                 PROVE  r \in regs \/ (r \in Shell!Sinks /\ process = "dead")
      OBVIOUS
    <3>1. /\ "alive" \notin DownList[j].when
          /\ \E i \in 1 .. Len(UpList) : Puts(UpList[i], r)
      BY <1>0 DEF DownTo, PairOff, PairsUp, PulledOnce
    <3>2. DownList[j].when \subseteq have
      BY <3>1, <1>0 DEF Shell!Reached
    <3>3. QED BY <3>1, <3>2, <1>0 DEF OwnInOrder, PutsInOrder, DownTo, Puts, Pulls
  <2>2. QED BY <1>0, <2>1 DEF OwnInOrder, HistoryInOrder, DownTo
<1>7. QED BY <1>1, <1>2, <1>3, <1>4, <1>5, <1>6 DEF OwnInOrder

\* Something is released.
LEMMA DownDrops ==
  ASSUME OwnInOrder, PairOff, NEW j, DownTo(j), Shell!DropStep(DownList[j])
  PROVE  OwnInOrder'
<1> DEFINE x == DownList[j].x
<1>0. /\ DownList[j].op = "drop" /\ x \in have /\ x \notin Results
      /\ have' = have \ {x} /\ refs' = [refs EXCEPT ![x] = @ - 1]
      /\ IF x = "root"
         THEN /\ orphans' = orphans \cup (regs \cap Shell!Sinks)
              /\ regs' = regs \ Shell!Sinks
              /\ process' = "none"
         ELSE UNCHANGED <<regs, process, orphans>>
      /\ stray' = stray
  BY DEF Shell!DropStep, Shell!Reached, DownTo, PairOff, PairsUp, DownInOrder
<1>1. HaveInOrder'
  BY <1>0 DEF OwnInOrder, HaveInOrder, DownTo, Drops, Gets
<1>2. RefsInOrder'
  <2> SUFFICES ASSUME NEW y \in Shell!Things \ {"subSystems"}
               PROVE  refs'[y] = IF y \in have' \ Results THEN 1 ELSE 0
    BY <1>0 DEF OwnInOrder, RefsInOrder
  <2>1. CASE y = x
    BY <2>1, <1>0 DEF OwnInOrder, RefsInOrder
  <2>2. CASE y # x
    BY <2>2, <1>0 DEF OwnInOrder, RefsInOrder
  <2>3. QED BY <2>1, <2>2
<1>3. RootInOrder'
  <2>1. CASE x = "root"
    <3>1. ASSUME NEW y \in have \cap (Shell!FromRoot \ Results)
          PROVE  FALSE
      <4>1. y # "subSystems"
        BY DEF Shell!FromRoot
      <4>2. PICK i \in 1 .. Len(UpList) : Gets(UpList[i]) /\ UpList[i].x = y
        BY <4>1 DEF OwnInOrder, HaveInOrder, DownTo
      <4>3. \/ \E m \in 1 .. Len(UpList) : Drops(UpList[m], y)
            \/ \E m \in 1 .. Len(DownList) : m < j /\ Drops(DownList[m], y)
        BY <2>1, <1>0, <4>2 DEF DownTo, PairOff, PairsUp, RootLast, Drops
      <4>4. QED BY <4>1, <4>3 DEF OwnInOrder, HaveInOrder, DownTo
    <3>2. QED BY <2>1, <3>1, <1>0 DEF OwnInOrder, RootInOrder, DownTo
  <2>2. CASE x # "root"
    BY <2>2, <1>0 DEF OwnInOrder, RootInOrder, DownTo
  <2>3. QED BY <2>1, <2>2
<1>4. RegsInOrder'
  <2>1. regs' \subseteq regs /\ \A r \in regs' \cap Shell!Sinks : process' = process
    BY <1>0
  <2>2. ASSUME NEW k \in 1 .. Len(DownList), DownList[k].op = "pull", k > j - 1
        PROVE  k > j /\ x \notin DownList[k].when
    BY <2>2, <1>0 DEF DownTo, PairOff, PairsUp, PulledOnce
  <2>3. QED BY <1>0, <2>1, <2>2 DEF OwnInOrder, RegsInOrder, DownTo, Puts, Pulls
<1>5. PutsInOrder'
  <2>1. CASE x = "root"
    <3>1. \A k \in 1 .. Len(DownList) : DownList[k].op = "pull" /\ DownList[k].x \in Shell!Sinks => k < j
      BY <2>1, <1>0 DEF DownTo, PairOff, PairsUp, RootLast, Drops
    <3>2. QED BY <2>1, <3>1, <1>0 DEF OwnInOrder, PutsInOrder, DownTo, Pulls
  <2>2. CASE x # "root"
    BY <2>2, <1>0 DEF OwnInOrder, PutsInOrder, DownTo, Pulls
  <2>3. QED BY <2>1, <2>2
<1>6. HistoryInOrder'
  <2>1. CASE x = "root"
    <3>1. ASSUME NEW r \in regs \cap Shell!Sinks, r # "stateControllerSink"
          PROVE  FALSE
      <4>1. PICK i \in 1 .. Len(UpList) : Puts(UpList[i], r)
        BY DEF OwnInOrder, RegsInOrder
      <4>2. PICK m \in 1 .. Len(DownList) : m < j /\ Pulls(DownList[m], r)
        BY <2>1, <1>0, <3>1, <4>1 DEF DownTo, PairOff, PairsUp, RootLast, Drops, Puts
      <4>3. r # "subSystemSink"
        BY DEF Shell!Sinks
      <4>4. QED BY <4>2, <4>3 DEF OwnInOrder, RegsInOrder, DownTo
    <3>2. QED BY <2>1, <3>1, <1>0 DEF OwnInOrder, HistoryInOrder, DownTo
  <2>2. CASE x # "root"
    BY <2>2, <1>0 DEF OwnInOrder, HistoryInOrder, DownTo
  <2>3. QED BY <2>1, <2>2
<1>7. QED BY <1>1, <1>2, <1>3, <1>4, <1>5, <1>6 DEF OwnInOrder

LEMMA PlaceOf ==
  ASSUME PlaceInOrder
  PROVE  /\ PairOff /\ Len(UpList) \in Nat /\ Len(DownList) \in Nat
BY PairsOf, PluginsAssumption DEF PlaceInOrder, PairOff, PairsUp, IsList, UpList, DownList

\* The next step of the list that is under way.
LEMMA ToDoGoesOn ==
  ASSUME NEW steps, IsList(steps), ToDoOf(steps), todo # <<>>, todo' = Tail(todo)
  PROVE  /\ Len(steps) - Len(todo) + 1 \in 1 .. Len(steps)
         /\ Head(todo) = steps[Len(steps) - Len(todo) + 1]
         /\ Len(todo') = Len(todo) - 1 /\ Len(todo) \in Nat
         /\ todo' \in Seq(Entries(steps)) /\ Len(todo') <= Len(steps)
         /\ \A i \in 1 .. Len(todo') : todo'[i] = steps[Len(steps) - Len(todo') + i]
<1>1. todo \in Seq(Entries(steps)) /\ Len(steps) \in Nat /\ Len(todo) \in Nat /\ Len(todo) <= Len(steps)
  BY DEF ToDoOf, IsList
<1>2. Len(todo) > 0 /\ Head(todo) = todo[1]
  BY <1>1
<1>3. /\ todo' \in Seq(Entries(steps)) /\ Len(todo') = Len(todo) - 1
      /\ \A i \in 1 .. Len(todo') : todo'[i] = todo[i + 1]
  BY <1>1, <1>2
<1>4. \A i \in 1 .. Len(todo) : todo[i] = steps[Len(steps) - Len(todo) + i]
  BY DEF ToDoOf
<1>5. ASSUME NEW i \in 1 .. Len(todo')
      PROVE  todo'[i] = steps[Len(steps) - Len(todo') + i]
  <2>1. i + 1 \in 1 .. Len(todo) /\ Len(steps) - Len(todo) + (i + 1) = Len(steps) - Len(todo') + i
    BY <1>1, <1>3
  <2>2. todo'[i] = steps[Len(steps) - Len(todo) + (i + 1)]
    BY <2>1, <1>3, <1>4
  <2>3. QED BY <2>1, <2>2
<1>6. Head(todo) = steps[Len(steps) - Len(todo) + 1]
  BY <1>1, <1>2, <1>4
<1>7. QED BY <1>1, <1>2, <1>3, <1>5, <1>6

LEMMA ExecuteMoves ==
  ASSUME PlaceInOrder, Shell!Execute
  PROVE  /\ PlaceInOrder'
         /\ \/ \E i : UpTo(i) /\ Head(todo) = UpList[i]
            \/ \E j : DownTo(j) /\ Head(todo) = DownList[j]
<1>1. todo # <<>> /\ todo' = Tail(todo) /\ plugin' = plugin /\ life' = life
  BY DEF Shell!Execute
<1>2. /\ PairOff /\ Len(UpList) \in Nat /\ Len(DownList) \in Nat
      /\ IsList(UpList) /\ IsList(DownList)
  BY PlaceOf DEF PairOff, PairsUp
<1>3. UpList' = UpList /\ DownList' = DownList
  BY <1>1 DEF UpList, DownList
<1>4. CASE life = "initializing"
  <2>1. ToDoOf(UpList)
    BY <1>4 DEF PlaceInOrder
  <2> DEFINE i == Len(UpList) - Len(todo) + 1
  <2>2. /\ i \in 1 .. Len(UpList) /\ Head(todo) = UpList[i]
        /\ Len(todo') = Len(todo) - 1 /\ Len(todo) \in Nat
        /\ todo' \in Seq(Entries(UpList)) /\ Len(todo') <= Len(UpList)
        /\ \A k \in 1 .. Len(todo') : todo'[k] = UpList[Len(UpList) - Len(todo') + k]
    BY <2>1, <1>1, <1>2, ToDoGoesOn
  <2>3. ToDoOf(UpList)'
    BY <2>2, <1>3 DEF ToDoOf
  <2>4. UpTo(i)
    BY <2>2, <1>1, <1>2, <1>3, <1>4 DEF UpTo, GoesUp, StepsUp, StepsDown
  <2>5. PlaceInOrder'
    BY <2>3, <1>1, <1>4 DEF PlaceInOrder
  <2>6. QED BY <2>2, <2>4, <2>5
<1>5. CASE life = "deinitializing"
  <2>1. ToDoOf(DownList)
    BY <1>5 DEF PlaceInOrder
  <2> DEFINE j == Len(DownList) - Len(todo) + 1
  <2>2. /\ j \in 1 .. Len(DownList) /\ Head(todo) = DownList[j]
        /\ Len(todo') = Len(todo) - 1 /\ Len(todo) \in Nat
        /\ todo' \in Seq(Entries(DownList)) /\ Len(todo') <= Len(DownList)
        /\ \A k \in 1 .. Len(todo') : todo'[k] = DownList[Len(DownList) - Len(todo') + k]
    BY <2>1, <1>1, <1>2, ToDoGoesOn
  <2>3. ToDoOf(DownList)'
    BY <2>2, <1>3 DEF ToDoOf
  <2>4. DownTo(j)
    BY <2>2, <1>1, <1>2, <1>3, <1>5 DEF DownTo, GoesUp, StepsUp, StepsDown
  <2>5. PlaceInOrder'
    BY <2>3, <1>1, <1>5 DEF PlaceInOrder
  <2>6. QED BY <2>2, <2>4, <2>5
<1>6. QED BY <1>1, <1>4, <1>5 DEF PlaceInOrder

\* Whatever the step is.
LEMMA ExecuteStep ==
  ASSUME ShellInv, Shell!Execute
  PROVE  ShellInv'
<1>0. OwnInOrder /\ PlaceInOrder /\ PairOff
  BY PlaceOf DEF ShellInv, OwnInOrder
<1> DEFINE s == Head(todo)
<1>1. \/ Shell!Skip(s) \/ Shell!HoldStep(s) \/ Shell!TakeStep(s) \/ Shell!AskStep(s) \/ Shell!RootStep(s)
      \/ Shell!WatchStep(s) \/ Shell!PutStep(s) \/ Shell!PullStep(s) \/ Shell!DropStep(s)
  BY DEF Shell!Execute
<1>2. ASSUME NEW i, UpTo(i), s = UpList[i]
      PROVE  OwnInOrder'
  <2>0. /\ s.op \in {"hold", "take", "ask", "root", "watch", "put", "drop"}
        /\ s.op = "root" <=> s.x = "root"
    BY <1>0, <1>2 DEF UpTo, PairOff, PairsUp, UpInOrder
  <2>1. CASE Shell!Skip(s)
    BY <2>1, <1>0, <1>2, UpNothing DEF Shell!Skip
  <2>2. CASE Shell!HoldStep(s)
    BY <2>0, <2>2, <1>0, <1>2, UpGets DEF Shell!HoldStep, Gets
  <2>3. CASE Shell!TakeStep(s)
    <3>1. CASE Shell!Got(s.x)
      BY <2>0, <2>3, <3>1, <1>0, <1>2, UpGets DEF Shell!TakeStep, Gets
    <3>2. CASE Shell!Missed(s)
      BY <2>3, <3>2, <1>0, <1>2, UpNothing DEF Shell!TakeStep, Shell!Missed
    <3>3. QED BY <2>3, <3>1, <3>2 DEF Shell!TakeStep
  <2>4. CASE Shell!AskStep(s)
    <3>1. CASE have' = have \cup {s.x} /\ UNCHANGED refs
      BY <2>4, <3>1, <1>0, <1>2, UpAsks DEF Shell!AskStep
    <3>2. CASE Shell!Missed(s)
      BY <2>4, <3>2, <1>0, <1>2, UpNothing DEF Shell!AskStep, Shell!Missed
    <3>3. QED BY <2>4, <3>1, <3>2 DEF Shell!AskStep
  <2>5. CASE Shell!RootStep(s)
    <3>1. CASE Shell!Got("root") /\ process' \in {"inside", "alive"}
      BY <2>0, <2>5, <3>1, <1>0, <1>2, UpGets DEF Shell!RootStep, Gets
    <3>2. CASE Shell!Missed(s) /\ UNCHANGED process
      BY <2>5, <3>2, <1>0, <1>2, UpNothing DEF Shell!RootStep, Shell!Missed
    <3>3. QED BY <2>5, <3>1, <3>2 DEF Shell!RootStep
  <2>6. CASE Shell!WatchStep(s)
    <3>1. CASE Shell!Got(s.x)
      BY <2>0, <2>6, <3>1, <1>0, <1>2, UpGets DEF Shell!WatchStep, Gets
    <3>2. CASE Shell!Missed(s)
      BY <2>6, <3>2, <1>0, <1>2, UpNothing DEF Shell!WatchStep, Shell!Missed
    <3>3. QED BY <2>6, <3>1, <3>2 DEF Shell!WatchStep
  <2>7. CASE Shell!PutStep(s)
    BY <2>7, <1>0, <1>2, UpPuts
  <2>8. CASE Shell!DropStep(s)
    BY <2>8, <1>0, <1>2, UpDrops
  <2>9. ~Shell!PullStep(s)
    BY <2>0 DEF Shell!PullStep
  <2>10. QED BY <1>1, <2>1, <2>2, <2>3, <2>4, <2>5, <2>6, <2>7, <2>8, <2>9
<1>3. ASSUME NEW j, DownTo(j), s = DownList[j]
      PROVE  OwnInOrder'
  <2>0. s.op \in {"hold", "pull", "drop"}
    BY <1>0, <1>3 DEF DownTo, PairOff, PairsUp, DownInOrder
  <2>1. \/ Shell!Skip(s) \/ Shell!HoldStep(s) \/ Shell!PullStep(s) \/ Shell!DropStep(s)
    BY <2>0, <1>1 DEF Shell!TakeStep, Shell!AskStep, Shell!RootStep, Shell!WatchStep, Shell!PutStep
  <2>2. QED BY <2>1, <1>0, <1>3, DownNothing, DownHolds, DownPulls, DownDrops
<1>4. QED BY <1>0, <1>2, <1>3, ExecuteMoves DEF ShellInv, OwnInOrder

\* A plugin that is deactivated has nothing left.
LEMMA NothingLeft ==
  ASSUME ShellInv, life = "deactivated"
  PROVE  /\ have \subseteq Results \cup {"subSystems"}
         /\ \A r \in regs : r # "subSystemSink" => \A j \in 1 .. Len(DownList) : ~Pulls(DownList[j], r)
<1>0. PairOff /\ Len(UpList) \in Nat /\ Len(DownList) \in Nat
  BY PlaceOf DEF ShellInv
<1>1. StepsUp = Len(UpList) /\ StepsDown = Len(DownList)
  BY <1>0 DEF ShellInv, PlaceInOrder, StepsUp, StepsDown, GoesUp
<1>2. ASSUME NEW x \in have \ (Results \cup {"subSystems"})
      PROVE  FALSE
  <2>1. PICK i \in 1 .. Len(UpList) : Gets(UpList[i]) /\ UpList[i].x = x
    BY <1>1 DEF ShellInv, HaveInOrder
  <2>2. \/ \E k \in 1 .. Len(UpList) : Drops(UpList[k], x)
        \/ \E k \in 1 .. Len(DownList) : Drops(DownList[k], x)
    BY <2>1, <1>0 DEF PairOff, PairsUp, TakenOnce
  <2>3. QED BY <2>2, <1>1 DEF ShellInv, HaveInOrder
<1>3. QED BY <1>0, <1>1, <1>2 DEF ShellInv, RegsInOrder

\* Thunder starts and stops the plugin.
LEMMA ActivateStep ==
  ASSUME ShellInv, Shell!Activate
  PROVE  ShellInv'
<1>0. /\ Len(UpList) \in Nat /\ Len(DownList) \in Nat /\ IsList(UpList)
  BY PlaceOf DEF ShellInv, PairOff, PairsUp
<1>1. /\ life = "deactivated" /\ life' = "initializing" /\ todo' = UpList
      /\ have' = have \ Results
      /\ UNCHANGED <<plugin, refs, regs, process, stray, orphans>>
      /\ UpList' = UpList /\ DownList' = DownList
  BY DEF Shell!Activate, UpList, DownList, Results
<1>2. GoesUp' /\ StepsUp' = 0 /\ StepsDown' = 0
  BY <1>0, <1>1 DEF GoesUp, StepsUp, StepsDown
<1>3. have' \subseteq {"subSystems"}
  BY <1>1, NothingLeft
<1>4. PlaceInOrder'
  BY <1>0, <1>1 DEF ShellInv, PlaceInOrder, ToDoOf, IsList
<1>5. HaveInOrder' /\ HistoryInOrder'
  BY <1>1, <1>3 DEF ShellInv, HaveInOrder, HistoryInOrder
<1>6. RefsInOrder'
  BY <1>1 DEF ShellInv, RefsInOrder
<1>7. RootInOrder'
  BY <1>1, <1>3 DEF ShellInv, RootInOrder, Shell!FromRoot, Results
<1>8. RegsInOrder'
  BY <1>1, <1>2, NothingLeft DEF ShellInv, RegsInOrder, Puts
<1>9. PutsInOrder'
  BY <1>2 DEF PutsInOrder
<1>10. QED BY <1>4, <1>5, <1>6, <1>7, <1>8, <1>9 DEF ShellInv

LEMMA StopStep ==
  ASSUME ShellInv, todo = <<>>, life \in {"initializing", "activated"}, Shell!Stopping, Shell!Unchanged
  PROVE  ShellInv'
<1>0. /\ Len(UpList) \in Nat /\ Len(DownList) \in Nat /\ IsList(DownList)
  BY PlaceOf DEF ShellInv, PairOff, PairsUp
<1>1. /\ life' = "deinitializing" /\ todo' = DownList
      /\ UNCHANGED <<plugin, have, refs, regs, process, stray, orphans>>
      /\ UpList' = UpList /\ DownList' = DownList
  BY DEF Shell!Stopping, Shell!Unchanged, UpList, DownList
<1>2. /\ StepsUp' = StepsUp /\ StepsUp = Len(UpList) /\ StepsDown' = StepsDown /\ StepsDown = 0 /\ ~GoesUp'
  BY <1>0, <1>1 DEF GoesUp, StepsUp, StepsDown
<1>4. PlaceInOrder'
  BY <1>0, <1>1 DEF ShellInv, PlaceInOrder, ToDoOf, IsList
<1>5. HaveInOrder' /\ HistoryInOrder'
  BY <1>1, <1>2 DEF ShellInv, HaveInOrder, HistoryInOrder, Gets, Drops
<1>6. RefsInOrder'
  BY <1>1 DEF ShellInv, RefsInOrder
<1>7. RootInOrder'
  BY <1>1, <1>2 DEF ShellInv, RootInOrder
<1>8. RegsInOrder'
  BY <1>1, <1>2 DEF ShellInv, RegsInOrder, Puts, Pulls
<1>9. PutsInOrder'
  BY <1>1, <1>2 DEF ShellInv, PutsInOrder, Pulls
<1>10. QED BY <1>4, <1>5, <1>6, <1>7, <1>8, <1>9 DEF ShellInv

\* A list is at its end, and the plugin stays where it is.
LEMMA RestStep ==
  ASSUME ShellInv, todo = <<>>, UNCHANGED todo, Shell!Unchanged,
         \/ life = "initializing" /\ life' = "activated"
         \/ life = "deinitializing" /\ life' = "deactivated"
         \/ life = "deactivated" /\ UNCHANGED life
  PROVE  ShellInv'
<1>0. Len(UpList) \in Nat /\ Len(DownList) \in Nat
  BY PlaceOf DEF ShellInv
<1>1. /\ UNCHANGED <<plugin, have, refs, regs, process, stray, orphans>>
      /\ UpList' = UpList /\ DownList' = DownList
  BY DEF Shell!Unchanged, UpList, DownList
<1>2. StepsUp' = StepsUp /\ StepsDown' = StepsDown /\ GoesUp' = GoesUp
  BY <1>0, <1>1 DEF GoesUp, StepsUp, StepsDown
<1>4. PlaceInOrder'
  BY <1>0, <1>1 DEF ShellInv, PlaceInOrder
<1>5. HaveInOrder' /\ HistoryInOrder'
  BY <1>1, <1>2 DEF ShellInv, HaveInOrder, HistoryInOrder, Gets, Drops
<1>6. RefsInOrder'
  BY <1>1 DEF ShellInv, RefsInOrder
<1>7. RootInOrder'
  BY <1>1, <1>2 DEF ShellInv, RootInOrder, Drops
<1>8. RegsInOrder'
  BY <1>1, <1>2 DEF ShellInv, RegsInOrder, Puts, Pulls
<1>9. PutsInOrder'
  BY <1>1, <1>2 DEF ShellInv, PutsInOrder, Pulls
<1>10. QED BY <1>4, <1>5, <1>6, <1>7, <1>8, <1>9 DEF ShellInv

\* The process of the implementation dies.
LEMMA DiesStep ==
  ASSUME ShellInv, Shell!Deactivated
  PROVE  ShellInv'
<1>1. /\ process = "alive" /\ process' = "dead" /\ regs' = regs \ Shell!Sinks
      /\ UNCHANGED <<plugin, life, todo, have, refs, stray, orphans>>
  BY DEF Shell!Deactivated
<1>2. /\ UpList' = UpList /\ DownList' = DownList
      /\ StepsUp' = StepsUp /\ StepsDown' = StepsDown /\ GoesUp' = GoesUp
  BY <1>1 DEF UpList, DownList, GoesUp, StepsUp, StepsDown
<1>4. PlaceInOrder'
  BY <1>1, <1>2 DEF ShellInv, PlaceInOrder, ToDoOf
<1>5. HaveInOrder' /\ HistoryInOrder'
  BY <1>1, <1>2 DEF ShellInv, HaveInOrder, HistoryInOrder, Gets, Drops
<1>6. RefsInOrder'
  BY <1>1 DEF ShellInv, RefsInOrder
<1>7. RootInOrder'
  BY <1>1, <1>2 DEF ShellInv, RootInOrder, Drops
<1>8. RegsInOrder'
  BY <1>1, <1>2 DEF ShellInv, RegsInOrder, Puts, Pulls
<1>9. PutsInOrder'
  BY <1>1, <1>2 DEF ShellInv, PutsInOrder, Pulls
<1>10. QED BY <1>4, <1>5, <1>6, <1>7, <1>8, <1>9 DEF ShellInv

LEMMA ShellStep ==
  ASSUME ShellInv, Shell!Next \/ UNCHANGED pluginVars
  PROVE  ShellInv'
<1>1. CASE Shell!Execute
  BY <1>1, ExecuteStep
<1>2. CASE Shell!Activate
  BY <1>2, ActivateStep
<1>3. CASE Shell!Returned
  <2>1. CASE life = "initializing" /\ Shell!Stopping
    BY <2>1, <1>3, StopStep DEF Shell!Returned
  <2>2. CASE life = "initializing" /\ life' = "activated" /\ UNCHANGED todo
    BY <2>2, <1>3, RestStep DEF Shell!Returned
  <2>3. CASE life = "deinitializing" /\ life' = "deactivated" /\ UNCHANGED todo
    BY <2>3, <1>3, RestStep DEF Shell!Returned
  <2>4. QED BY <1>3, <2>1, <2>2, <2>3 DEF Shell!Returned
<1>4. CASE Shell!Deactivate
  BY <1>4, StopStep DEF Shell!Deactivate, ShellInv, PlaceInOrder
<1>5. CASE Shell!Job
  <2>1. CASE life = "activated" /\ Shell!Stopping
    BY <2>1, <1>5, StopStep DEF Shell!Job, ShellInv, PlaceInOrder
  <2>2. CASE life = "deactivated" /\ UNCHANGED <<life, todo>>
    BY <2>2, <1>5, RestStep DEF Shell!Job, ShellInv, PlaceInOrder
  <2>3. QED BY <1>5, <2>1, <2>2 DEF Shell!Job
<1>6. CASE Shell!Deactivated
  BY <1>6, DiesStep
<1>7. CASE UNCHANGED pluginVars
  <2>1. /\ UNCHANGED <<plugin, life, todo, have, refs, regs, process, stray, orphans>>
        /\ UpList' = UpList /\ DownList' = DownList
        /\ StepsUp' = StepsUp /\ StepsDown' = StepsDown /\ GoesUp' = GoesUp
    BY <1>7 DEF pluginVars, UpList, DownList, GoesUp, StepsUp, StepsDown
  <2>2. PlaceInOrder'
    BY <2>1 DEF ShellInv, PlaceInOrder, ToDoOf
  <2>3. HaveInOrder' /\ HistoryInOrder' /\ RefsInOrder' /\ RootInOrder'
    BY <2>1 DEF ShellInv, HaveInOrder, HistoryInOrder, RefsInOrder, RootInOrder, Gets, Drops
  <2>4. RegsInOrder' /\ PutsInOrder'
    BY <2>1 DEF ShellInv, RegsInOrder, PutsInOrder, Puts, Pulls
  <2>5. QED BY <2>2, <2>3, <2>4 DEF ShellInv
<1>8. QED BY <1>1, <1>2, <1>3, <1>4, <1>5, <1>6, <1>7 DEF Shell!Next

LEMMA ShellBegins ==
  ASSUME Shell!Init
  PROVE  ShellInv
<1>1. /\ plugin \in Plugins /\ life = "deactivated" /\ todo = <<>>
      /\ have = {} /\ refs = [x \in Shell!Things |-> 0] /\ regs = {} /\ process = "none"
      /\ stray = {} /\ orphans = {}
  BY DEF Shell!Init
<1>2. PlaceInOrder
  BY <1>1 DEF PlaceInOrder
<1>3. Len(DownList) \in Nat /\ Len(UpList) \in Nat
  BY <1>2, PlaceOf
<1>4. ~GoesUp /\ StepsDown = Len(DownList)
  BY <1>1, <1>3 DEF GoesUp, StepsDown
<1>5. HaveInOrder /\ RefsInOrder /\ RootInOrder /\ RegsInOrder /\ HistoryInOrder
  BY <1>1, <1>4 DEF HaveInOrder, RefsInOrder, RootInOrder, RegsInOrder, HistoryInOrder
<1>6. PutsInOrder
  BY <1>3, <1>4 DEF PutsInOrder
<1>7. QED BY <1>2, <1>5, <1>6 DEF ShellInv

\* What the invariant says of a plugin that released its implementation, or is
\* deactivated.
LEMMA ShellGivesBack ==
  ASSUME ShellInv
  PROVE  Shell!GivesBackWhatItTook
<1>0. PairOff /\ Len(UpList) \in Nat /\ Len(DownList) \in Nat
  BY PlaceOf DEF ShellInv
<1>1. Shell!LastReference
  <2> SUFFICES ASSUME "root" \notin have, NEW x \in Shell!FromRoot
               PROVE  refs[x] = 0
    BY DEF ShellInv, HistoryInOrder, Shell!LastReference
  <2>1. x \in Shell!Things \ {"subSystems"}
    BY ThingsOfRoot DEF Shell!FromRoot
  <2>2. x \notin have \ Results
    BY DEF ShellInv, RootInOrder
  <2>3. QED BY <2>1, <2>2 DEF ShellInv, RefsInOrder
<1>2. Shell!CleanAfterwards
  <2> SUFFICES ASSUME life = "deactivated"
               PROVE  /\ regs \subseteq {"subSystemSink", "SECURITY"}
                      /\ \A x \in Shell!Things \ {"subSystems"} : refs[x] = 0
                      /\ "subSystemSink" \in regs => plugin = "WebKitBrowser"
    BY DEF Shell!CleanAfterwards
  <2>1. have \subseteq Results \cup {"subSystems"}
    BY NothingLeft
  <2>2. process = "none"
    BY <2>1 DEF ShellInv, RootInOrder, Results
  <2>3. ASSUME NEW r \in regs
        PROVE  /\ r \in {"subSystemSink", "SECURITY"}
               /\ r = "subSystemSink" => plugin = "WebKitBrowser"
    <3>1. PICK i \in 1 .. Len(UpList) : Puts(UpList[i], r)
      BY DEF ShellInv, RegsInOrder
    <3>2. r \notin Shell!Sinks
      BY <2>2 DEF ShellInv, RegsInOrder
    <3>3. /\ r = "subSystemSink" => plugin = "WebKitBrowser"
          /\ r \in {"SECURITY", "subSystemSink"} \/ \E j \in 1 .. Len(DownList) : Pulls(DownList[j], r)
      BY <3>1, <3>2, <1>0 DEF PairOff, PairsUp, PutOnce, Puts
    <3>4. QED BY <3>3, NothingLeft
  <2>4. \A x \in Shell!Things \ {"subSystems"} : refs[x] = 0
    BY <2>1 DEF ShellInv, RefsInOrder
  <2>5. QED BY <2>3, <2>4
<1>3. Shell!OnlyItsOwn
  BY DEF ShellInv, HistoryInOrder, InVain, Shell!OnlyItsOwn
<1>4. QED BY <1>1, <1>2, <1>3 DEF Shell!GivesBackWhatItTook

\* What a plugin took it gives back, once, on every way out: a failed Initialize at
\* any of its steps, a stop, and the death of the implementation at any moment.  And
\* RustBridge serves a library that it holds.
THEOREM PluginsGiveBack == MCSpec => []GivesBackWhatItTook
<1>1. MCInit => ShellInv
  BY ShellBegins DEF MCInit
<1>2. ShellInv /\ [MCNext]_<<group, agentVars, pluginVars, otherVars, mediaVars>> => ShellInv'
  <2> SUFFICES ASSUME ShellInv, [MCNext]_<<group, agentVars, pluginVars, otherVars, mediaVars>>
               PROVE  ShellInv'
    OBVIOUS
  <2>1. Shell!Next \/ UNCHANGED pluginVars
    BY DEF MCNext
  <2>2. QED BY <2>1, ShellStep
<1>3. ShellInv /\ Library!LibraryServes => GivesBackWhatItTook
  BY ShellGivesBack DEF GivesBackWhatItTook
<1>4. QED BY <1>1, <1>2, <1>3, LibraryStaysInOrder, PTL DEF MCSpec

-----------------------------------------------------------------------------
(* The access control lists.  First induction: over the naturals, for the  *)
(* loop over the assignments of a file.                                    *)
LEMMA LeastNatural ==
  ASSUME NEW Some, Some \subseteq Nat, Some # {}
  PROVE  \E m \in Some : \A n \in Some : m <= n
<1> DEFINE Below == OpToRel(<, Nat)
<1>1. IsWellFoundedOn(Below, Nat)
  BY NatLessThanWellFounded
<1>2. PICK m \in Some : \A n \in Some : ~(<<n, m>> \in Below)
  <2> HIDE DEF Below
  <2>1. QED BY <1>1, WFMin
<1>3. \A n \in Some : <<n, m>> \in Below <=> n < m
  BY DEF OpToRel
<1> HIDE DEF Below
<1>4. ASSUME NEW n \in Some PROVE m <= n
  <2>1. ~(n < m) /\ m \in Nat /\ n \in Nat
    BY <1>2, <1>3
  <2>2. QED BY <2>1
<1>5. QED BY <1>4

LEMMA MinOf ==
  ASSUME NEW Some, Some \subseteq Nat, Some # {}
  PROVE  Min(Some) \in Some /\ \A n \in Some : Min(Some) <= n
<1>1. PICK m \in Some : \A n \in Some : m <= n
  BY LeastNatural
<1>2. QED BY <1>1 DEF Min

LEMMA MaxOf ==
  ASSUME NEW n \in Nat, NEW Some, Some \subseteq 1 .. n, Some # {}
  PROVE  Max(Some) \in Some /\ \A x \in Some : x <= Max(Some)
<1> DEFINE Rest == {y \in Nat : n - y \in Some}
<1>1. Rest \subseteq Nat /\ Rest # {}
  <2>1. PICK x \in Some : TRUE
    OBVIOUS
  <2>2. n - x \in Nat /\ n - (n - x) = x
    BY <2>1
  <2>3. n - x \in Rest
    BY <2>2
  <2>4. QED BY <2>3
<1>2. PICK m \in Rest : \A y \in Rest : m <= y
  <2> HIDE DEF Rest
  <2>1. QED BY <1>1, LeastNatural
<1>3. ASSUME NEW x \in Some PROVE x <= n - m
  <2>1. x \in 1 .. n /\ n - x \in Nat /\ n - (n - x) = x
    OBVIOUS
  <2>2. n - x \in Rest
    BY <2>1
  <2>3. m <= n - x /\ m \in Nat
    BY <1>2, <2>2
  <2>4. QED BY <2>1, <2>3
<1>4. n - m \in Some /\ n - m \in Nat
  BY <1>2
<1>5. \E x \in Some : \A y \in Some : x >= y
  BY <1>3, <1>4
<1>6. Max(Some) \in Some /\ \A y \in Some : Max(Some) >= y
  BY <1>5 DEF Max
<1>7. QED BY <1>6

LEMMA FirstOnes ==
  ASSUME NEW n \in Nat, NEW k \in 1 .. n
  PROVE  /\ 1 .. k \in SUBSET (1 .. n) /\ 1 .. k # {} /\ k \in 1 .. k
         /\ (1 .. k) \ {k} = 1 .. k - 1 /\ 1 .. k - 1 \in SUBSET (1 .. n)
         /\ k \in 0 .. n /\ k - 1 \in 0 .. n /\ n \in 0 .. n /\ k \in Nat /\ k - 1 \in Nat
<1>1. k \in Nat /\ k >= 1 /\ k <= n
  OBVIOUS
<1>2. \A x : x \in 1 .. k <=> x \in Nat /\ 1 <= x /\ x <= k
  BY <1>1
<1>3. \A x : x \in 1 .. n <=> x \in Nat /\ 1 <= x /\ x <= n
  OBVIOUS
<1>4. \A x : x \in 1 .. k - 1 <=> x \in Nat /\ 1 <= x /\ x <= k - 1
  BY <1>1
<1>5. \A x : x \in 1 .. k => x \in 1 .. n
  BY <1>1, <1>2, <1>3
<1>6. \A x : x \in 1 .. k - 1 <=> x \in 1 .. k /\ x # k
  BY <1>1, <1>2, <1>4
<1>7. (1 .. k) \ {k} = 1 .. k - 1
  BY <1>6
<1>8. k \in 1 .. k
  BY <1>1
<1>9. k \in 0 .. n /\ k - 1 \in 0 .. n /\ n \in 0 .. n /\ k - 1 \in Nat
  BY <1>1
<1>10. QED BY <1>1, <1>5, <1>6, <1>7, <1>8, <1>9

\* The loop that a fold stands for: there is a list after each assignment.
LEMMA LoadIsALoop ==
  ASSUME NEW acl0, NEW file, file.assign \in Seq(Groups)
  PROVE  \E g : /\ g[0] = AddRoles(acl0, file)
                /\ \A k \in 1 .. Len(file.assign) : g[k] = Assign(g[k - 1], file.assign[k])
                /\ Load(acl0, file) = g[Len(file.assign)]
<1> DEFINE base == AddRoles(acl0, file)
           Item(k) == file.assign[k]
           n == Len(file.assign)
           Loops(h, k) == h = [s \in SUBSET (1 .. k) |->
                                 IF s = {} THEN base ELSE Assign(h[s \ {Max(s)}], Item(Max(s)))]
<1>1. n \in Nat /\ DOMAIN file.assign = 1 .. n
  OBVIOUS
<1>2. Load(acl0, file) = (CHOOSE h : Loops(h, n))[1 .. n]
  <2>1. Load(acl0, file) =
          (CHOOSE h : h = [s \in SUBSET (DOMAIN file.assign) |->
                             IF s = {} THEN base ELSE Assign(h[s \ {Max(s)}], Item(Max(s)))])[DOMAIN file.assign]
    BY DEF Load, FoldLeft, MapThenFoldSet
  <2>2. QED BY <2>1, <1>1
<1> HIDE DEF Item, base, n
<1>3. ASSUME NEW k \in Nat, k > 0, NEW h, Loops(h, k - 1)
      PROVE  \E i : Loops(i, k)
  <2> DEFINE i == [s \in SUBSET (1 .. k) |->
                     IF s = {} THEN base ELSE IF k \in s THEN Assign(h[s \ {k}], Item(k)) ELSE h[s]]
  <2>1. h[{}] = base
    BY <1>3
  <2>2. ASSUME NEW s \in SUBSET (1 .. k), s # {}
        PROVE  i[s] = Assign(i[s \ {Max(s)}], Item(Max(s)))
    <3>1. Max(s) \in s /\ \A x \in s : x <= Max(s)
      BY <2>2, MaxOf
    <3>2. CASE k \in s
      <4>1. Max(s) = k
        <5>1. Max(s) \in 1 .. k /\ k <= Max(s)
          BY <3>1, <3>2
        <5>2. QED BY <5>1
      <4>2. s \ {k} \in SUBSET (1 .. k) /\ k \notin s \ {k}
        OBVIOUS
      <4>3. i[s \ {k}] = h[s \ {k}]
        BY <4>2, <2>1
      <4>4. i[s] = Assign(h[s \ {k}], Item(k))
        BY <3>2, <2>2
      <4>5. QED BY <4>1, <4>3, <4>4
    <3>3. CASE k \notin s
      <4>1. s \in SUBSET (1 .. k - 1) /\ s \ {Max(s)} \in SUBSET (1 .. k - 1) /\ k \notin s \ {Max(s)}
        <5>1. k \in 1 .. k /\ (1 .. k) \ {k} = 1 .. k - 1
          BY <1>3, FirstOnes
        <5>2. s \subseteq (1 .. k) \ {k}
          BY <3>3
        <5>3. QED BY <3>3, <5>1, <5>2
      <4>2. h[s] = Assign(h[s \ {Max(s)}], Item(Max(s)))
        BY <4>1, <1>3, <2>2
      <4>3. i[s] = h[s]
        BY <2>2, <3>3
      <4>4. i[s \ {Max(s)}] = h[s \ {Max(s)}]
        BY <4>1, <2>1
      <4>5. QED BY <4>2, <4>3, <4>4
    <3>4. QED BY <3>2, <3>3
  <2>3. i[{}] = base
    OBVIOUS
  <2>4. Loops(i, k)
    <3> DEFINE j == [s \in SUBSET (1 .. k) |->
                       IF s = {} THEN base ELSE Assign(i[s \ {Max(s)}], Item(Max(s)))]
    <3>1. \A s \in SUBSET (1 .. k) : i[s] = j[s]
      BY <2>2, <2>3
    <3>2. QED BY <3>1
  <2>5. QED BY <2>4
<1>4. \A k \in Nat : \E h : Loops(h, k)
  <2> DEFINE Bad == {k \in Nat : ~\E h : Loops(h, k)}
  <2>1. \E h : Loops(h, 0)
    <3> DEFINE h == [s \in SUBSET (1 .. 0) |-> base]
    <3>1. Loops(h, 0)
      OBVIOUS
    <3>2. QED BY <3>1
  <2> HIDE DEF Loops
  <2>2. SUFFICES ASSUME Bad # {} PROVE FALSE
    OBVIOUS
  <2>3. Bad \subseteq Nat
    OBVIOUS
  <2>4. PICK k \in Bad : \A l \in Bad : k <= l
    <3> HIDE DEF Bad
    <3>1. QED BY <2>2, <2>3, LeastNatural
  <2>5. k \in Nat /\ ~\E h : Loops(h, k)
    BY <2>4
  <2>6. k > 0 /\ k - 1 \in Nat /\ ~(k <= k - 1)
    BY <2>1, <2>5
  <2>7. k - 1 \notin Bad
    <3> HIDE DEF Bad
    <3>1. QED BY <2>4, <2>6
  <2>8. PICK h : Loops(h, k - 1)
    BY <2>6, <2>7
  <2>9. QED BY <2>5, <2>6, <2>8, <1>3
<1>5. PICK h : Loops(h, n) /\ Load(acl0, file) = h[1 .. n]
  BY <1>1, <1>2, <1>4
<1> DEFINE g == [k \in 0 .. n |-> h[1 .. k]]
<1>6. g[0] = base
  <2>1. 0 \in 0 .. n /\ 1 .. 0 = {} /\ {} \in SUBSET (1 .. n)
    BY <1>1
  <2>2. h[{}] = base
    BY <1>5, <2>1
  <2>3. g[0] = h[1 .. 0]
    BY <2>1
  <2>4. QED BY <2>1, <2>2, <2>3
<1>7. ASSUME NEW k \in 1 .. n
      PROVE  g[k] = Assign(g[k - 1], Item(k))
  <2>1. /\ 1 .. k \in SUBSET (1 .. n) /\ 1 .. k # {} /\ (1 .. k) \ {k} = 1 .. k - 1
        /\ k \in 0 .. n /\ k - 1 \in 0 .. n /\ k \in 1 .. k /\ k \in Nat
    BY <1>1, FirstOnes
  <2>2. Max(1 .. k) = k
    <3>1. Max(1 .. k) \in 1 .. k /\ k <= Max(1 .. k)
      BY <2>1, MaxOf
    <3>2. QED BY <3>1, <2>1
  <2>3. h[1 .. k] = Assign(h[(1 .. k) \ {Max(1 .. k)}], Item(Max(1 .. k)))
    BY <2>1, <1>5
  <2>4. h[1 .. k] = Assign(h[1 .. k - 1], Item(k))
    BY <2>1, <2>2, <2>3
  <2>5. g[k] = h[1 .. k] /\ g[k - 1] = h[1 .. k - 1]
    BY <2>1
  <2> HIDE DEF g
  <2>6. QED BY <2>4, <2>5
<1>8. g[n] = Load(acl0, file)
  <2>1. n \in 0 .. n
    BY <1>1
  <2>2. g[n] = h[1 .. n]
    BY <2>1
  <2>3. QED BY <2>2, <1>5
<1> HIDE DEF g
<1>9. QED BY <1>6, <1>7, <1>8 DEF Item, n, base

\* Induction in the form that the loops need.
LEMMA LoopInduction ==
  ASSUME NEW n \in Nat, NEW Reached, 0 \in Reached, \A k \in 1 .. n : k - 1 \in Reached => k \in Reached
  PROVE  \A k \in 0 .. n : k \in Reached
<1> DEFINE Bad == {k \in Nat : k <= n /\ k \notin Reached}
<1>1. SUFFICES ASSUME Bad # {} PROVE FALSE
  OBVIOUS
<1>2. Bad \subseteq Nat
  OBVIOUS
<1>3. PICK k \in Bad : \A l \in Bad : k <= l
  <2> HIDE DEF Bad
  <2>1. QED BY <1>1, <1>2, LeastNatural
<1>4. k \in Nat /\ k <= n /\ k \notin Reached /\ k # 0
  BY <1>3
<1>5. k \in 1 .. n /\ k - 1 \in Nat /\ k - 1 <= n /\ ~(k <= k - 1)
  BY <1>4
<1>6. k - 1 \notin Bad
  <2> HIDE DEF Bad
  <2>1. QED BY <1>3, <1>5
<1>7. k - 1 \in Reached
  BY <1>5, <1>6
<1>8. QED BY <1>4, <1>5, <1>7

ListTypes(acl0) ==
  /\ acl0 = [urlMap |-> acl0.urlMap, filterMap |-> acl0.filterMap,
              unusedRoles |-> acl0.unusedRoles, undefinedURLS |-> acl0.undefinedURLS]
  /\ acl0.urlMap \in Seq(Groups) /\ acl0.undefinedURLS \in Seq(STRING)
  /\ acl0.filterMap = [r \in DOMAIN acl0.filterMap |-> acl0.filterMap[r]]

LEMMA AssignDoes ==
  ASSUME NEW acl0, ListTypes(acl0), NEW g \in Groups
  PROVE  LET acl1 == Assign(acl0, g)
             known == g.role \in DOMAIN acl0.filterMap
         IN  /\ ListTypes(acl1) /\ acl1.filterMap = acl0.filterMap
             /\ acl1.urlMap = IF known /\ ~Contains(acl0.urlMap, g) THEN Append(acl0.urlMap, g) ELSE acl0.urlMap
             /\ acl1.undefinedURLS = IF ~known /\ ~Contains(acl0.undefinedURLS, g.role)
                                     THEN <<g.role>> \o acl0.undefinedURLS ELSE acl0.undefinedURLS
<1> DEFINE acl1 == Assign(acl0, g)
           known == g.role \in DOMAIN acl0.filterMap
           rest == Remove(acl0.unusedRoles, g.role)
           urls == IF Contains(acl0.urlMap, g) THEN acl0.urlMap ELSE Append(acl0.urlMap, g)
           undefined == IF Contains(acl0.undefinedURLS, g.role) THEN acl0.undefinedURLS
                        ELSE <<g.role>> \o acl0.undefinedURLS
<1>1. urls \in Seq(Groups) /\ undefined \in Seq(STRING)
  <2>1. acl0.urlMap \in Seq(Groups) /\ acl0.undefinedURLS \in Seq(STRING)
    BY DEF ListTypes
  <2>2. g.role \in STRING /\ <<g.role>> \in Seq(STRING)
    BY DEF Groups
  <2>3. Append(acl0.urlMap, g) \in Seq(Groups)
    BY <2>1
  <2>4. <<g.role>> \o acl0.undefinedURLS \in Seq(STRING)
    BY <2>1, <2>2, ConcatProperties
  <2>5. QED BY <2>1, <2>3, <2>4
<1>2. CASE known
  <2>1. acl1 = [acl0 EXCEPT !.urlMap = urls, !.unusedRoles = rest]
    BY <1>2 DEF Assign
  <2> HIDE DEF acl1, rest, urls
  <2>2. acl1 = [urlMap |-> urls, filterMap |-> acl0.filterMap,
                unusedRoles |-> rest, undefinedURLS |-> acl0.undefinedURLS]
    BY <2>1 DEF ListTypes
  <2>3. ListTypes(acl1) /\ acl1.filterMap = acl0.filterMap /\ acl1.urlMap = urls /\ acl1.undefinedURLS = acl0.undefinedURLS
    BY <2>2, <1>1 DEF ListTypes
  <2>4. QED BY <2>3, <1>2 DEF acl1, urls
<1>3. CASE ~known
  <2>1. acl1 = [acl0 EXCEPT !.undefinedURLS = undefined]
    BY <1>3 DEF Assign
  <2> HIDE DEF acl1, undefined
  <2>2. acl1 = [urlMap |-> acl0.urlMap, filterMap |-> acl0.filterMap,
                unusedRoles |-> acl0.unusedRoles, undefinedURLS |-> undefined]
    BY <2>1 DEF ListTypes
  <2>3. ListTypes(acl1) /\ acl1.filterMap = acl0.filterMap /\ acl1.urlMap = acl0.urlMap /\ acl1.undefinedURLS = undefined
    BY <2>2, <1>1 DEF ListTypes
  <2>4. QED BY <2>3, <1>3 DEF acl1, undefined
<1>4. QED BY <1>2, <1>3

LEMMA RolesAdded ==
  ASSUME NEW acl0, ListTypes(acl0), NEW file, WellFormed(file)
  PROVE  LET acl1 == AddRoles(acl0, file)
         IN  /\ ListTypes(acl1) /\ acl1.urlMap = acl0.urlMap /\ acl1.undefinedURLS = acl0.undefinedURLS
             /\ acl1.filterMap = [r \in DOMAIN acl0.filterMap \cup DOMAIN file.roles |->
                                    IF r \in DOMAIN acl0.filterMap THEN acl0.filterMap[r] ELSE file.roles[r]]
<1> DEFINE acl1 == AddRoles(acl0, file)
           unused == SetToSeq(DOMAIN file.roles)
           map == [r \in DOMAIN acl0.filterMap \cup DOMAIN file.roles |->
                     IF r \in DOMAIN acl0.filterMap THEN acl0.filterMap[r] ELSE file.roles[r]]
<1>2. acl1 = [acl0 EXCEPT !.unusedRoles = unused, !.filterMap = map]
  BY DEF AddRoles
<1> HIDE DEF acl1, unused, map
<1>3. acl1 = [urlMap |-> acl0.urlMap, filterMap |-> map,
              unusedRoles |-> unused, undefinedURLS |-> acl0.undefinedURLS]
  BY <1>2 DEF ListTypes
<1>4. map = [r \in DOMAIN map |-> map[r]]
  BY DEF map
<1>5. ListTypes(acl1) /\ acl1.urlMap = acl0.urlMap /\ acl1.undefinedURLS = acl0.undefinedURLS /\ acl1.filterMap = map
  BY <1>3, <1>4 DEF ListTypes
<1>6. QED BY <1>5 DEF acl1, map

-----------------------------------------------------------------------------
(* The first assignment that fits an origin is the same in the list that   *)
(* a file was loaded into as it is in the file.                            *)
Fitting(s, origin) == {i \in 1 .. Len(s) : origin \in OriginsOf[s[i].url]}

AssignedUpTo(file, k, origin) ==
  {i \in 1 .. k : file.assign[i].role \in DOMAIN file.roles /\ origin \in OriginsOf[file.assign[i].url]}

SameFirst(file, k, s, origin) ==
  /\ Fitting(s, origin) = {} <=> AssignedUpTo(file, k, origin) = {}
  /\ Fitting(s, origin) # {} =>
       s[Min(Fitting(s, origin))] = file.assign[Min(AssignedUpTo(file, k, origin))]

LEMMA MinStays ==
  ASSUME NEW Some, Some \subseteq Nat, NEW x \in Nat, \A y \in Some : y < x
  PROVE  Min(Some \cup {x}) = IF Some = {} THEN x ELSE Min(Some)
<1>1. Min(Some \cup {x}) \in Some \cup {x} /\ \A y \in Some \cup {x} : Min(Some \cup {x}) <= y
  BY MinOf
<1>2. CASE Some = {}
  BY <1>1, <1>2
<1>3. CASE Some # {}
  <2>1. Min(Some) \in Some /\ \A y \in Some : Min(Some) <= y
    BY <1>3, MinOf
  <2>2. Min(Some \cup {x}) <= Min(Some) /\ Min(Some) < x /\ Min(Some) \in Nat
    BY <1>1, <2>1
  <2>3. Min(Some \cup {x}) \in Some
    BY <1>1, <2>2
  <2>4. Min(Some) <= Min(Some \cup {x}) /\ Min(Some \cup {x}) \in Nat
    BY <2>1, <2>3
  <2>5. Min(Some \cup {x}) = Min(Some)
    BY <2>2, <2>4
  <2>6. QED BY <1>3, <2>5
<1>4. QED BY <1>2, <1>3

LEMMA FirstKept ==
  ASSUME NEW file, WellFormed(file), NEW k \in 1 .. Len(file.assign), NEW s \in Seq(Groups), NEW origin,
         SameFirst(file, k - 1, s, origin)
  PROVE  LET g == file.assign[k]
         IN  SameFirst(file, k, IF g.role \in DOMAIN file.roles /\ ~Contains(s, g) THEN Append(s, g) ELSE s, origin)
<1> DEFINE g == file.assign[k]
           A == AssignedUpTo(file, k - 1, origin)
           B == AssignedUpTo(file, k, origin)
           M == Fitting(s, origin)
           fits == g.role \in DOMAIN file.roles /\ origin \in OriginsOf[g.url]
<1>0. k \in Nat /\ Len(s) \in Nat /\ g \in Groups /\ Len(file.assign) \in Nat
  BY DEF WellFormed
<1>1. A \subseteq Nat /\ (\A y \in A : y < k) /\ M \subseteq Nat /\ (\A y \in M : y < Len(s) + 1)
  BY <1>0 DEF AssignedUpTo, Fitting
<1>2. B = IF fits THEN A \cup {k} ELSE A
  <2>1. \A y : y \in 1 .. k <=> y \in 1 .. k - 1 \/ y = k
    BY <1>0
  <2>2. QED BY <2>1 DEF AssignedUpTo
<1>3. Min(A \cup {k}) = IF A = {} THEN k ELSE Min(A)
  BY <1>0, <1>1, MinStays
<1>4. M = {} <=> A = {}
  BY DEF SameFirst
<1>5. M # {} => s[Min(M)] = file.assign[Min(A)]
  BY DEF SameFirst
<1>6. CASE ~(g.role \in DOMAIN file.roles /\ ~Contains(s, g))
  <2>1. fits => M # {}
    <3>1. fits => \E i \in 1 .. Len(s) : s[i] = g
      BY <1>6 DEF Contains
    <3>2. QED BY <3>1 DEF Fitting
  <2>2. (B = {} <=> A = {}) /\ (B # {} => Min(B) = Min(A))
    BY <2>1, <1>2, <1>3, <1>4
  <2>3. QED BY <2>2, <1>4, <1>5, <1>6 DEF SameFirst
<1>7. CASE g.role \in DOMAIN file.roles /\ ~Contains(s, g)
  <2> DEFINE t == Append(s, g)
             N == Fitting(t, origin)
  <2>1. /\ Len(t) = Len(s) + 1 /\ t[Len(s) + 1] = g
        /\ \A i \in 1 .. Len(s) : t[i] = s[i]
    BY <1>0
  <2>2. N = IF fits THEN M \cup {Len(s) + 1} ELSE M
    <3>1. \A y : y \in 1 .. Len(s) + 1 <=> y \in 1 .. Len(s) \/ y = Len(s) + 1
      BY <1>0
    <3>2. QED BY <3>1, <2>1, <1>0, <1>7 DEF Fitting
  <2>3. Min(M \cup {Len(s) + 1}) = IF M = {} THEN Len(s) + 1 ELSE Min(M)
    <3>1. Len(s) + 1 \in Nat
      BY <1>0
    <3> HIDE DEF M
    <3>2. QED BY <3>1, <1>1, MinStays
  <2>4. M # {} => Min(M) \in 1 .. Len(s)
    <3>1. M # {} => Min(M) \in M
      BY <1>1, MinOf
    <3>2. QED BY <3>1 DEF Fitting
  <2> HIDE DEF t
  <2>5. (N = {} <=> B = {}) /\ (N # {} => t[Min(N)] = file.assign[Min(B)])
    BY <2>1, <2>2, <2>3, <2>4, <1>2, <1>3, <1>4, <1>5
  <2>6. SameFirst(file, k, t, origin)
    BY <2>5 DEF SameFirst
  <2>7. QED BY <2>6, <1>7 DEF t
<1>8. QED BY <1>6, <1>7

\* Loading into an empty list.
LEMMA LoadedAfresh ==
  ASSUME NEW file, WellFormed(file)
  PROVE  /\ ListTypes(Load(EmptyList, file)) /\ Load(EmptyList, file).filterMap = file.roles
         /\ \A origin : SameFirst(file, Len(file.assign), Load(EmptyList, file).urlMap, origin)
<1> DEFINE n == Len(file.assign)
<1>0. n \in Nat /\ file.assign \in Seq(Groups)
  BY DEF WellFormed
<1>1. PICK g : /\ g[0] = AddRoles(EmptyList, file)
               /\ \A k \in 1 .. n : g[k] = Assign(g[k - 1], file.assign[k])
               /\ Load(EmptyList, file) = g[n]
  BY <1>0, LoadIsALoop
<1>2. ListTypes(EmptyList)
  BY DEF ListTypes, EmptyList
<1>3. /\ ListTypes(g[0]) /\ g[0].urlMap = <<>>
      /\ g[0].filterMap = file.roles
  <2>1. /\ EmptyList.urlMap = <<>> /\ DOMAIN EmptyList.filterMap = {}
    BY DEF EmptyList
  <2>2. g[0].filterMap = [r \in DOMAIN file.roles |-> file.roles[r]]
    BY <1>1, <1>2, <2>1, RolesAdded
  <2>3. g[0].filterMap = file.roles
    BY <2>2 DEF WellFormed
  <2>4. ListTypes(AddRoles(EmptyList, file)) /\ AddRoles(EmptyList, file).urlMap = EmptyList.urlMap
    BY <1>2, RolesAdded
  <2>5. QED BY <1>1, <2>1, <2>3, <2>4
<1> DEFINE Good == {k \in Nat : /\ ListTypes(g[k]) /\ g[k].filterMap = file.roles
                                /\ \A origin : SameFirst(file, k, g[k].urlMap, origin)}
<1>4. 0 \in Good
  <2>1. \A origin : Fitting(<<>>, origin) = {} /\ AssignedUpTo(file, 0, origin) = {}
    BY DEF Fitting, AssignedUpTo
  <2>2. QED BY <1>3, <2>1 DEF SameFirst
<1>5. ASSUME NEW k \in 1 .. n, k - 1 \in Good PROVE k \in Good
  <2>1. /\ ListTypes(g[k - 1]) /\ g[k - 1].filterMap = file.roles
        /\ \A origin : SameFirst(file, k - 1, g[k - 1].urlMap, origin)
    BY <1>5
  <2>2. file.assign[k] \in Groups /\ g[k] = Assign(g[k - 1], file.assign[k]) /\ k \in Nat
    BY <1>0, <1>1
  <2>3. /\ ListTypes(g[k]) /\ g[k].filterMap = file.roles
        /\ g[k].urlMap = IF file.assign[k].role \in DOMAIN file.roles /\ ~Contains(g[k - 1].urlMap, file.assign[k])
                         THEN Append(g[k - 1].urlMap, file.assign[k]) ELSE g[k - 1].urlMap
    BY <2>1, <2>2, AssignDoes
  <2>4. g[k - 1].urlMap \in Seq(Groups)
    BY <2>1 DEF ListTypes
  <2>5. ASSUME NEW origin PROVE SameFirst(file, k, g[k].urlMap, origin)
    <3>1. SameFirst(file, k - 1, g[k - 1].urlMap, origin)
      BY <2>1
    <3> DEFINE e == file.assign[k]
               before == g[k - 1].urlMap
    <3>2. SameFirst(file, k, IF e.role \in DOMAIN file.roles /\ ~Contains(before, e) THEN Append(before, e) ELSE before, origin)
      <4> HIDE DEF before
      <4>1. before \in Seq(Groups) /\ SameFirst(file, k - 1, before, origin)
        BY <3>1, <2>4 DEF before
      <4>2. QED BY <4>1, FirstKept
    <3>3. QED BY <2>3, <3>2
  <2>6. QED BY <2>2, <2>3, <2>5
<1>6. n \in Good
  <2> HIDE DEF Good, n
  <2>1. n \in 0 .. n
    BY <1>0
  <2>2. QED BY <1>0, <1>4, <1>5, <2>1, LoopInduction
<1>7. QED BY <1>1, <1>6

LEMMA FirstIsLeast ==
  ASSUME NEW n \in Nat, NEW F, F \subseteq 1 .. n, NEW i \in F, \A j \in 1 .. i - 1 : j \notin F
  PROVE  i = Min(F)
<1>1. Min(F) \in F /\ Min(F) <= i /\ i \in 1 .. n /\ Min(F) \in 1 .. n
  <2>1. F \subseteq Nat /\ F # {}
    OBVIOUS
  <2>2. QED BY <2>1, MinOf
<1>2. ~(Min(F) < i)
  BY <1>1
<1>3. QED BY <1>1, <1>2

\* A role decides as its file says.
LEMMA RoleSays ==
  ASSUME NEW role, NEW callsign, NEW method,
         \A p \in DOMAIN role.plugins : role.plugins[p].default \in {"allowed", "blocked"}
  PROVE  LET Fits(p) == p \in DOMAIN role.plugins /\ callsign \in CallsignsOf[p]
             rule    == role.plugins[PatternOrder[First(PatternOrder, Fits)]]
             Named   == {m \in rule.methods : method \in MethodsOf[m]}
         IN  FilterAllowed(role, callsign, method) <=>
               IF \E i \in 1 .. Len(PatternOrder) : Fits(PatternOrder[i])
               THEN IF Named = {} THEN rule.default = "allowed" ELSE rule.default = "blocked"
               ELSE role.default = "allowed"
<1> DEFINE Fits(p) == p \in DOMAIN role.plugins /\ callsign \in CallsignsOf[p]
           n == Len(PatternOrder)
           F == {i \in 1 .. n : Fits(PatternOrder[i])}
           first == First(PatternOrder, Fits)
           rule == role.plugins[PatternOrder[first]]
           Named == {m \in rule.methods : method \in MethodsOf[m]}
<1>1. n \in Nat
  BY FilesAssumption
<1>2. FilterAllowed(role, callsign, method) <=>
        IF F = {} THEN role.default = "allowed" ELSE PluginAllowed(role.plugins[PatternOrder[Min(F)]], method)
  BY DEF FilterAllowed
<1>3. F # {} => first = Min(F) /\ Min(F) \in F
  <2>1. SUFFICES ASSUME F # {} PROVE first = Min(F) /\ Min(F) \in F
    OBVIOUS
  <2>2. first = CHOOSE i \in 1 .. n : Fits(PatternOrder[i]) /\ \A j \in 1 .. i - 1 : ~Fits(PatternOrder[j])
    BY DEF First
  <2>3. Min(F) \in F /\ \A j \in F : Min(F) <= j
    <3>1. F \subseteq Nat
      OBVIOUS
    <3> HIDE DEF F
    <3>2. QED BY <2>1, <3>1, MinOf
  <2>4. /\ Min(F) \in 1 .. n /\ Fits(PatternOrder[Min(F)])
        /\ \A j \in 1 .. Min(F) - 1 : ~Fits(PatternOrder[j])
    <3>1. ASSUME NEW j \in 1 .. Min(F) - 1 PROVE j \in 1 .. n /\ ~(Min(F) <= j)
      BY <1>1, <2>3
    <3>2. QED BY <2>3, <3>1
  <2> HIDE DEF Fits
  <2>5. first \in 1 .. n /\ Fits(PatternOrder[first]) /\ \A j \in 1 .. first - 1 : ~Fits(PatternOrder[j])
    BY <2>2, <2>4
  <2>6. first \in F /\ \A j \in 1 .. first - 1 : j \notin F
    BY <2>5
  <2> HIDE DEF F, first, n
  <2>7. F \subseteq 1 .. n
    BY DEF F
  <2>8. QED BY <1>1, <2>3, <2>6, <2>7, FirstIsLeast
<1>4. CASE F = {}
  BY <1>2, <1>4
<1>5. CASE F # {}
  <2>1. FilterAllowed(role, callsign, method) <=> PluginAllowed(rule, method)
    BY <1>2, <1>3, <1>5
  <2>2. Fits(PatternOrder[first])
    BY <1>3, <1>5
  <2>3. rule.default \in {"allowed", "blocked"}
    BY <2>2
  <2>4. Named = {} <=> ~\E m \in rule.methods : method \in MethodsOf[m]
    OBVIOUS
  <2>5. PluginAllowed(rule, method) <=> IF Named = {} THEN rule.default = "allowed" ELSE rule.default = "blocked"
    BY <2>3, <2>4 DEF PluginAllowed
  <2>6. \E i \in 1 .. n : Fits(PatternOrder[i])
    BY <1>5
  <2>7. QED BY <2>1, <2>5, <2>6
<1>6. QED BY <1>4, <1>5

LEMMA FileSays ==
  ASSUME NEW file, WellFormed(file), NEW origin, NEW callsign, NEW method
  PROVE  LET A == AssignedUpTo(file, Len(file.assign), origin)
         IN  Says(file, origin, callsign, method) <=>
               A # {} /\ FilterAllowed(file.roles[file.assign[Min(A)].role], callsign, method)
<1> DEFINE Assigned(g) == g.role \in DOMAIN file.roles /\ origin \in OriginsOf[g.url]
           n == Len(file.assign)
           A == AssignedUpTo(file, n, origin)
           first == First(file.assign, Assigned)
           role == file.roles[file.assign[first].role]
           Fits(p) == p \in DOMAIN role.plugins /\ callsign \in CallsignsOf[p]
           rule == role.plugins[PatternOrder[First(PatternOrder, Fits)]]
           Named == {m \in rule.methods : method \in MethodsOf[m]}
           Decides == IF \E i \in 1 .. Len(PatternOrder) : Fits(PatternOrder[i])
                      THEN IF Named = {} THEN rule.default = "allowed" ELSE rule.default = "blocked"
                      ELSE role.default = "allowed"
<1>1. n \in Nat /\ file # None
  BY DEF WellFormed, None
<1>2. A = {i \in 1 .. n : Assigned(file.assign[i])}
  BY DEF AssignedUpTo
<1>3. Says(file, origin, callsign, method) <=> (\E i \in 1 .. n : Assigned(file.assign[i])) /\ Decides
  BY <1>1 DEF Says
<1>4. A # {} => first = Min(A) /\ Min(A) \in A
  <2>1. SUFFICES ASSUME A # {} PROVE first = Min(A) /\ Min(A) \in A
    OBVIOUS
  <2>2. first = CHOOSE i \in 1 .. n : Assigned(file.assign[i]) /\ \A j \in 1 .. i - 1 : ~Assigned(file.assign[j])
    BY DEF First
  <2> HIDE DEF Assigned, first, A
  <2>3. A \subseteq 1 .. n /\ A \subseteq Nat
    BY <1>2
  <2>4. Min(A) \in A /\ \A j \in A : Min(A) <= j
    BY <2>1, <2>3, MinOf
  <2>5. /\ Min(A) \in 1 .. n /\ Assigned(file.assign[Min(A)])
        /\ \A j \in 1 .. Min(A) - 1 : ~Assigned(file.assign[j])
    <3>1. ASSUME NEW j \in 1 .. Min(A) - 1 PROVE j \in 1 .. n /\ ~(Min(A) <= j)
      <4>1. Min(A) \in 1 .. n
        BY <2>3, <2>4
      <4>2. QED BY <1>1, <4>1
    <3>2. QED BY <1>2, <2>4, <3>1
  <2>6. first \in 1 .. n /\ Assigned(file.assign[first]) /\ \A j \in 1 .. first - 1 : ~Assigned(file.assign[j])
    BY <2>2, <2>5
  <2>7. first \in A /\ \A j \in 1 .. first - 1 : j \notin A
    BY <1>2, <2>6
  <2>8. QED BY <1>1, <2>3, <2>4, <2>7, FirstIsLeast
<1>5. A # {} => (FilterAllowed(role, callsign, method) <=> Decides)
  <2>1. SUFFICES ASSUME A # {} PROVE FilterAllowed(role, callsign, method) <=> Decides
    OBVIOUS
  <2>2. first \in A
    BY <1>4, <2>1
  <2>3. file.assign[first].role \in DOMAIN file.roles
    <3> HIDE DEF first
    <3>1. QED BY <1>2, <2>2
  <2>4. \A p \in DOMAIN role.plugins : role.plugins[p].default \in {"allowed", "blocked"}
    <3> HIDE DEF first
    <3>1. QED BY <2>3 DEF WellFormed
  <2> HIDE DEF role
  <2>5. QED BY <2>4, RoleSays
<1>6. A # {} <=> \E i \in 1 .. n : Assigned(file.assign[i])
  BY <1>2
<1> HIDE DEF A, first, Decides, Assigned
<1>7. QED BY <1>3, <1>4, <1>5, <1>6 DEF A

\* A list that a file was loaded into decides as the file says.
LEMMA ListDecides ==
  ASSUME NEW file, WellFormed(file), NEW url, NEW callsign, NEW method
  PROVE  Allowed(Load(EmptyList, file), url, callsign, method) <=> Says(file, GetUrlOrigin(url), callsign, method)
<1> DEFINE l == Load(EmptyList, file)
           origin == GetUrlOrigin(url)
           M == Fitting(l.urlMap, origin)
           A == AssignedUpTo(file, Len(file.assign), origin)
<1>1. l.filterMap = file.roles /\ SameFirst(file, Len(file.assign), l.urlMap, origin)
  BY LoadedAfresh
<1>2. Allowed(l, url, callsign, method) <=>
        M # {} /\ FilterAllowed(l.filterMap[l.urlMap[Min(M)].role], callsign, method)
  BY DEF Allowed, FilterMapFromURL, Fitting
<1> HIDE DEF l, origin
<1>3. (M = {} <=> A = {}) /\ (M # {} => l.urlMap[Min(M)] = file.assign[Min(A)])
  BY <1>1 DEF SameFirst
<1>4. Says(file, origin, callsign, method) <=>
        A # {} /\ FilterAllowed(file.roles[file.assign[Min(A)].role], callsign, method)
  BY FileSays
<1> HIDE DEF M, A
<1>5. QED BY <1>1, <1>2, <1>3, <1>4 DEF l, origin

LEMMA EmptyAllowsNothing ==
  ASSUME NEW url, NEW callsign, NEW method
  PROVE  ~Allowed(EmptyList, url, callsign, method)
BY DEF Allowed, FilterMapFromURL, EmptyList

-----------------------------------------------------------------------------
(* What has been told: an assignment is in the map, or its role among the  *)
(* undefined ones, depending on whether the role is known.                 *)
Entered(acl0, g) ==
  IF g.role \in DOMAIN acl0.filterMap THEN Contains(acl0.urlMap, g) ELSE Contains(acl0.undefinedURLS, g.role)

Known(acl0, file) == DOMAIN file.roles \subseteq DOMAIN acl0.filterMap

AllEntered(acl0, file) == \A i \in 1 .. Len(file.assign) : Entered(acl0, file.assign[i])

LEMMA AssignTells ==
  ASSUME NEW acl0, ListTypes(acl0), NEW g \in Groups
  PROVE  /\ Entered(Assign(acl0, g), g)
         /\ \A h \in Groups : Entered(acl0, h) => Entered(Assign(acl0, g), h)
<1> DEFINE acl1 == Assign(acl0, g)
           known == g.role \in DOMAIN acl0.filterMap
<1>1. /\ acl1.filterMap = acl0.filterMap
      /\ acl1.urlMap = IF known /\ ~Contains(acl0.urlMap, g) THEN Append(acl0.urlMap, g) ELSE acl0.urlMap
      /\ acl1.undefinedURLS = IF ~known /\ ~Contains(acl0.undefinedURLS, g.role)
                              THEN <<g.role>> \o acl0.undefinedURLS ELSE acl0.undefinedURLS
  BY AssignDoes
<1>2. ASSUME NEW e PROVE /\ Contains(Append(acl0.urlMap, g), g)
                         /\ Contains(acl0.urlMap, e) => Contains(Append(acl0.urlMap, g), e)
  <2>1. acl0.urlMap \in Seq(Groups)
    BY DEF ListTypes
  <2> DEFINE s == acl0.urlMap
             t == Append(s, g)
  <2>2. Len(s) \in Nat /\ Len(t) = Len(s) + 1 /\ t[Len(s) + 1] = g /\ \A i \in 1 .. Len(s) : t[i] = s[i]
    BY <2>1
  <2> HIDE DEF s, t
  <2>3. Contains(t, g) /\ (Contains(s, e) => Contains(t, e))
    BY <2>2 DEF Contains
  <2>4. QED BY <2>3 DEF s, t
<1>3. ASSUME NEW e PROVE /\ Contains(<<g.role>> \o acl0.undefinedURLS, g.role)
                         /\ Contains(acl0.undefinedURLS, e) => Contains(<<g.role>> \o acl0.undefinedURLS, e)
  <2> DEFINE s == acl0.undefinedURLS
             t == <<g.role>> \o s
  <2>1. s \in Seq(STRING) /\ <<g.role>> \in Seq(STRING) /\ Len(<<g.role>>) = 1
    BY DEF ListTypes, Groups
  <2>2. /\ Len(t) = 1 + Len(s) /\ Len(s) \in Nat
        /\ \A i \in 1 .. 1 + Len(s) : t[i] = IF i <= 1 THEN <<g.role>>[i] ELSE s[i - 1]
    BY <2>1, ConcatProperties
  <2> HIDE DEF s, t
  <2>3. t[1] = g.role /\ \A i \in 1 .. Len(s) : t[i + 1] = s[i]
    BY <2>2
  <2>4. \A i \in 1 .. Len(s) : i + 1 \in 1 .. Len(t)
    BY <2>2
  <2>5. 1 \in 1 .. Len(t)
    BY <2>2
  <2>6. Contains(t, g.role) /\ (Contains(s, e) => Contains(t, e))
    BY <2>3, <2>4, <2>5 DEF Contains
  <2>7. QED BY <2>6 DEF s, t
<1> HIDE DEF acl1
<1>4. Entered(acl1, g)
  BY <1>1, <1>2, <1>3 DEF Entered
<1>5. ASSUME NEW h \in Groups, Entered(acl0, h) PROVE Entered(acl1, h)
  BY <1>1, <1>2, <1>3, <1>5 DEF Entered
<1>6. QED BY <1>4, <1>5 DEF acl1

\* A file that has been loaded is told; what was told stays so unless a role becomes known.
LEMMA LoadTells ==
  ASSUME NEW acl0, ListTypes(acl0), NEW file, WellFormed(file)
  PROVE  /\ ListTypes(Load(acl0, file))
         /\ DOMAIN Load(acl0, file).filterMap = DOMAIN acl0.filterMap \cup DOMAIN file.roles
         /\ AllEntered(Load(acl0, file), file)
         /\ Known(acl0, file) =>
              \A other : WellFormed(other) /\ AllEntered(acl0, other) => AllEntered(Load(acl0, file), other)
<1> DEFINE n == Len(file.assign)
           D == DOMAIN acl0.filterMap \cup DOMAIN file.roles
<1>0. n \in Nat /\ file.assign \in Seq(Groups)
  BY DEF WellFormed
<1>1. PICK g : /\ g[0] = AddRoles(acl0, file)
               /\ \A k \in 1 .. n : g[k] = Assign(g[k - 1], file.assign[k])
               /\ Load(acl0, file) = g[n]
  BY <1>0, LoadIsALoop
<1>2. /\ ListTypes(g[0]) /\ DOMAIN g[0].filterMap = D
      /\ g[0].urlMap = acl0.urlMap /\ g[0].undefinedURLS = acl0.undefinedURLS
  <2>1. LET acl1 == AddRoles(acl0, file)
        IN  /\ ListTypes(acl1) /\ acl1.urlMap = acl0.urlMap /\ acl1.undefinedURLS = acl0.undefinedURLS
            /\ acl1.filterMap = [r \in D |->
                                   IF r \in DOMAIN acl0.filterMap THEN acl0.filterMap[r] ELSE file.roles[r]]
    BY RolesAdded
  <2> HIDE DEF D
  <2>2. QED BY <1>1, <2>1
<1>3. Known(acl0, file) => \A h \in Groups : Entered(acl0, h) => Entered(g[0], h)
  <2>1. Known(acl0, file) => D = DOMAIN acl0.filterMap
    BY DEF Known
  <2>2. QED BY <1>2, <2>1 DEF Entered
<1> DEFINE Good == {k \in Nat : /\ ListTypes(g[k]) /\ DOMAIN g[k].filterMap = D
                                /\ \A i \in 1 .. k : Entered(g[k], file.assign[i])
                                /\ \A h \in Groups : Entered(g[0], h) => Entered(g[k], h)}
<1> HIDE DEF D
<1>4. 0 \in Good
  BY <1>2
<1>5. ASSUME NEW k \in 1 .. n, k - 1 \in Good PROVE k \in Good
  <2>1. /\ ListTypes(g[k - 1]) /\ DOMAIN g[k - 1].filterMap = D
        /\ \A i \in 1 .. k - 1 : Entered(g[k - 1], file.assign[i])
        /\ \A h \in Groups : Entered(g[0], h) => Entered(g[k - 1], h)
    BY <1>5
  <2>2. file.assign[k] \in Groups /\ g[k] = Assign(g[k - 1], file.assign[k]) /\ k \in Nat
    BY <1>0, <1>1
  <2>3. ListTypes(g[k]) /\ DOMAIN g[k].filterMap = D
    <3>1. /\ ListTypes(Assign(g[k - 1], file.assign[k]))
          /\ Assign(g[k - 1], file.assign[k]).filterMap = g[k - 1].filterMap
      BY <2>1, <2>2, AssignDoes
    <3>2. QED BY <2>1, <2>2, <3>1
  <2>4. Entered(g[k], file.assign[k]) /\ \A h \in Groups : Entered(g[k - 1], h) => Entered(g[k], h)
    BY <2>1, <2>2, AssignTells
  <2>5. ASSUME NEW i \in 1 .. k PROVE Entered(g[k], file.assign[i])
    <3>1. i = k \/ i \in 1 .. k - 1
      BY <2>2
    <3>2. file.assign[i] \in Groups
      BY <1>0, <2>2
    <3>3. QED BY <2>1, <2>4, <3>1, <3>2
  <2>6. QED BY <2>1, <2>2, <2>3, <2>4, <2>5
<1>6. n \in Good
  <2> HIDE DEF Good, n
  <2>1. n \in 0 .. n
    BY <1>0
  <2>2. QED BY <1>0, <1>4, <1>5, <2>1, LoopInduction
<1>7. /\ ListTypes(g[n]) /\ DOMAIN g[n].filterMap = D /\ AllEntered(g[n], file)
      /\ \A h \in Groups : Entered(g[0], h) => Entered(g[n], h)
  BY <1>6 DEF AllEntered
<1>8. ASSUME Known(acl0, file), NEW other, WellFormed(other), AllEntered(acl0, other)
      PROVE  AllEntered(g[n], other)
  <2>1. \A i \in 1 .. Len(other.assign) : other.assign[i] \in Groups
    BY <1>8 DEF WellFormed
  <2> HIDE DEF n
  <2>2. QED BY <1>3, <1>7, <1>8, <2>1 DEF AllEntered
<1>9. QED BY <1>1, <1>7, <1>8 DEF D

\* Loading again what has been told changes the unused roles only.
LEMMA ToldAgain ==
  ASSUME NEW acl0, ListTypes(acl0), NEW file, WellFormed(file), Known(acl0, file), AllEntered(acl0, file)
  PROVE  Load(acl0, file) = [acl0 EXCEPT !.unusedRoles = Load(acl0, file).unusedRoles]
<1> DEFINE n == Len(file.assign)
           Same(acl1) == /\ acl1.urlMap = acl0.urlMap /\ acl1.filterMap = acl0.filterMap
                         /\ acl1.undefinedURLS = acl0.undefinedURLS
<1>0. n \in Nat /\ file.assign \in Seq(Groups)
  BY DEF WellFormed
<1>1. PICK g : /\ g[0] = AddRoles(acl0, file)
               /\ \A k \in 1 .. n : g[k] = Assign(g[k - 1], file.assign[k])
               /\ Load(acl0, file) = g[n]
  BY <1>0, LoadIsALoop
<1>2. ListTypes(g[0]) /\ Same(g[0])
  <2>1. DOMAIN acl0.filterMap \cup DOMAIN file.roles = DOMAIN acl0.filterMap
    BY DEF Known
  <2>2. /\ ListTypes(g[0]) /\ g[0].urlMap = acl0.urlMap /\ g[0].undefinedURLS = acl0.undefinedURLS
        /\ g[0].filterMap = [r \in DOMAIN acl0.filterMap |-> acl0.filterMap[r]]
    <3>1. /\ ListTypes(AddRoles(acl0, file)) /\ AddRoles(acl0, file).urlMap = acl0.urlMap
          /\ AddRoles(acl0, file).undefinedURLS = acl0.undefinedURLS
          /\ AddRoles(acl0, file).filterMap = [r \in DOMAIN acl0.filterMap \cup DOMAIN file.roles |->
                                    IF r \in DOMAIN acl0.filterMap THEN acl0.filterMap[r] ELSE file.roles[r]]
      BY RolesAdded
    <3>2. QED BY <1>1, <2>1, <3>1
  <2>3. QED BY <2>2 DEF ListTypes
<1> DEFINE Good == {k \in Nat : ListTypes(g[k]) /\ Same(g[k])}
<1>3. 0 \in Good
  BY <1>2
<1>4. ASSUME NEW k \in 1 .. n, k - 1 \in Good PROVE k \in Good
  <2> DEFINE e == file.assign[k]
  <2>1. ListTypes(g[k - 1]) /\ Same(g[k - 1])
    BY <1>4
  <2>2. e \in Groups /\ g[k] = Assign(g[k - 1], e) /\ k \in Nat
    BY <1>0, <1>1
  <2>3. Entered(acl0, e)
    BY DEF AllEntered
  <2> HIDE DEF e
  <2>4. LET known == e.role \in DOMAIN acl0.filterMap
        IN  /\ ListTypes(g[k]) /\ g[k].filterMap = acl0.filterMap
            /\ g[k].urlMap = IF known /\ ~Contains(acl0.urlMap, e) THEN Append(acl0.urlMap, e) ELSE acl0.urlMap
            /\ g[k].undefinedURLS = IF ~known /\ ~Contains(acl0.undefinedURLS, e.role)
                                    THEN <<e.role>> \o acl0.undefinedURLS ELSE acl0.undefinedURLS
    BY <2>1, <2>2, AssignDoes
  <2>5. QED BY <2>2, <2>3, <2>4 DEF Entered
<1>5. n \in Good
  <2> HIDE DEF Good, n
  <2>1. n \in 0 .. n
    BY <1>0
  <2>2. QED BY <1>0, <1>3, <1>4, <2>1, LoopInduction
<1>6. ListTypes(g[n]) /\ Same(g[n])
  BY <1>5
<1> DEFINE l == g[n]
<1>7. l = [urlMap |-> l.urlMap, filterMap |-> l.filterMap,
           unusedRoles |-> l.unusedRoles, undefinedURLS |-> l.undefinedURLS]
  BY <1>6 DEF ListTypes
<1>8. acl0 = [urlMap |-> acl0.urlMap, filterMap |-> acl0.filterMap,
              unusedRoles |-> acl0.unusedRoles, undefinedURLS |-> acl0.undefinedURLS]
  BY DEF ListTypes
<1>9. /\ l.urlMap = acl0.urlMap /\ l.filterMap = acl0.filterMap
      /\ l.undefinedURLS = acl0.undefinedURLS
  BY <1>6
<1> HIDE DEF l
<1>10. l = [acl0 EXCEPT !.unusedRoles = l.unusedRoles]
  BY <1>7, <1>8, <1>9
<1>11. QED BY <1>1, <1>10 DEF l

-----------------------------------------------------------------------------
(* The two lists while the plugin comes and goes and the files change.     *)

AclInOrder ==
  /\ aclRead = None \/ WellFormed(aclRead)
  /\ aclFile = None \/ WellFormed(aclFile)
  /\ acl = IF aclRead = None THEN EmptyList ELSE Load(EmptyList, aclRead)
  /\ phase \in {"off", "stopping"} => aclRead = None
  /\ phase = "off" => dac = EmptyList /\ ~reading

\* While the directory is read each of its files is still to be read, or was,
\* unless it has changed since the reading began.
DacInOrder ==
  /\ ListTypes(dac) /\ unchanged \in -1 .. 2 /\ (unchanged = -1 => reading)
  /\ folder \in Seq(ToSet(folder)) /\ \A file \in ToSet(folder) : WellFormed(file)
  /\ reading => loading \in Seq(ToSet(loading)) /\ \A file \in ToSet(loading) : WellFormed(file)
  /\ reading /\ unchanged >= 0 => ToSet(loading) \subseteq ToSet(folder)
  /\ \A file \in ToSet(folder) :
       /\ unchanged >= 1 => Known(dac, file)
       /\ unchanged = 2 => AllEntered(dac, file)
       /\ reading /\ unchanged >= 0 /\ file \notin ToSet(loading) => Known(dac, file)
       /\ reading /\ file \notin ToSet(loading) /\ unchanged >= 1 => AllEntered(dac, file)

AgentInv == AclInOrder /\ DacInOrder

LEMMA AgentBegins ==
  ASSUME Init
  PROVE  AgentInv
<1>1. AclInOrder
  BY DEF Init, AclInOrder, EmptyList
<1>2. ListTypes(dac)
  BY DEF Init, ListTypes, EmptyList
<1>3. folder = <<>> /\ ToSet(folder) = {} /\ ~reading /\ unchanged = 0
  BY DEF Init, ToSet
<1>4. folder \in Seq(ToSet(folder))
  BY <1>3
<1>5. DacInOrder
  BY <1>2, <1>3, <1>4 DEF DacInOrder
<1>6. QED BY <1>1, <1>5 DEF AgentInv

LEMMA AclStep ==
  ASSUME AgentInv, Next \/ UNCHANGED agentVars
  PROVE  AclInOrder'
<1> USE DEF AgentInv, AclInOrder
<1>1. CASE Initialize
  <2>1. aclFile' = aclFile /\ aclRead' = aclFile /\ phase' = "starting" /\ acl = EmptyList
    BY <1>1 DEF Initialize
  <2>2. acl' = IF aclFile = None THEN EmptyList ELSE Load(EmptyList, aclFile)
    BY <1>1, <2>1 DEF Initialize
  <2>3. QED BY <2>1, <2>2
<1>2. CASE Register
  BY <1>2 DEF Register
<1>3. CASE Updated
  BY <1>3 DEF Updated
<1>4. CASE UpdatedFile
  BY <1>4 DEF UpdatedFile
<1>5. CASE Deinitialize
  BY <1>5 DEF Deinitialize, Clear
<1>6. CASE Unregister
  BY <1>6 DEF Unregister, Clear
<1>7. CASE Written
  BY <1>7, FilesAssumption DEF Written
<1>8. CASE \E c \in Clients, t \in Tokens : Officer(c, t)
  BY <1>8 DEF Officer
<1>9. CASE UNCHANGED agentVars
  BY <1>9 DEF agentVars
<1>10. QED BY <1>1, <1>2, <1>3, <1>4, <1>5, <1>6, <1>7, <1>8, <1>9 DEF Next

\* A sequence is one over any set that has its elements.
LEMMA NarrowedSequence ==
  ASSUME NEW S, NEW Narrow, NEW s \in Seq(S), \A i \in 1 .. Len(s) : s[i] \in Narrow
  PROVE  s \in Seq(Narrow)
<1>1. Len(s) \in Nat /\ s \in [1 .. Len(s) -> S]
  OBVIOUS
<1>2. s \in [1 .. Len(s) -> Narrow]
  BY <1>1
<1>3. QED BY <1>1, <1>2, SeqDef

\* One file of the directory is loaded.
LEMMA FileRead ==
  ASSUME DacInOrder, reading, loading # <<>>
  PROVE  /\ Head(loading) \in ToSet(loading) /\ WellFormed(Head(loading))
         /\ Tail(loading) \in Seq(ToSet(Tail(loading)))
         /\ \A file : file \in ToSet(loading) <=> file = Head(loading) \/ file \in ToSet(Tail(loading))
<1>1. loading \in Seq(ToSet(loading)) /\ \A file \in ToSet(loading) : WellFormed(file)
  BY DEF DacInOrder
<1> DEFINE F == ToSet(loading)
<1> HIDE DEF F
<1>2. Head(loading) \in F /\ Tail(loading) \in Seq(F)
  BY <1>1 DEF F
<1>3. /\ Len(loading) \in Nat \ {0} /\ DOMAIN loading = 1 .. Len(loading) /\ Head(loading) = loading[1]
      /\ DOMAIN Tail(loading) = 1 .. Len(loading) - 1
      /\ \A i \in 1 .. Len(loading) - 1 : Tail(loading)[i] = loading[i + 1]
  BY <1>1
<1>4. ASSUME NEW file
      PROVE  file \in ToSet(loading) <=> file = Head(loading) \/ file \in ToSet(Tail(loading))
  <2>1. ASSUME NEW i \in 1 .. Len(loading), file = loading[i], i # 1
        PROVE  \E j \in 1 .. Len(loading) - 1 : Tail(loading)[j] = file
    <3>1. i - 1 \in 1 .. Len(loading) - 1 /\ (i - 1) + 1 = i
      BY <1>3, <2>1
    <3>2. QED BY <1>3, <2>1, <3>1
  <2>2. ASSUME NEW i \in 1 .. Len(loading) - 1, file = Tail(loading)[i]
        PROVE  \E j \in 1 .. Len(loading) : loading[j] = file
    <3>1. i + 1 \in 1 .. Len(loading)
      BY <1>3
    <3>2. QED BY <1>3, <2>2, <3>1
  <2>3. 1 \in 1 .. Len(loading)
    BY <1>3
  <2>4. QED BY <1>3, <2>1, <2>2, <2>3 DEF ToSet
<1>5. Tail(loading) \in Seq(ToSet(Tail(loading)))
  <2>1. ASSUME NEW t \in Seq(F) PROVE t \in Seq(ToSet(t))
    <3>1. \A i \in 1 .. Len(t) : t[i] \in ToSet(t)
      BY DEF ToSet
    <3>2. QED BY <3>1, NarrowedSequence
  <2>2. QED BY <1>2, <2>1
<1>6. QED BY <1>1, <1>2, <1>4, <1>5 DEF F

\* What a reading may still find is well-formed.
LEMMA FoundIsWellFormed ==
  ASSUME DacInOrder, reading, NEW files \in Folders, NEW found \in StillFound(files)
  PROVE  found \in Seq(ToSet(found)) /\ \A file \in ToSet(found) : WellFormed(file)
<1> DEFINE F == {file \in ToSet(loading) \cup ToSet(files) : WellFormed(file)}
           rests == {SubSeq(files, i, Len(files)) : i \in 1 .. Len(files) + 1}
<1>1. /\ found \in rests \cup IF loading = <<>> THEN {} ELSE {<<Head(loading)>> \o rest : rest \in rests}
      /\ files \in Seq(F)
  <2>1. files \in Seq(ToSet(files)) /\ ToSet(files) \subseteq F
    BY FilesAssumption
  <2>2. \A k \in 1 .. Len(files) : files[k] \in F
    BY <2>1
  <2>3. QED BY <2>1, <2>2, NarrowedSequence DEF StillFound
<1>2. loading # <<>> => Head(loading) \in F
  BY FileRead
<1> HIDE DEF F
<1>3. ASSUME NEW rest \in rests PROVE rest \in Seq(F)
  <2>1. PICK i \in 1 .. Len(files) + 1 : rest = SubSeq(files, i, Len(files))
    OBVIOUS
  <2>2. \A k \in i .. Len(files) : files[k] \in F
    BY <1>1
  <2>3. QED BY <1>1, <2>1, <2>2, SubSeqProperties
<1> HIDE DEF rests
<1>4. found \in Seq(F)
  <2>1. CASE found \in rests
    BY <1>3, <2>1
  <2>2. CASE found \notin rests
    <3>1. PICK rest \in rests : found = <<Head(loading)>> \o rest /\ loading # <<>>
      BY <1>1, <2>2
    <3>2. <<Head(loading)>> \in Seq(F) /\ rest \in Seq(F)
      BY <1>2, <1>3, <3>1
    <3>3. QED BY <3>1, <3>2, ConcatProperties
  <2>3. QED BY <2>1, <2>2
<1>5. found \in Seq(ToSet(found))
  <2>1. \A k \in 1 .. Len(found) : found[k] \in ToSet(found)
    BY <1>4 DEF ToSet
  <2>2. QED BY <1>4, <2>1, NarrowedSequence
<1>6. ToSet(found) \subseteq F
  BY <1>4 DEF ToSet
<1>7. QED BY <1>5, <1>6 DEF F

LEMMA DacStep ==
  ASSUME AgentInv, Next \/ UNCHANGED agentVars
  PROVE  DacInOrder'
<1> USE DEF AgentInv
<1>1. ASSUME reading' = TRUE, loading' = folder, UNCHANGED <<folder, dac, unchanged>>
      PROVE  DacInOrder'
  BY <1>1 DEF DacInOrder
<1>2. ASSUME UNCHANGED <<folder, dac, reading, loading, unchanged>>
      PROVE  DacInOrder'
  BY <1>2 DEF DacInOrder
<1>3. CASE Initialize
  BY <1>1, <1>3 DEF Initialize
<1>4. CASE Updated
  BY <1>1, <1>4 DEF Updated
<1>5. CASE UpdatedFile /\ loading = <<>>
  <2>1. ~reading' /\ unchanged' = (IF unchanged < 2 THEN unchanged + 1 ELSE 2) /\ reading
        /\ UNCHANGED <<folder, dac>>
    BY <1>5 DEF UpdatedFile
  <2>2. \A file \in ToSet(folder) : /\ unchanged >= 0 => Known(dac, file)
                                    /\ unchanged >= 1 => AllEntered(dac, file)
    <3>1. ToSet(loading) = {}
      BY <1>5 DEF ToSet
    <3>2. QED BY <2>1, <3>1 DEF DacInOrder
  <2>3. unchanged' \in 0 .. 2 /\ (unchanged' = 2 => unchanged >= 1) /\ (unchanged' >= 1 => unchanged >= 0)
    BY <2>1 DEF DacInOrder
  <2>4. QED BY <2>1, <2>2, <2>3 DEF DacInOrder
<1>6. CASE UpdatedFile /\ loading # <<>>
  <2> DEFINE new == Head(loading)
  <2>1. /\ reading /\ reading' /\ dac' = Load(dac, new) /\ loading' = Tail(loading)
        /\ UNCHANGED <<folder, unchanged>>
    BY <1>6 DEF UpdatedFile
  <2>2. /\ new \in ToSet(loading) /\ WellFormed(new) /\ Tail(loading) \in Seq(ToSet(Tail(loading)))
        /\ (unchanged >= 0 => new \in ToSet(folder))
        /\ \A file \in ToSet(loading) : WellFormed(file)
        /\ \A file : file \in ToSet(loading) <=> file = new \/ file \in ToSet(Tail(loading))
    <3>1. \A file \in ToSet(loading) : WellFormed(file)
      BY <2>1 DEF DacInOrder
    <3>2. unchanged >= 0 => ToSet(loading) \subseteq ToSet(folder)
      BY <2>1 DEF DacInOrder
    <3>3. QED BY <1>6, <2>1, <3>1, <3>2, FileRead
  <2>3. ListTypes(dac)
    BY DEF DacInOrder
  <2> HIDE DEF new
  <2>4. /\ ListTypes(Load(dac, new))
        /\ DOMAIN Load(dac, new).filterMap = DOMAIN dac.filterMap \cup DOMAIN new.roles
        /\ AllEntered(Load(dac, new), new)
        /\ Known(dac, new) =>
              \A other : WellFormed(other) /\ AllEntered(dac, other) => AllEntered(Load(dac, new), other)
    BY <2>2, <2>3, LoadTells
  <2>5. Known(dac', new) /\ \A file : Known(dac, file) => Known(dac', file)
    BY <2>1, <2>4 DEF Known
  <2>6. ASSUME NEW file \in ToSet(folder), unchanged >= 1, AllEntered(dac, file)
        PROVE  AllEntered(dac', file)
    <3>1. Known(dac, new) /\ WellFormed(file)
      BY <2>2, <2>6 DEF DacInOrder
    <3>2. QED BY <2>1, <2>4, <2>6, <3>1
  <2>7. ASSUME NEW file \in ToSet(folder)
        PROVE  /\ unchanged >= 1 => Known(dac', file)
               /\ unchanged = 2 => AllEntered(dac', file)
               /\ unchanged >= 0 /\ file \notin ToSet(loading') => Known(dac', file)
               /\ file \notin ToSet(loading') /\ unchanged >= 1 => AllEntered(dac', file)
    <3>1. /\ unchanged >= 1 => Known(dac, file)
          /\ unchanged = 2 => AllEntered(dac, file)
          /\ unchanged >= 0 /\ file \notin ToSet(loading) => Known(dac, file)
          /\ file \notin ToSet(loading) /\ unchanged >= 1 => AllEntered(dac, file)
      BY <2>1 DEF DacInOrder
    <3>2. file \notin ToSet(loading') => file = new \/ file \notin ToSet(loading)
      BY <2>1, <2>2
    <3>3. (unchanged = 2 => unchanged >= 1) /\ (unchanged >= 1 => unchanged >= 0)
      BY DEF DacInOrder
    <3>4. QED BY <2>1, <2>4, <2>5, <2>6, <3>1, <3>2, <3>3
  <2>8. /\ folder \in Seq(ToSet(folder)) /\ \A file \in ToSet(folder) : WellFormed(file)
        /\ unchanged \in -1 .. 2
    BY DEF DacInOrder
  <2>9. /\ ListTypes(dac') /\ unchanged' \in -1 .. 2 /\ folder' = folder
        /\ loading' \in Seq(ToSet(loading')) /\ \A file \in ToSet(loading') : WellFormed(file)
        /\ unchanged >= 0 => ToSet(loading') \subseteq ToSet(folder)
    <3>1. ToSet(loading') \subseteq ToSet(loading)
      BY <2>1, <2>2
    <3>2. unchanged >= 0 => ToSet(loading) \subseteq ToSet(folder)
      BY <2>1 DEF DacInOrder
    <3>3. QED BY <2>1, <2>2, <2>4, <2>8, <3>1, <3>2
  <2>10. QED BY <2>1, <2>7, <2>8, <2>9 DEF DacInOrder
<1>7. CASE Unregister
  <2>1. ListTypes(EmptyList)
    BY DEF ListTypes, EmptyList
  <2>2. ~reading /\ ~reading' /\ dac' = EmptyList /\ unchanged' = 0 /\ folder' = folder
    BY <1>7 DEF Unregister, Clear
  <2>3. QED BY <2>1, <2>2 DEF DacInOrder
<1>8. CASE Written
  <2>1. reading' = reading /\ dac' = dac
    BY <1>8 DEF Written
  <2>2. CASE folder' = folder /\ unchanged' = unchanged /\ loading' = loading
    BY <2>1, <2>2 DEF DacInOrder
  <2>3. CASE /\ folder' \in Folders /\ unchanged' = (IF reading THEN -1 ELSE 0)
             /\ reading => loading' \in StillFound(folder')
    <3>1. folder' \in Seq(ToSet(folder')) /\ \A file \in ToSet(folder') : WellFormed(file)
      BY <2>3, FilesAssumption
    <3>2. reading => /\ loading' \in Seq(ToSet(loading'))
                     /\ \A file \in ToSet(loading') : WellFormed(file)
      BY <2>3, FoundIsWellFormed
    <3>3. unchanged' \in {-1, 0} /\ (unchanged' = -1 => reading') /\ (reading' => unchanged' = -1)
      BY <2>1, <2>3
    <3>4. QED BY <2>1, <2>3, <3>1, <3>2, <3>3 DEF DacInOrder
  <2>4. QED BY <1>8, <2>2, <2>3 DEF Written
<1>9. CASE Register \/ Deinitialize \/ (\E c \in Clients, t \in Tokens : Officer(c, t)) \/ UNCHANGED agentVars
  BY <1>2, <1>9 DEF Register, Deinitialize, Officer, agentVars
<1>10. QED BY <1>3, <1>4, <1>5, <1>6, <1>7, <1>8, <1>9 DEF Next

LEMMA AgentStep ==
  ASSUME AgentInv, Next \/ UNCHANGED agentVars
  PROVE  AgentInv'
BY AclStep, DacStep DEF AgentInv

LEMMA AgentDecides ==
  ASSUME AgentInv
  PROVE  DecidesByTheFile
<1> SUFFICES ASSUME NEW c \in Clients, NEW call \in Calls
             PROVE  LET allowed == ContextAllowed(context[c], call)
                    IN  /\ context[c].list = "acl" =>
                             (allowed <=> Says(aclRead, GetUrlOrigin(context[c].url), call[1], call[2]))
                        /\ context[c].list = "dac" /\ phase = "off" => ~allowed
  BY DEF DecidesByTheFile
<1>1. call # Elsewhere
  BY FilesAssumption DEF Elsewhere
<1>2. ContextAllowed(context[c], call) <=>
        Allowed(IF context[c].list = "acl" THEN acl ELSE dac, context[c].url, call[1], call[2])
  BY <1>1 DEF ContextAllowed
<1>3. ASSUME context[c].list = "acl"
      PROVE  Allowed(acl, context[c].url, call[1], call[2]) <=>
               Says(aclRead, GetUrlOrigin(context[c].url), call[1], call[2])
  <2>1. CASE aclRead = None
    <3>1. acl = EmptyList
      BY <2>1 DEF AgentInv, AclInOrder
    <3>2. ~Says(aclRead, GetUrlOrigin(context[c].url), call[1], call[2])
      BY <2>1 DEF Says
    <3>3. QED BY <3>1, <3>2, EmptyAllowsNothing
  <2>2. CASE aclRead # None
    <3>1. acl = Load(EmptyList, aclRead) /\ WellFormed(aclRead)
      BY <2>2 DEF AgentInv, AclInOrder
    <3>2. QED BY <3>1, ListDecides
  <2>3. QED BY <2>1, <2>2
<1>4. phase = "off" => ~Allowed(dac, context[c].url, call[1], call[2])
  BY EmptyAllowsNothing DEF AgentInv, AclInOrder
<1>5. QED BY <1>2, <1>3, <1>4

\* Whatever the files are and however often they change: a context decides by the
\* file that the last start has read, as if it had been read on its own; and one
\* that has outlived the plugin allows no call to a plugin.
THEOREM AgentDecidesByTheFile == MCSpec => []DecidesByTheFile
<1>1. MCInit => AgentInv
  BY AgentBegins DEF MCInit
<1>2. AgentInv /\ [MCNext]_<<group, agentVars, pluginVars, otherVars, mediaVars>> => AgentInv'
  <2> SUFFICES ASSUME AgentInv, [MCNext]_<<group, agentVars, pluginVars, otherVars, mediaVars>>
               PROVE  AgentInv'
    OBVIOUS
  <2>1. Next \/ UNCHANGED agentVars
    BY DEF MCNext
  <2>2. QED BY <2>1, AgentStep
<1>3. QED BY <1>1, <1>2, AgentDecides, PTL DEF MCSpec

\* A directory that was read twice since it has changed, read again: no rule changes
\* and no entry is added.
THEOREM ReadingComesToRest == MCSpec => ReadingSettles
<1>1. MCInit => AgentInv
  BY AgentBegins DEF MCInit
<1>2. AgentInv /\ [MCNext]_<<group, agentVars, pluginVars, otherVars, mediaVars>> => AgentInv'
  <2> SUFFICES ASSUME AgentInv, [MCNext]_<<group, agentVars, pluginVars, otherVars, mediaVars>>
               PROVE  AgentInv'
    OBVIOUS
  <2>1. Next \/ UNCHANGED agentVars
    BY DEF MCNext
  <2>2. QED BY <2>1, AgentStep
<1>3. AgentInv /\ [MCNext]_<<group, agentVars, pluginVars, otherVars, mediaVars>> =>
        [unchanged = 2 /\ reading /\ phase' # "off" =>
           dac' = [dac EXCEPT !.unusedRoles = dac'.unusedRoles]]_agentVars
  <2> SUFFICES ASSUME AgentInv, Next \/ UNCHANGED agentVars, unchanged = 2, reading, phase' # "off"
               PROVE  dac' = [dac EXCEPT !.unusedRoles = dac'.unusedRoles]
    BY DEF MCNext
  <2>1. CASE dac' = dac
    BY <2>1 DEF AgentInv, DacInOrder, ListTypes
  <2>2. CASE dac' # dac
    <3>1. UpdatedFile /\ loading # <<>> /\ dac' = Load(dac, Head(loading))
      BY <2>2 DEF Next, agentVars, Initialize, Register, Updated, UpdatedFile, Deinitialize, Unregister,
                  Written, Officer
    <3>2. Head(loading) \in ToSet(folder) /\ WellFormed(Head(loading))
      BY <3>1, FileRead DEF AgentInv, DacInOrder
    <3>3. ListTypes(dac) /\ Known(dac, Head(loading)) /\ AllEntered(dac, Head(loading))
      BY <3>2 DEF AgentInv, DacInOrder
    <3>4. QED BY <3>1, <3>2, <3>3, ToldAgain
  <2>3. QED BY <2>1, <2>2
<1>4. QED BY <1>1, <1>2, <1>3, PTL DEF MCSpec, ReadingSettles
=============================================================================
