--------------------------- MODULE Packager_proofs ---------------------------
(***************************************************************************)
(* The safety of the Packager, for any set of observers and any bounds.    *)
(*                                                                         *)
(* The invariants of Packager are not inductive by themselves: that the    *)
(* worker owns the job it works on rests on the fact that it only leaves   *)
(* its loop condition with a job in hand (RunsForAJob), which in turn      *)
(* rests on the worker parking itself without looking; and an outcome is   *)
(* announced because a callback never runs out of states to set.  That the *)
(* references are as many as the observers is a statement about a sum, and *)
(* needs lemmas about how a fold adds up (SumChanges).                     *)
(***************************************************************************)
EXTENDS Packager, SequenceTheorems, FiniteSetTheorems, WellFoundedInduction, TLAPS

RunsForAJob == pc = "sample" \/ (pc = "check" /\ thread = "RUNNING") => Working

SomethingToPublish == pc = "publish" => todo # <<>>

EndsWithOutcome == pc \in {"deactivate", "release"} => Terminal(install)

IInv == /\ TypeOK
        /\ RunsForAJob /\ SomethingToPublish /\ EndsWithOutcome
        /\ WorkerOwnsItsJob /\ OneOperationAtATime /\ ObserversUpToDate

-----------------------------------------------------------------------------
\* A vector is a vector over exactly the elements it holds.
LEMMA ElementsOfSequence ==
  /\ \A S : \A s \in Seq(S) : s \in Seq(ToSet(s)) /\ ToSet(s) \subseteq S
<1>1. ASSUME NEW S, NEW s \in Seq(S)
      PROVE  s \in Seq(ToSet(s)) /\ ToSet(s) \subseteq S
  <2>1. s \in [1 .. Len(s) -> S] /\ Len(s) \in Nat /\ DOMAIN s = 1 .. Len(s)
    OBVIOUS
  <2>2. s \in [1 .. Len(s) -> ToSet(s)]
    BY <2>1 DEF ToSet
  <2>3. \A i \in DOMAIN s : s[i] \in S
    BY <2>1
  <2>4. ToSet(s) \subseteq S
    BY <2>3 DEF ToSet
  <2>5. s \in Seq(ToSet(s))
    <3>1. \A i \in 1 .. Len(s) : s[i] \in ToSet(s)
      BY <2>1, <2>2
    <3>2. SubSeq(s, 1, Len(s)) \in Seq(ToSet(s))
      BY <2>1, <3>1, SubSeqProperties
    <3>3. QED BY <3>2, SubSeqFull
  <2>6. QED BY <2>4, <2>5
<1>2. QED BY <1>1

\* Adding or erasing an element adds no other element to the vector.
LEMMA AppendedSequence ==
  ASSUME NEW S, NEW s \in Seq(S), NEW e \in S
  PROVE  /\ Append(s, e) \in Seq(S)
         /\ ToSet(Append(s, e)) \subseteq ToSet(s) \cup {e}
<1> DEFINE T == ToSet(s) \cup {e}
<1>1. ToSet(s) \subseteq T /\ e \in T
  OBVIOUS
<1>2. s \in Seq(ToSet(s))
  BY ElementsOfSequence
<1> HIDE DEF T
<1>3. s \in Seq(T)
  BY <1>1, <1>2
<1>4. Append(s, e) \in Seq(T)
  BY <1>1, <1>3, AppendProperties
<1>5. ToSet(Append(s, e)) \subseteq T
  BY <1>4, ElementsOfSequence
<1>6. QED BY <1>5, AppendProperties DEF T

\* An erase brings no new element.
LEMMA ErasedSequence ==
  ASSUME NEW S, NEW s \in Seq(S), NEW i \in 1 .. Len(s)
  PROVE  /\ RemoveAt(s, i) \in Seq(S)
         /\ ToSet(RemoveAt(s, i)) \subseteq ToSet(s)
<1> DEFINE T == ToSet(s)
<1>1. s \in Seq(T) /\ T \subseteq S
  BY ElementsOfSequence
<1> HIDE DEF T
<1>2. \A j \in 1 .. Len(s) : s[j] \in T
  BY <1>1
<1>3. SubSeq(s, 1, i - 1) \in Seq(T) /\ SubSeq(s, i + 1, Len(s)) \in Seq(T)
  <2>1. \A j \in 1 .. i - 1 : s[j] \in T
    BY <1>2
  <2>2. \A j \in i + 1 .. Len(s) : s[j] \in T
    BY <1>2
  <2>3. i - 1 \in Int /\ i + 1 \in Int /\ Len(s) \in Int
    OBVIOUS
  <2>4. QED BY <2>1, <2>2, <2>3, SubSeqProperties
<1>4. RemoveAt(s, i) \in Seq(T)
  BY <1>3, ConcatProperties DEF RemoveAt
<1>5. ToSet(RemoveAt(s, i)) \subseteq T
  BY <1>4, ElementsOfSequence
<1>6. RemoveAt(s, i) \in Seq(S)
  BY <1>1, <1>4
<1>7. QED BY <1>5, <1>6 DEF T

\* The states one report of opkg publishes are states of an installation.
LEMMA PublishedStates ==
  ASSUME NEW action, NEW done
  PROVE  Publishes(action, done) \in Seq(States \cup {"ERROR"})
<1> DEFINE T == States \cup {"ERROR"}
<1>1. <<>> \in Seq(T) /\ <<"DOWNLOADED">> \in Seq(T) /\ <<"INSTALLED">> \in Seq(T)
      /\ <<"DOWNLOADING">> \in Seq(T) /\ <<"INSTALLING">> \in Seq(T)
  BY DEF States
<1>2. \A a, b \in Seq(T) : a \o b \in Seq(T)
  BY ConcatProperties
<1> HIDE DEF T
<1>3. Publishes(action, done) \in Seq(T)
  BY <1>1, <1>2 DEF Publishes
<1>4. QED BY <1>3 DEF T

\* The worker sleeps and there is no job.
LEMMA InitInvariant == Init => IInv
<1> SUFFICES ASSUME Init PROVE IInv
  OBVIOUS
<1>1. notifications \in Seq(Observers) /\ todo \in Seq(States \cup {"ERROR"})
  BY EmptySeq DEF Init
<1>2. refs \in [Observers -> Int] /\ told \in [Observers -> Infos \cup {NoJob}]
  BY DEF Init
<1>3. TypeOK
  BY <1>1, <1>2 DEF Init, TypeOK, Stages
<1>4. RunsForAJob /\ SomethingToPublish /\ EndsWithOutcome
  BY DEF Init, RunsForAJob, SomethingToPublish, EndsWithOutcome
<1>5. WorkerOwnsItsJob /\ OneOperationAtATime /\ ObserversUpToDate
  BY DEF Init, WorkerOwnsItsJob, OneOperationAtATime, ObserversUpToDate, InInstall, InSetup
<1>6. QED BY <1>3, <1>4, <1>5 DEF IInv

\* What the worker does without touching an observer.
LEMMA WorkerStep ==
  ASSUME IInv,
         Wake \/ Sample \/ UseLocalLists \/ UpdateLists \/ NotifyRepoSynced
         \/ DeactivatePlugin \/ ReleaseJob \/ Block
  PROVE  IInv'
<1> USE DEF IInv, TypeOK, RunsForAJob, SomethingToPublish, EndsWithOutcome,
            WorkerOwnsItsJob, OneOperationAtATime, ObserversUpToDate, Working,
            InInstall, InSetup, Stages, Registered, ToSet, Terminal,
            jobVars, clientVars, WorkerAt, WorkerGoes
<1>1. CASE Wake
  BY <1>1 DEF Wake
<1>2. CASE Sample
  BY <1>2 DEF Sample
<1>3. CASE UseLocalLists
  BY <1>3 DEF UseLocalLists
<1>4. CASE UpdateLists
  BY <1>4 DEF UpdateLists
<1>5. CASE NotifyRepoSynced
  BY <1>5 DEF NotifyRepoSynced
<1>6. CASE DeactivatePlugin
  BY <1>6 DEF DeactivatePlugin
<1>7. CASE ReleaseJob
  BY <1>7 DEF ReleaseJob
<1>8. CASE Block
  BY <1>8 DEF Block
<1>9. QED BY <1>1, <1>2, <1>3, <1>4, <1>5, <1>6, <1>7, <1>8

\* The callbacks of opkg and their announcements.
LEMMA InstallStep ==
  ASSUME IInv,
         InstallationProgess \/ InstallationDone \/ InstallationFails
         \/ SetState \/ NotifyStateChange
  PROVE  IInv'
<1> USE DEF IInv, TypeOK, RunsForAJob, SomethingToPublish, EndsWithOutcome,
            WorkerOwnsItsJob, OneOperationAtATime, ObserversUpToDate, Working,
            InInstall, InSetup, Stages, Registered, ToSet, Terminal,
            jobVars, clientVars, WorkerAt, WorkerGoes
<1>1. ASSUME NEW action, NEW done, Report(action, done) PROVE IInv'
  <2>1. todo' \in Seq(States \cup {"ERROR"})
    BY <1>1, PublishedStates DEF Report
  <2>2. QED BY <1>1, <2>1 DEF Report
<1>2. CASE InstallationFails
  BY <1>2 DEF InstallationFails
<1>3. CASE SetState
  <2>1. Head(todo) \in States \cup {"ERROR"} /\ Tail(todo) \in Seq(States \cup {"ERROR"})
    BY <1>3, HeadTailProperties DEF SetState
  <2>2. install \in Infos /\ install' \in Infos
    BY <1>3, <2>1 DEF SetState, Infos, NoJob
  <2>3. install' # NoJob
    BY <2>2 DEF Infos, States, NoJob
  <2>4. QED BY <1>3, <2>1, <2>2, <2>3 DEF SetState
<1>4. CASE NotifyStateChange
  <2>1. told' \in [Observers -> Infos \cup {NoJob}]
    BY <1>4 DEF NotifyStateChange
  <2>2. TypeOK' /\ RunsForAJob' /\ SomethingToPublish' /\ EndsWithOutcome'
    BY <1>4, <2>1 DEF NotifyStateChange
  <2>3. WorkerOwnsItsJob' /\ OneOperationAtATime'
    BY <1>4 DEF NotifyStateChange
  <2>4. ObserversUpToDate'
    BY <1>4 DEF NotifyStateChange
  <2>5. QED BY <2>2, <2>3, <2>4
<1>5. QED BY <1>1, <1>2, <1>3, <1>4 DEF InstallationProgess, InstallationDone

\* Clients fill the empty slot only, and who registers is told the state.
LEMMA ApiStep ==
  ASSUME IInv, Api
  PROVE  IInv'
<1> USE DEF IInv, TypeOK, RunsForAJob, SomethingToPublish, EndsWithOutcome,
            WorkerOwnsItsJob, OneOperationAtATime, ObserversUpToDate, Working,
            InInstall, InSetup, Stages, Registered, Terminal,
            jobVars, clientVars, workVars
<1>1. ASSUME NEW wantInstall \in BOOLEAN, DoWork(wantInstall) PROVE IInv'
  <2>1. Created \in Infos /\ Created # NoJob
    BY DEF Created, Infos, States, NoJob
  <2>2. QED BY <1>1, <2>1 DEF DoWork
<1>2. ASSUME NEW o \in Observers, Register(o) PROVE IInv'
  <2>1. notifications' \in Seq(Observers) /\ Registered' \subseteq Registered \cup {o}
    BY <1>2, AppendedSequence DEF Register
  <2>2. refs' \in [Observers -> Int] /\ told' \in [Observers -> Infos \cup {NoJob}]
    BY <1>2 DEF Register
  <2>3. ObserversUpToDate'
    <3>1. SUFFICES ASSUME install \notin {NoJob, Created}, pc # "notify",
                          NEW p \in Registered'
                   PROVE  told'[p] = install
      BY <1>2 DEF Register
    <3>2. CASE p = o
      BY <1>2, <3>1, <3>2 DEF Register
    <3>3. CASE p # o
      BY <1>2, <2>1, <3>1, <3>3 DEF Register
    <3>4. QED BY <3>2, <3>3
  <2>4. QED BY <1>2, <2>1, <2>2, <2>3 DEF Register
<1>3. ASSUME NEW i \in DOMAIN notifications, Unregister(i) PROVE IInv'
  <2>1. i \in 1 .. Len(notifications) /\ notifications[i] \in Observers
    OBVIOUS
  <2>2. notifications' \in Seq(Observers) /\ Registered' \subseteq Registered
    BY <1>3, <2>1, ErasedSequence DEF Unregister
  <2>3. refs' \in [Observers -> Int] /\ told' \in [Observers -> Infos \cup {NoJob}]
    BY <1>3, <2>1 DEF Unregister
  <2>4. ObserversUpToDate'
    <3>1. SUFFICES ASSUME install \notin {NoJob, Created}, pc # "notify",
                          NEW p \in Registered'
                   PROVE  told'[p] = install
      BY <1>3 DEF Unregister
    <3>2. p \in Observers /\ told[p] = install
      BY <2>2, <3>1, ElementsOfSequence
    <3>3. QED BY <1>3, <3>1, <3>2 DEF Unregister
  <2>5. QED
    BY <1>3, <2>2, <2>3, <2>4 DEF Unregister
<1>4. CASE Destruct
  BY <1>4 DEF Destruct
<1>5. CASE StopWorker
  BY <1>5 DEF StopWorker
<1>6. QED BY <1>1, <1>2, <1>3, <1>4, <1>5 DEF Api

\* Every step keeps the invariant.
LEMMA NextInvariant == IInv /\ [Next]_vars => IInv'
<1> SUFFICES ASSUME IInv, [Next]_vars PROVE IInv'
  OBVIOUS
<1>1. CASE Worker
  BY <1>1, WorkerStep, InstallStep DEF Worker
<1>2. CASE Api
  BY <1>2, ApiStep
<1>3. CASE UNCHANGED vars
  BY <1>3 DEF vars, jobVars, clientVars, workVars, IInv, TypeOK, RunsForAJob,
     SomethingToPublish, EndsWithOutcome, WorkerOwnsItsJob, OneOperationAtATime,
     ObserversUpToDate, Working, InInstall, InSetup, Registered, Terminal
<1>4. QED BY <1>1, <1>2, <1>3 DEF Next

\* Worker, job and observers are in order in every state.
LEMMA Invariance == Spec => []IInv
BY InitInvariant, NextInvariant, PTL DEF Spec

-----------------------------------------------------------------------------
\* Every variable of the Packager keeps its type.
THEOREM PackagerTypeCorrect == Spec => []TypeOK
BY Invariance, PTL DEF IInv

\* The job the worker samples is still there, and is the one it sampled, until
\* the worker itself gives it up: the assertions of the two Blocking... methods.
THEOREM WorkerNeverLosesItsJob == Spec => []WorkerOwnsItsJob
BY Invariance, PTL DEF IInv

\* An installation and a synchronization are never in progress together.
THEOREM OnlyOneOperation == Spec => []OneOperationAtATime
BY Invariance, PTL DEF IInv

\* Each registered observer has last been told the current state.
THEOREM ObserversAreUpToDate == Spec => []ObserversUpToDate
BY Invariance, PTL DEF IInv

\* An installation is not given up before its outcome has been announced.
THEOREM OutcomeIsAnnounced == Spec => OutcomeAnnounced
<1>1. ASSUME IInv, [Next]_vars, install # NoJob, install' = NoJob
      PROVE  Terminal(install) /\ \A o \in Registered : told[o] = install
  <2>1. ReleaseJob
    <3>1. install' # install
      BY <1>1
    <3>2. ~SetState
      <4>1. SUFFICES ASSUME SetState PROVE FALSE
        OBVIOUS
      <4>2. Head(todo) \in States \cup {"ERROR"}
        BY <1>1, <4>1, HeadTailProperties
        DEF SetState, WorkerAt, IInv, TypeOK, SomethingToPublish
      <4>3. install \in Infos /\ install' \in Infos
        BY <1>1, <4>1, <4>2 DEF SetState, IInv, TypeOK, Infos
      <4>4. QED BY <1>1, <4>3 DEF Infos, States, NoJob
    <3>3. CASE \E w \in BOOLEAN : DoWork(w)
      BY <1>1, <3>3 DEF DoWork, Working
    <3>4. QED
      BY <1>1, <3>1, <3>2, <3>3
      DEF Next, vars, jobVars, Worker, Api, Wake, Sample, UseLocalLists, UpdateLists,
          NotifyRepoSynced, InstallationProgess, InstallationDone, Report,
          InstallationFails, NotifyStateChange, DeactivatePlugin, Block, Register,
          Unregister, Destruct, StopWorker
  <2>2. Terminal(install) /\ pc = "release"
    BY <1>1, <2>1 DEF ReleaseJob, WorkerAt, IInv, EndsWithOutcome
  <2>3. install # Created
    BY <2>2 DEF Terminal, Created
  <2>4. QED BY <1>1, <2>2, <2>3 DEF IInv, ObserversUpToDate
<1>2. QED BY <1>1, Invariance, PTL DEF Spec, OutcomeAnnounced

\* opkg is never torn down and initialised again by DoWork while the worker is
\* inside of it.
THEOREM OpkgIsNotReset == Spec => OpkgNotResetUnderWorker
<1>1. ASSUME IInv, [Next]_vars, ~Working, Working'
      PROVE  ~InInstall /\ ~InSetup
  BY <1>1 DEF IInv, WorkerOwnsItsJob, Working
<1>2. QED BY <1>1, Invariance, PTL DEF Spec, OpkgNotResetUnderWorker

\* What the worker relies on holds all the time, and so does what observers
\* have been told.
THEOREM WorkerIsInOrder == Spec => []WorkerInOrder
<1>1. IInv => WorkerInOrder
  BY DEF IInv, WorkerInOrder
<1>2. QED BY <1>1, Invariance, PTL

\* Every job that is accepted comes to its end before the next one begins.
THEOREM JobsComeToTheirEnd == Spec => JobsToTheirEnd
BY OutcomeIsAnnounced, OpkgIsNotReset DEF JobsToTheirEnd

-----------------------------------------------------------------------------
(* What is announced, and in which order.  That the states are announced   *)
(* one by one rests on what a callback of opkg still has to publish being  *)
(* a chain that begins where the installation stands (ChainOfStates), and  *)
(* on what an observer that waits for the next job has heard (ToldBefore). *)
(* An observer is called once because it is in the vector once.            *)

\* What one callback may still have to publish when it has come to state.
Chains(state) ==
  CASE state = "IDLE"        -> {<<"DOWNLOADING">>, <<"INSTALLING">>,
                                 <<"INSTALLING", "INSTALLED">>, <<"ERROR">>}
    [] state = "DOWNLOADING" -> {<<"DOWNLOADED", "INSTALLING">>, <<"ERROR">>,
                                 <<"DOWNLOADED", "INSTALLING", "INSTALLED">>}
    [] state = "DOWNLOADED"  -> {<<"INSTALLING">>, <<"INSTALLING", "INSTALLED">>}
    [] state = "INSTALLING"  -> {<<"DOWNLOADING">>, <<"INSTALLED">>, <<"ERROR">>}
    [] OTHER                 -> {}

ChainOfStates ==
  /\ pc \in {"check", "sample", "setup", "synced", "block", "exited"} =>
       install \in {NoJob, Created}
  /\ pc = "opkg" =>
       ~install.error /\ install.state \in {"IDLE", "DOWNLOADING", "INSTALLING"}
  /\ pc = "publish" => ~install.error /\ todo \in Chains(install.state)
  /\ pc = "notify" =>
       \/ ~install.error /\ todo \in Chains(install.state)
       \/ /\ todo = <<>>
          /\ install.error \/ install.state \in {"DOWNLOADING", "INSTALLING", "INSTALLED"}

ToldBefore ==
  \A o \in Observers :
    /\ o \notin Registered => told[o] = NoJob
    /\ install = NoJob => told[o] = NoJob \/ Terminal(told[o])
    /\ install = Created => told[o] \in {NoJob, Created} \/ Terminal(told[o])
    /\ pc = "notify" /\ o \in Registered => Follows(told[o], install)

AInv == IInv /\ ChainOfStates /\ ToldBefore

\* Appending adds exactly the new element.
LEMMA AppendedElement ==
  ASSUME NEW S, NEW s \in Seq(S), NEW e \in S
  PROVE  /\ ToSet(Append(s, e)) = ToSet(s) \cup {e}
         /\ \A i \in 1 .. Len(s) : Append(s, e)[i] = s[i]
         /\ Append(s, e)[Len(s) + 1] = e
         /\ Len(Append(s, e)) = Len(s) + 1
<1>1. /\ DOMAIN Append(s, e) = 1 .. Len(s) + 1 /\ Len(Append(s, e)) = Len(s) + 1
      /\ \A i \in 1 .. Len(s) : Append(s, e)[i] = s[i]
      /\ Append(s, e)[Len(s) + 1] = e
      /\ Len(s) \in Nat /\ DOMAIN s = 1 .. Len(s)
  BY AppendProperties
<1>2. ASSUME NEW x \in ToSet(s) PROVE x \in ToSet(Append(s, e))
  <2>1. PICK i \in DOMAIN s : x = s[i]
    BY DEF ToSet
  <2>2. i \in DOMAIN Append(s, e) /\ Append(s, e)[i] = x
    BY <1>1, <2>1
  <2>3. QED BY <2>2 DEF ToSet
<1>3. e \in ToSet(Append(s, e))
  <2>1. Len(s) + 1 \in DOMAIN Append(s, e)
    BY <1>1
  <2>2. QED BY <1>1, <2>1 DEF ToSet
<1>4. QED BY <1>1, <1>2, <1>3, AppendedSequence

\* Erasing keeps every other element, in its order.
LEMMA ErasedElement ==
  ASSUME NEW S, NEW s \in Seq(S), NEW i \in 1 .. Len(s)
  PROVE  /\ Len(RemoveAt(s, i)) = Len(s) - 1
         /\ \A j \in 1 .. Len(s) - 1 :
              RemoveAt(s, i)[j] = IF j < i THEN s[j] ELSE s[j + 1]
<1> DEFINE before == SubSeq(s, 1, i - 1)
           after  == SubSeq(s, i + 1, Len(s))
<1>1. Len(s) \in Nat /\ i \in Int /\ 1 <= i /\ i <= Len(s)
  OBVIOUS
<1>2. before \in Seq(S) /\ Len(before) = i - 1
      /\ \A j \in 1 .. i - 1 : before[j] = s[j]
  <2>1. \A j \in 1 .. i - 1 : s[j] \in S
    BY <1>1
  <2>2. QED BY <1>1, <2>1, SubSeqProperties
<1>3. after \in Seq(S) /\ Len(after) = Len(s) - i
      /\ \A j \in 1 .. Len(s) - i : after[j] = s[i + j]
  <2>1. \A j \in i + 1 .. Len(s) : s[j] \in S
    BY <1>1
  <2>2. QED BY <1>1, <2>1, SubSeqProperties
<1> HIDE DEF before, after
<1>4. /\ Len(before \o after) = Len(s) - 1
      /\ \A j \in 1 .. Len(s) - 1 :
           (before \o after)[j] = IF j < i THEN s[j] ELSE s[j + 1]
  <2>1. Len(before \o after) = Len(before) + Len(after)
        /\ \A j \in 1 .. Len(before) + Len(after) :
             (before \o after)[j] = IF j <= Len(before) THEN before[j] ELSE after[j - Len(before)]
    BY <1>2, <1>3, ConcatProperties
  <2>2. QED BY <1>1, <1>2, <1>3, <2>1
<1>5. QED BY <1>4 DEF RemoveAt, before, after

\* Erasing removes no element but that one, which may be there once more.
LEMMA ErasedOnce ==
  ASSUME NEW S, NEW s \in Seq(S), NEW i \in 1 .. Len(s)
  PROVE  ToSet(RemoveAt(s, i)) \in {ToSet(s), ToSet(s) \ {s[i]}}
<1> DEFINE r == RemoveAt(s, i)
<1>1. Len(s) \in Nat /\ DOMAIN s = 1 .. Len(s) /\ i \in Int /\ 1 <= i /\ i <= Len(s)
  OBVIOUS
<1>2. r \in Seq(S)
  BY ErasedSequence
<1>3. Len(r) = Len(s) - 1
      /\ \A j \in 1 .. Len(s) - 1 : r[j] = IF j < i THEN s[j] ELSE s[j + 1]
  BY ErasedElement
<1> HIDE DEF r
<1>4. DOMAIN r = 1 .. Len(s) - 1
  BY <1>2, <1>3
<1>5. ASSUME NEW x \in ToSet(s), x # s[i] PROVE x \in ToSet(r)
  <2>1. PICK k \in DOMAIN s : x = s[k]
    BY DEF ToSet
  <2>2. k \in 1 .. Len(s) /\ k # i
    BY <1>1, <1>5, <2>1
  <2>3. CASE k < i
    <3>1. k \in DOMAIN r /\ r[k] = x
      BY <1>1, <1>3, <1>4, <2>1, <2>2, <2>3
    <3>2. QED BY <3>1 DEF ToSet
  <2>4. CASE k > i
    <3>1. k - 1 \in DOMAIN r /\ r[k - 1] = x
      BY <1>1, <1>3, <1>4, <2>1, <2>2, <2>4
    <3>2. QED BY <3>1 DEF ToSet
  <2>5. QED BY <1>1, <2>2, <2>3, <2>4
<1>6. ToSet(r) \subseteq ToSet(s)
  BY ErasedSequence DEF r
<1>7. QED BY <1>5, <1>6 DEF r

\* Concatenating tuples gives the longer tuple.
LEMMA ConcatOfTwo ==
  ASSUME NEW a, NEW b
  PROVE  <<a>> \o <<b>> = <<a, b>>
<1> DEFINE S == {a, b}
           l == <<a>> \o <<b>>
           r == <<a, b>>
<1>1. /\ <<a>> \in Seq(S) /\ <<b>> \in Seq(S)
      /\ r \in Seq(S) /\ Len(r) = 2 /\ r[1] = a /\ r[2] = b
  OBVIOUS
<1>2. Len(l) = 2 /\ l[1] = a /\ l[2] = b /\ l \in Seq(S)
  BY <1>1, ConcatProperties
<1> HIDE DEF S, l, r
<1>3. \A i \in 1 .. 2 : i = 1 \/ i = 2
  OBVIOUS
<1>4. \A i \in 1 .. 2 : l[i] = r[i]
  BY <1>1, <1>2, <1>3
<1>5. l = r
  BY <1>1, <1>2, <1>4, SeqEqual
<1>6. QED BY <1>5 DEF l, r

\* A sequence of three is one of two, and one more.
LEMMA ConcatOfThree ==
  ASSUME NEW a, NEW b, NEW c
  PROVE  <<a, b>> \o <<c>> = <<a, b, c>>
<1> DEFINE S == {a, b, c}
           l == <<a, b>> \o <<c>>
           r == <<a, b, c>>
<1>1. /\ <<a, b>> \in Seq(S) /\ <<c>> \in Seq(S)
      /\ r \in Seq(S) /\ Len(r) = 3 /\ r[1] = a /\ r[2] = b /\ r[3] = c
  OBVIOUS
<1>2. Len(l) = 3 /\ l[1] = a /\ l[2] = b /\ l[3] = c /\ l \in Seq(S)
  BY <1>1, ConcatProperties
<1> HIDE DEF S, l, r
<1>3. \A i \in 1 .. 3 : i = 1 \/ i = 2 \/ i = 3
  OBVIOUS
<1>4. \A i \in 1 .. 3 : l[i] = r[i]
  BY <1>1, <1>2, <1>3
<1>5. l = r
  BY <1>1, <1>2, <1>4, SeqEqual
<1>6. QED BY <1>5 DEF l, r

\* A callback publishes a chain, and what is left of a chain is one.
LEMMA PublishedChain ==
  ASSUME NEW state \in {"IDLE", "DOWNLOADING", "INSTALLING"},
         NEW action \in {"OPKG_DOWNLOAD", "OPKG_INSTALL"}, NEW done \in BOOLEAN,
         action = "OPKG_DOWNLOAD" => ~done,
         install.state = state, Publishes(action, done) # <<>>
  PROVE  Publishes(action, done) \in Chains(state)
<1>1. /\ <<>> \o <<>> = <<>>
      /\ \A a : <<>> \o <<a>> = <<a>> /\ <<a>> \o <<>> = <<a>>
      /\ \A a, b : <<a, b>> \o <<>> = <<a, b>>
  OBVIOUS
<1>2. CASE action = "OPKG_DOWNLOAD"
  BY <1>1, <1>2 DEF Publishes, Chains
<1>3. CASE action = "OPKG_INSTALL" /\ ~done
  BY <1>1, <1>3, ConcatOfTwo DEF Publishes, Chains
<1>4. CASE action = "OPKG_INSTALL" /\ done
  <2>1. CASE state = "IDLE"
    BY <1>1, <1>4, <2>1, ConcatOfTwo DEF Publishes, Chains
  <2>2. CASE state = "DOWNLOADING"
    <3>1. Publishes(action, done)
            = (<<"DOWNLOADED">> \o <<"INSTALLING">>) \o <<"INSTALLED">>
      BY <1>4, <2>2 DEF Publishes
    <3>2. <<"DOWNLOADED">> \o <<"INSTALLING">> = <<"DOWNLOADED", "INSTALLING">>
      BY ConcatOfTwo
    <3>3. <<"DOWNLOADED", "INSTALLING">> \o <<"INSTALLED">>
            = <<"DOWNLOADED", "INSTALLING", "INSTALLED">>
      BY ConcatOfThree
    <3>4. Publishes(action, done) = <<"DOWNLOADED", "INSTALLING", "INSTALLED">>
      BY <3>1, <3>2, <3>3
    <3>5. QED BY <2>2, <3>4 DEF Chains
  <2>3. CASE state = "INSTALLING"
    BY <1>1, <1>4, <2>3 DEF Publishes, Chains
  <2>4. QED BY <2>1, <2>2, <2>3
<1>5. QED BY <1>2, <1>3, <1>4

\* What is left of a chain of states is a chain.
LEMMA RestOfChain ==
  ASSUME NEW state \in States, NEW s \in Chains(state)
  PROVE  \/ Head(s) = "ERROR" /\ Tail(s) = <<>> /\ state # "INSTALLED"
         \/ /\ Head(s) \in States \ {"IDLE", state}
            /\ state # "INSTALLED"
            /\ \/ Tail(s) \in Chains(Head(s))
               \/ Tail(s) = <<>> /\ Head(s) \in {"DOWNLOADING", "INSTALLING", "INSTALLED"}
            /\ <<state, Head(s)>> \in
                 {<<"IDLE", "DOWNLOADING">>, <<"IDLE", "INSTALLING">>,
                  <<"DOWNLOADING", "DOWNLOADED">>, <<"DOWNLOADED", "INSTALLING">>,
                  <<"INSTALLING", "DOWNLOADING">>, <<"INSTALLING", "INSTALLED">>}
<1>1. /\ Head(<<"ERROR">>) = "ERROR" /\ Tail(<<"ERROR">>) = <<>>
      /\ Head(<<"DOWNLOADING">>) = "DOWNLOADING" /\ Tail(<<"DOWNLOADING">>) = <<>>
      /\ Head(<<"INSTALLING">>) = "INSTALLING" /\ Tail(<<"INSTALLING">>) = <<>>
      /\ Head(<<"INSTALLED">>) = "INSTALLED" /\ Tail(<<"INSTALLED">>) = <<>>
  OBVIOUS
<1>2. /\ Head(<<"INSTALLING", "INSTALLED">>) = "INSTALLING"
      /\ Tail(<<"INSTALLING", "INSTALLED">>) = <<"INSTALLED">>
      /\ Head(<<"DOWNLOADED", "INSTALLING">>) = "DOWNLOADED"
      /\ Tail(<<"DOWNLOADED", "INSTALLING">>) = <<"INSTALLING">>
  OBVIOUS
<1>3. /\ Head(<<"DOWNLOADED", "INSTALLING", "INSTALLED">>) = "DOWNLOADED"
      /\ Tail(<<"DOWNLOADED", "INSTALLING", "INSTALLED">>) = <<"INSTALLING", "INSTALLED">>
  OBVIOUS
<1>4. CASE state = "IDLE"
  BY <1>1, <1>2, <1>4 DEF Chains, States
<1>5. CASE state = "DOWNLOADING"
  BY <1>1, <1>2, <1>3, <1>5 DEF Chains, States
<1>6. CASE state = "DOWNLOADED"
  BY <1>1, <1>2, <1>6 DEF Chains, States
<1>7. CASE state = "INSTALLING"
  BY <1>1, <1>7 DEF Chains, States
<1>8. QED BY <1>4, <1>5, <1>6, <1>7 DEF Chains, States

\* SetState moves the installation on, by one state or to an error.
LEMMA SettingAState ==
  ASSUME AInv, SetState
  PROVE  /\ ~Terminal(install) /\ install \in Infos
         /\ install' \in Infos \ {Created} /\ install' # install
         /\ Follows(install, install')
         /\ ChainOfStates'
<1>1. /\ pc = "publish" /\ pc' = "notify" /\ todo' = Tail(todo)
      /\ install \in Infos /\ ~install.error /\ todo \in Chains(install.state)
  <2>1. install # NoJob /\ install \in Infos \cup {NoJob}
    BY DEF AInv, IInv, TypeOK, WorkerOwnsItsJob, InInstall, SetState, WorkerAt
  <2>2. QED BY <2>1 DEF AInv, ChainOfStates, SetState, WorkerAt, WorkerGoes
<1>2. install.state \in States
  BY <1>1 DEF Infos
<1>3. \/ Head(todo) = "ERROR" /\ Tail(todo) = <<>> /\ install.state # "INSTALLED"
      \/ /\ Head(todo) \in States \ {"IDLE", install.state}
         /\ install.state # "INSTALLED"
         /\ \/ Tail(todo) \in Chains(Head(todo))
            \/ /\ Tail(todo) = <<>>
               /\ Head(todo) \in {"DOWNLOADING", "INSTALLING", "INSTALLED"}
         /\ <<install.state, Head(todo)>> \in
              {<<"IDLE", "DOWNLOADING">>, <<"IDLE", "INSTALLING">>,
               <<"DOWNLOADING", "DOWNLOADED">>, <<"DOWNLOADED", "INSTALLING">>,
               <<"INSTALLING", "DOWNLOADING">>, <<"INSTALLING", "INSTALLED">>}
  BY <1>1, <1>2, RestOfChain
<1>4. CASE Head(todo) = "ERROR"
  <2>1. install' = [install EXCEPT !.error = TRUE]
    BY <1>4 DEF SetState
  <2>2. install' \in Infos /\ install'.error /\ install'.state = install.state
    BY <1>1, <2>1 DEF Infos
  <2>3. Tail(todo) = <<>> /\ install.state # "INSTALLED"
    BY <1>3, <1>4 DEF States
  <2>4. QED
    BY <1>1, <1>2, <2>1, <2>2, <2>3
    DEF Terminal, Follows, ChainOfStates, Created
<1>5. CASE Head(todo) # "ERROR"
  <2>1. install' = [install EXCEPT !.state = Head(todo)]
    BY <1>5 DEF SetState
  <2>2. /\ install' \in Infos /\ ~install'.error /\ install'.state = Head(todo)
        /\ install'.state \notin {"IDLE", install.state}
    BY <1>1, <1>2, <1>3, <1>5, <2>1 DEF Infos
  <2>3. ~Terminal(install) /\ Follows(install, install')
    BY <1>1, <1>3, <1>5, <2>2 DEF Terminal, Follows
  <2>4. ChainOfStates'
    BY <1>1, <1>3, <1>5, <2>2 DEF ChainOfStates
  <2>5. QED BY <1>1, <2>2, <2>3, <2>4 DEF Created
<1>6. QED BY <1>4, <1>5

\* The installation only changes when a job is accepted, when the worker sets
\* a state and when it gives the job up.
LEMMA InstallChanges ==
  ASSUME [Next]_vars, ~SetState, ~ReleaseJob, \A w \in BOOLEAN : ~DoWork(w)
  PROVE  install' = install
BY DEF Next, vars, jobVars, Worker, Api, Wake, Sample, UseLocalLists, UpdateLists,
       NotifyRepoSynced, InstallationProgess, InstallationDone, Report,
       InstallationFails, NotifyStateChange, DeactivatePlugin, Block, Register,
       Unregister, Destruct, StopWorker

\* The observers and what they have heard only change when one of them comes
\* or goes and when the worker announces.
LEMMA ObserversChange ==
  ASSUME [Next]_vars, ~NotifyStateChange,
         \A o \in Observers : ~Register(o),
         \A i \in DOMAIN notifications : ~Unregister(i)
  PROVE  UNCHANGED <<notifications, told>>
BY DEF Next, vars, clientVars, Worker, Api, Wake, Sample, UseLocalLists, UpdateLists,
       NotifyRepoSynced, InstallationProgess, InstallationDone, Report,
       InstallationFails, SetState, DeactivatePlugin, ReleaseJob, Block, DoWork,
       Destruct, StopWorker

\* The states still to be published stay a chain from the present one.
LEMMA ChainStep ==
  ASSUME AInv, [Next]_vars
  PROVE  ChainOfStates'
<1> USE DEF AInv, IInv, TypeOK, WorkerAt, WorkerGoes, ChainOfStates, jobVars, clientVars,
            workVars, Stages
<1>1. CASE Wake
  BY <1>1 DEF Wake
<1>2. CASE Sample
  BY <1>2 DEF Sample
<1>3. CASE UseLocalLists
  <2>1. install # NoJob
    BY <1>3 DEF UseLocalLists, WorkerOwnsItsJob, InSetup
  <2>2. QED BY <1>3, <2>1 DEF UseLocalLists, Created
<1>4. CASE UpdateLists
  BY <1>4 DEF UpdateLists
<1>5. CASE NotifyRepoSynced
  <2>1. isInstall => install # NoJob
    BY <1>5 DEF NotifyRepoSynced, WorkerOwnsItsJob, InSetup
  <2>2. QED BY <1>5, <2>1 DEF NotifyRepoSynced, Created
<1>6. ASSUME NEW action \in {"OPKG_DOWNLOAD", "OPKG_INSTALL"}, NEW done \in BOOLEAN,
             action = "OPKG_DOWNLOAD" => ~done, Report(action, done)
      PROVE  ChainOfStates'
  <2>1. Publishes(action, done) # <<>> => Publishes(action, done) \in Chains(install.state)
    BY <1>6, PublishedChain DEF Report
  <2>2. QED BY <1>6, <2>1 DEF Report
<1>7. CASE InstallationFails
  <2>1. <<"ERROR">> \in Chains(install.state)
    BY <1>7 DEF InstallationFails, Chains
  <2>2. QED BY <1>7, <2>1 DEF InstallationFails
<1>8. CASE SetState
  BY <1>8, SettingAState
<1>9. CASE NotifyStateChange
  <2>1. todo = <<>> => todo \notin Chains(install.state)
    BY DEF Chains
  <2>2. install \in Infos
    BY <1>9 DEF NotifyStateChange, WorkerOwnsItsJob, InInstall
  <2>3. install.error \in BOOLEAN
    BY <2>2 DEF Infos
  <2>4. QED BY <1>9, <2>1, <2>3 DEF NotifyStateChange
<1>10. CASE DeactivatePlugin
  BY <1>10 DEF DeactivatePlugin
<1>11. CASE ReleaseJob
  BY <1>11 DEF ReleaseJob
<1>12. CASE Block
  BY <1>12 DEF Block
<1>13. ASSUME NEW w \in BOOLEAN, DoWork(w) PROVE ChainOfStates'
  <2>1. pc' = pc /\ todo' = todo
    BY <1>13 DEF DoWork
  <2>2. CASE install' = install
    BY <2>1, <2>2
  <2>3. CASE install' # install
    <3>1. install = NoJob /\ install' = Created
      BY <1>13, <2>3 DEF DoWork, Working
    <3>2. pc \notin {"opkg", "publish", "notify"}
      BY <3>1 DEF WorkerOwnsItsJob, InInstall
    <3>3. QED BY <2>1, <3>1, <3>2
  <2>4. QED BY <2>2, <2>3
<1>14. CASE UNCHANGED <<install, pc, todo>>
  BY <1>14
<1>15. (\E o \in Observers : Register(o)) \/ (\E i \in DOMAIN notifications : Unregister(i))
         \/ Destruct \/ StopWorker \/ UNCHANGED vars => UNCHANGED <<install, pc, todo>>
  BY DEF Register, Unregister, Destruct, StopWorker, vars
<1>16. QED
  BY <1>1, <1>2, <1>3, <1>4, <1>5, <1>6, <1>7, <1>8, <1>9, <1>10, <1>11, <1>12,
     <1>13, <1>14, <1>15
  DEF Next, Worker, Api, InstallationProgess, InstallationDone

\* Before the first state of an installation, an observer has heard of none, of
\* the job itself, or of an outcome.
LEMMA HeardBefore ==
  ASSUME AInv, NEW o \in Registered, install # NoJob, ~Terminal(install),
         pc # "notify"
  PROVE  \/ told[o] \in {install, NoJob}
         \/ Terminal(told[o]) /\ install = Created
<1>1. o \in Observers
  <2>1. Registered \subseteq Observers
    BY ElementsOfSequence DEF AInv, IInv, TypeOK, Registered
  <2>2. QED BY <2>1
<1>2. CASE install = Created
  BY <1>1, <1>2 DEF AInv, ToldBefore
<1>3. CASE install # Created
  BY <1>3 DEF AInv, IInv, ObserversUpToDate
<1>4. QED BY <1>2, <1>3

\* What is set may be announced to everyone who is registered.
LEMMA MayBeAnnounced ==
  ASSUME AInv, SetState, NEW o \in Registered
  PROVE  Follows(told[o], install')
<1>1. /\ ~Terminal(install) /\ install \in Infos /\ install' \in Infos \ {Created}
      /\ Follows(install, install') /\ install' # install
  BY SettingAState
<1>2. pc = "publish"
  BY DEF SetState, WorkerAt
<1>3. install # NoJob
  BY <1>2 DEF AInv, IInv, WorkerOwnsItsJob, InInstall
<1>4. CASE told[o] = install \/ told[o] = NoJob
  BY <1>1, <1>4 DEF Follows
<1>5. CASE Terminal(told[o]) /\ install = Created
  <2>1. ~Terminal(install') \/ install' = [Created EXCEPT !.error = TRUE]
    <3>1. CASE Head(todo) = "ERROR"
      BY <1>5, <3>1 DEF SetState
    <3>2. CASE Head(todo) # "ERROR"
      <4>1. install' = [install EXCEPT !.state = Head(todo)]
        BY <3>2 DEF SetState
      <4>2. todo \in Chains("IDLE")
        BY <1>2, <1>5 DEF AInv, ChainOfStates, Created
      <4>3. Head(todo) # "INSTALLED"
        BY <4>2, RestOfChain DEF States
      <4>4. QED BY <1>5, <4>1, <4>3 DEF Terminal, Created
    <3>3. QED BY <3>1, <3>2
  <2>2. QED BY <1>5, <2>1 DEF Follows
<1>6. QED BY <1>1, <1>2, <1>3, <1>4, <1>5, HeardBefore

\* What an observer was told last is the state, or the one before it.
LEMMA ToldStep ==
  ASSUME AInv, [Next]_vars
  PROVE  ToldBefore'
<1> SUFFICES ASSUME NEW o \in Observers
             PROVE  (/\ o \notin Registered => told[o] = NoJob
                     /\ install = NoJob => told[o] = NoJob \/ Terminal(told[o])
                     /\ install = Created =>
                          told[o] \in {NoJob, Created} \/ Terminal(told[o])
                     /\ pc = "notify" /\ o \in Registered => Follows(told[o], install))'
  BY DEF ToldBefore
<1>t. /\ notifications \in Seq(Observers) /\ Registered \subseteq Observers
      /\ told \in [Observers -> Infos \cup {NoJob}]
  BY ElementsOfSequence DEF AInv, IInv, TypeOK, Registered
<1>b. /\ o \notin Registered => told[o] = NoJob
      /\ install = NoJob => told[o] = NoJob \/ Terminal(told[o])
      /\ install = Created => told[o] \in {NoJob, Created} \/ Terminal(told[o])
      /\ pc = "notify" /\ o \in Registered => Follows(told[o], install)
  BY DEF AInv, ToldBefore
<1>1. CASE SetState
  <2>1. UNCHANGED <<told, notifications>> /\ Registered' = Registered
    BY <1>1 DEF SetState, clientVars, Registered
  <2>2. install' \notin {NoJob, Created}
    BY <1>1, SettingAState DEF Infos, NoJob, States
  <2>3. o \in Registered => Follows(told[o], install')
    BY <1>1, MayBeAnnounced
  <2>4. QED BY <1>b, <2>1, <2>2, <2>3
<1>2. CASE ReleaseJob
  <2>1. pc = "release" /\ pc' = "block" /\ install' = NoJob /\ told' = told
        /\ Registered' = Registered
    BY <1>2 DEF ReleaseJob, WorkerAt, WorkerGoes, clientVars, Registered
  <2>2. Terminal(install) /\ install # Created /\ install # NoJob
    BY <2>1 DEF AInv, IInv, EndsWithOutcome, Terminal, Created, WorkerOwnsItsJob, InInstall
  <2>3. o \in Registered => told[o] = install
    BY <2>1, <2>2 DEF AInv, IInv, ObserversUpToDate
  <2>4. NoJob # Created
    BY DEF NoJob, Created
  <2>5. QED BY <1>b, <2>1, <2>2, <2>3, <2>4
<1>3. ASSUME NEW w \in BOOLEAN, DoWork(w)
      PROVE  (/\ o \notin Registered => told[o] = NoJob
              /\ install = NoJob => told[o] = NoJob \/ Terminal(told[o])
              /\ install = Created =>
                   told[o] \in {NoJob, Created} \/ Terminal(told[o])
              /\ pc = "notify" /\ o \in Registered => Follows(told[o], install))'
  <2>1. /\ install = NoJob /\ pc' = pc /\ told' = told /\ Registered' = Registered
        /\ install' = install \/ install' = Created
    BY <1>3 DEF DoWork, Working, clientVars, Registered
  <2>2. pc # "notify"
    BY <2>1 DEF AInv, IInv, WorkerOwnsItsJob, InInstall
  <2>3. NoJob # Created
    BY DEF NoJob, Created
  <2>4. QED BY <1>b, <2>1, <2>2, <2>3
<1>4. CASE NotifyStateChange
  <2>1. /\ told' = [p \in Observers |-> IF p \in Registered THEN install ELSE told[p]]
        /\ pc' # "notify" /\ install' = install /\ Registered' = Registered
    BY <1>4 DEF NotifyStateChange, WorkerGoes, jobVars, Registered
  <2>2. install # NoJob /\ install \in Infos
    BY <1>4 DEF AInv, IInv, TypeOK, WorkerOwnsItsJob, InInstall, NotifyStateChange, WorkerAt
  <2>3. QED BY <1>b, <2>1, <2>2
<1>5. ASSUME NEW p \in Observers, Register(p)
      PROVE  (/\ o \notin Registered => told[o] = NoJob
              /\ install = NoJob => told[o] = NoJob \/ Terminal(told[o])
              /\ install = Created =>
                   told[o] \in {NoJob, Created} \/ Terminal(told[o])
              /\ pc = "notify" /\ o \in Registered => Follows(told[o], install))'
  <2>1. /\ told' = [told EXCEPT ![p] = IF install = NoJob THEN @ ELSE install]
        /\ install' = install /\ pc' = pc
    BY <1>5 DEF Register, jobVars, workVars
  <2>2. Registered' = Registered \cup {p}
    BY <1>5, <1>t, AppendedElement DEF Register, Registered
  <2>3. Follows(install, install) /\ (pc = "notify" => install # NoJob)
    BY DEF Follows, AInv, IInv, WorkerOwnsItsJob, InInstall
  <2>4. QED BY <1>b, <1>t, <2>1, <2>2, <2>3
<1>6. ASSUME NEW i \in DOMAIN notifications, Unregister(i)
      PROVE  (/\ o \notin Registered => told[o] = NoJob
              /\ install = NoJob => told[o] = NoJob \/ Terminal(told[o])
              /\ install = Created =>
                   told[o] \in {NoJob, Created} \/ Terminal(told[o])
              /\ pc = "notify" /\ o \in Registered => Follows(told[o], install))'
  <2>1. /\ told' = [p \in Observers |-> IF p \in Registered' THEN told[p] ELSE NoJob]
        /\ install' = install /\ pc' = pc
    BY <1>6 DEF Unregister, jobVars, workVars
  <2>2. Registered' \subseteq Registered
    BY <1>6, <1>t, ErasedSequence DEF Unregister, Registered
  <2>3. QED BY <1>b, <2>1, <2>2
<1>7. CASE UNCHANGED <<install, notifications, told>> /\ pc' # "notify"
  <2>1. Registered' = Registered
    BY <1>7 DEF Registered
  <2>2. QED BY <1>b, <1>7, <2>1
<1>8. CASE UNCHANGED vars
  <2>1. UNCHANGED <<install, told, pc, Registered>>
    BY <1>8 DEF vars, jobVars, clientVars, workVars, Registered
  <2>2. QED BY <1>b, <2>1
<1>9. CASE Destruct \/ StopWorker
  <2>1. UNCHANGED <<install, told, pc, Registered>>
    BY <1>9 DEF Destruct, StopWorker, jobVars, clientVars, workVars, Registered
  <2>2. QED BY <1>b, <2>1
<1>10. Worker => \/ SetState \/ ReleaseJob \/ NotifyStateChange
                 \/ UNCHANGED <<install, notifications, told>> /\ pc' # "notify"
  <2>1. ASSUME Wake \/ Sample \/ UseLocalLists \/ UpdateLists \/ NotifyRepoSynced
        PROVE  UNCHANGED <<install, notifications, told>> /\ pc' # "notify"
    BY <2>1 DEF Wake, Sample, UseLocalLists, UpdateLists, NotifyRepoSynced,
                WorkerGoes, jobVars, clientVars
  <2>2. ASSUME InstallationProgess \/ InstallationDone \/ InstallationFails
        PROVE  UNCHANGED <<install, notifications, told>> /\ pc' # "notify"
    BY <2>2 DEF InstallationProgess, InstallationDone, Report, InstallationFails,
                WorkerGoes, jobVars, clientVars
  <2>3. ASSUME DeactivatePlugin \/ Block
        PROVE  UNCHANGED <<install, notifications, told>> /\ pc' # "notify"
    BY <2>3 DEF DeactivatePlugin, Block, WorkerGoes, jobVars, clientVars
  <2>4. QED BY <2>1, <2>2, <2>3 DEF Worker
<1>11. QED
  BY <1>1, <1>2, <1>3, <1>4, <1>5, <1>6, <1>7, <1>8, <1>9, <1>10 DEF Next, Api

\* Nobody is registered, and nothing is left to tell.
LEMMA InitAnnouncements == Init => AInv
<1> SUFFICES ASSUME Init PROVE AInv
  OBVIOUS
<1>1. ChainOfStates /\ ToldBefore
  BY DEF Init, ChainOfStates, ToldBefore, Registered, NoJob, Created
<1>2. QED BY <1>1, InitInvariant DEF AInv

\* What is left to tell follows what was told, in every state.
LEMMA AnnouncementsInvariance == Spec => []AInv
<1>1. AInv /\ [Next]_vars => AInv'
  BY NextInvariant, ChainStep, ToldStep DEF AInv
<1>2. QED BY <1>1, InitAnnouncements, PTL DEF Spec

\* What an observer is told follows from what it was told before.
THEOREM StatesAreAnnouncedInOrder == Spec => AnnouncedInOrder
<1>1. ASSUME AInv, [Next]_vars, NEW o \in Observers
      PROVE  Follows(told[o], told'[o])
  <2>1. told \in [Observers -> Infos \cup {NoJob}] /\ notifications \in Seq(Observers)
    BY <1>1 DEF AInv, IInv, TypeOK
  <2>2. CASE told'[o] = told[o] \/ told[o] = NoJob \/ told'[o] = NoJob
    BY <2>2 DEF Follows
  <2>3. CASE NotifyStateChange
    <3>1. told'[o] = IF o \in Registered THEN install ELSE told[o]
      BY <2>3 DEF NotifyStateChange
    <3>2. o \in Registered => Follows(told[o], install)
      BY <1>1, <2>3 DEF AInv, ToldBefore, NotifyStateChange, WorkerAt
    <3>3. QED BY <2>2, <3>1, <3>2
  <2>4. ASSUME NEW p \in Observers, Register(p)
        PROVE  Follows(told[o], told'[o])
    <3>1. told'[o] \in {told[o], install}
      BY <2>1, <2>4 DEF Register
    <3>2. CASE o \in Registered /\ install # NoJob
      <4>1. Follows(told[o], install)
        <5>1. CASE pc = "notify"
          BY <1>1, <3>2, <5>1 DEF AInv, ToldBefore
        <5>2. CASE install = Created
          <6>1. told[o] \in {NoJob, Created} \/ Terminal(told[o])
            BY <1>1, <5>2 DEF AInv, ToldBefore
          <6>2. ~Terminal(Created)
            BY DEF Terminal, Created
          <6>3. QED BY <5>2, <6>1, <6>2 DEF Follows
        <5>3. CASE pc # "notify" /\ install # Created
          BY <1>1, <3>2, <5>3 DEF AInv, IInv, ObserversUpToDate, Follows
        <5>4. QED BY <5>1, <5>2, <5>3
      <4>2. QED BY <2>2, <3>1, <4>1
    <3>3. CASE o \notin Registered \/ install = NoJob
      BY <1>1, <2>2, <3>1, <3>3 DEF AInv, ToldBefore, Follows
    <3>4. QED BY <3>2, <3>3
  <2>5. ASSUME NEW i \in DOMAIN notifications, Unregister(i)
        PROVE  told'[o] = told[o] \/ told'[o] = NoJob
    BY <2>5 DEF Unregister
  <2>6. QED BY <1>1, <2>2, <2>3, <2>4, <2>5, ObserversChange
<1>2. AInv /\ [Next]_vars => \A o \in Observers : Follows(told[o], told'[o])
  BY <1>1
<1>3. QED BY <1>2, AnnouncementsInvariance, PTL DEF Spec, AnnouncedInOrder

-----------------------------------------------------------------------------
(* The worker, its lock and opkg implement the contract of PackagerJobs.   *)

\* The abstract jobs start idle, as the worker does.
LEMMA InitImplements == Init => Jobs!Init
BY DEF Init, Jobs!Init, Registered, ToSet

\* A step of the plugin is a step of the jobs, or none.
LEMMA StepImplements ==
  ASSUME AInv, [Next]_vars
  PROVE  [Jobs!Next]_(Jobs!vars)
<1>t. /\ notifications \in Seq(Observers) /\ Registered \subseteq Observers
      /\ told \in [Observers -> Infos \cup {NoJob}]
      /\ install \in Infos \cup {NoJob} /\ isSyncing \in BOOLEAN
  BY ElementsOfSequence DEF AInv, IInv, TypeOK, Registered
<1>s. UNCHANGED <<install, isSyncing, notifications, told>> => UNCHANGED Jobs!vars
  BY DEF Jobs!vars, Registered
<1>1. ASSUME NEW w \in BOOLEAN, DoWork(w) PROVE [Jobs!Next]_(Jobs!vars)
  <2>1. install = NoJob /\ ~isSyncing /\ UNCHANGED <<notifications, told>>
    BY <1>1, <1>t DEF DoWork, Working, clientVars
  <2>2. CASE UNCHANGED <<install, isSyncing>>
    BY <1>s, <2>1, <2>2
  <2>3. CASE install' = Created /\ isSyncing' = isSyncing
    <3>1. Created # NoJob
      BY DEF Created, NoJob
    <3>2. Jobs!Accept("install")
      BY <2>1, <2>3, <3>1 DEF Jobs!Accept, Registered
    <3>3. QED BY <3>2 DEF Jobs!Next
  <2>4. CASE install' = install /\ isSyncing' = TRUE
    <3>1. Jobs!Accept("sync")
      BY <2>1, <2>4 DEF Jobs!Accept, Registered
    <3>2. QED BY <3>1 DEF Jobs!Next
  <2>5. QED BY <1>1, <2>2, <2>3, <2>4 DEF DoWork
<1>2. ASSUME NEW o \in Observers, Register(o) PROVE [Jobs!Next]_(Jobs!vars)
  <2>1. /\ Registered' = Registered \cup {o}
        /\ told' = [told EXCEPT ![o] = IF install = NoJob THEN @ ELSE install]
        /\ UNCHANGED <<install, isSyncing>>
    BY <1>2, <1>t, AppendedElement DEF Register, Registered, jobVars
  <2>2. Jobs!Join(o)
    BY <2>1 DEF Jobs!Join
  <2>3. QED BY <2>2 DEF Jobs!Next
<1>3. ASSUME NEW i \in DOMAIN notifications, Unregister(i)
      PROVE  [Jobs!Next]_(Jobs!vars)
  <2> DEFINE o == notifications[i]
  <2>1. o \in Registered /\ i \in 1 .. Len(notifications)
    BY <1>t DEF Registered, ToSet
  <2>2. Registered' \in {Registered, Registered \ {o}}
    BY <1>3, <1>t, <2>1, ErasedOnce DEF Unregister, Registered
  <2>3. /\ told' = [p \in Observers |-> IF p \in Registered' THEN told[p] ELSE NoJob]
        /\ UNCHANGED <<install, isSyncing>> /\ o \in Observers
        /\ \A p \in Observers : p \notin Registered => told[p] = NoJob
    BY <1>3, <1>t, <2>1 DEF Unregister, jobVars, AInv, ToldBefore
  <2>4. CASE Registered' = Registered
    <3>1. told' = told
      BY <1>t, <2>3, <2>4
    <3>2. QED BY <2>3, <2>4, <3>1 DEF Jobs!vars
  <2>5. CASE Registered' = Registered \ {o}
    <3>1. told' = [told EXCEPT ![o] = NoJob]
      BY <1>t, <2>3, <2>5
    <3>2. Jobs!Leave(o)
      BY <2>1, <2>3, <2>5, <3>1 DEF Jobs!Leave
    <3>3. QED BY <2>3, <3>2 DEF Jobs!Next
  <2>6. QED BY <2>2, <2>4, <2>5
<1>4. CASE NotifyRepoSynced
  <2>1. /\ pc = "synced" /\ isSyncing' = FALSE
        /\ UNCHANGED <<install, notifications, told>>
    BY <1>4 DEF NotifyRepoSynced, WorkerAt, clientVars
  <2>2. CASE isSyncing
    <3>1. install = NoJob
      BY <2>2 DEF AInv, IInv, OneOperationAtATime
    <3>2. Jobs!EndSync
      BY <2>1, <2>2, <3>1 DEF Jobs!EndSync, Registered
    <3>3. QED BY <3>2 DEF Jobs!Next
  <2>3. CASE ~isSyncing
    BY <1>s, <1>t, <2>1, <2>3
  <2>4. QED BY <2>2, <2>3
<1>5. CASE SetState
  <2>1. /\ ~Terminal(install) /\ install \in Infos /\ install' \in Infos
        /\ install' # install /\ Follows(install, install')
        /\ UNCHANGED <<isSyncing, notifications, told>>
    BY <1>5, SettingAState DEF SetState, clientVars
  <2>2. install # NoJob /\ install' # NoJob
    BY <2>1 DEF Infos, NoJob, States
  <2>3. <<install, install'>> \in InstallSteps
    BY <2>1 DEF InstallSteps
  <2>4. Jobs!Advance
    BY <2>1, <2>2, <2>3 DEF Jobs!Advance, Registered
  <2>5. QED BY <2>4 DEF Jobs!Next
<1>6. CASE NotifyStateChange
  <2>1. install # NoJob
    BY <1>6 DEF AInv, IInv, WorkerOwnsItsJob, InInstall, NotifyStateChange, WorkerAt
  <2>2. Jobs!Announce
    BY <1>6, <2>1 DEF NotifyStateChange, Jobs!Announce, jobVars, Registered
  <2>3. QED BY <2>2 DEF Jobs!Next
<1>7. CASE ReleaseJob
  <2>1. /\ pc = "release" /\ install' = NoJob
        /\ UNCHANGED <<isSyncing, notifications, told>>
    BY <1>7 DEF ReleaseJob, WorkerAt, clientVars
  <2>2. install # NoJob /\ Terminal(install) /\ install # Created
    BY <2>1 DEF AInv, IInv, EndsWithOutcome, WorkerOwnsItsJob, InInstall, Terminal, Created
  <2>3. \A o \in Registered : told[o] = install
    BY <2>1, <2>2 DEF AInv, IInv, ObserversUpToDate
  <2>4. ~isSyncing
    BY <2>2 DEF AInv, IInv, OneOperationAtATime
  <2>5. Jobs!EndInstall
    BY <2>1, <2>2, <2>3, <2>4 DEF Jobs!EndInstall, Registered
  <2>6. QED BY <2>5 DEF Jobs!Next
<1>8. ASSUME Wake \/ Sample \/ UseLocalLists \/ UpdateLists \/ InstallationProgess
             \/ InstallationDone \/ InstallationFails \/ DeactivatePlugin \/ Block
      PROVE  [Jobs!Next]_(Jobs!vars)
  BY <1>8, <1>s
  DEF Wake, Sample, UseLocalLists, UpdateLists, InstallationProgess, InstallationDone,
      Report, InstallationFails, DeactivatePlugin, Block, jobVars, clientVars
<1>9. ASSUME Destruct \/ StopWorker \/ UNCHANGED vars
      PROVE  [Jobs!Next]_(Jobs!vars)
  BY <1>9, <1>s DEF Destruct, StopWorker, vars, jobVars, clientVars
<1>10. QED
  BY <1>1, <1>2, <1>3, <1>4, <1>5, <1>6, <1>7, <1>8, <1>9 DEF Next, Worker, Api

\* What a client sees of the worker, its lock and opkg is one job at a time,
\* moving through its states, over when everyone has heard how it ended.
THEOREM PackagerImplementsJobs == Spec => ImplementsJobs
<1>1. AInv /\ [Next]_vars => [Jobs!Next]_(Jobs!vars)
  BY StepImplements
<1>2. QED
  BY <1>1, InitImplements, AnnouncementsInvariance, PTL DEF Spec, ImplementsJobs, Jobs!Spec

-----------------------------------------------------------------------------
(* The references.  Their sum is a fold that takes the observers in the    *)
(* order of CHOOSE: first induction over the size of a set.                *)
LEMMA LeastNatural ==
  ASSUME NEW Some, Some \subseteq Nat, Some # {}
  PROVE  \E m \in Some : \A n \in Some : m <= n
<1> DEFINE Below == OpToRel(<, Nat)
<1>1. IsWellFoundedOn(Below, Nat)
  BY NatLessThanWellFounded
<1>2. PICK m \in Some : \A n \in Some : ~(<<n, m>> \in Below)
  <2> HIDE DEF Below
  <2>1. QED BY <1>1, WFMin
<1>3. \A n \in Some : <<n, m>> \in Below <=> n < m
  BY DEF OpToRel
<1> HIDE DEF Below
<1>4. ASSUME NEW n \in Some PROVE m <= n
  <2>1. ~(n < m) /\ m \in Nat /\ n \in Nat
    BY <1>2, <1>3
  <2>2. QED BY <2>1
<1>5. QED BY <1>4

\* What holds of a size if it holds of the size before, holds of all sizes.
LEMMA CountingUp ==
  ASSUME NEW Reached, 0 \in Reached, \A k \in Nat : k \in Reached => k + 1 \in Reached
  PROVE  Nat \subseteq Reached
<1> DEFINE Bad == Nat \ Reached
<1>1. SUFFICES ASSUME Bad # {} PROVE FALSE
  OBVIOUS
<1>2. Bad \subseteq Nat
  OBVIOUS
<1>3. PICK k \in Bad : \A l \in Bad : k <= l
  <2> HIDE DEF Bad
  <2>1. QED BY <1>1, <1>2, LeastNatural
<1>4. k \in Nat /\ k \notin Reached /\ k # 0
  BY <1>3
<1>5. k - 1 \in Nat /\ ~(k <= k - 1) /\ (k - 1) + 1 = k
  BY <1>4
<1>6. k - 1 \notin Bad
  <2> HIDE DEF Bad
  <2>1. QED BY <1>3, <1>5
<1>7. k - 1 \in Reached
  BY <1>5, <1>6
<1>8. QED BY <1>4, <1>5, <1>7

\* The element that a fold takes next.
NextOf(s) == CHOOSE x \in s : TRUE

LEMMA SmallerSet ==
  ASSUME NEW S, IsFiniteSet(S), NEW s \in SUBSET S, s # {}
  PROVE  /\ NextOf(s) \in s /\ s \ {NextOf(s)} \in SUBSET S /\ IsFiniteSet(s)
         /\ Cardinality(s) \in Nat \ {0}
         /\ Cardinality(s \ {NextOf(s)}) = Cardinality(s) - 1
<1>1. NextOf(s) \in s
  BY DEF NextOf
<1>2. IsFiniteSet(s)
  BY FS_Subset
<1>3. Cardinality(s) \in Nat /\ Cardinality(s) # 0
  BY <1>2, FS_EmptySet, FS_CardinalityType
<1>4. Cardinality(s \ {NextOf(s)}) = Cardinality(s) - 1
  BY <1>1, <1>2, FS_RemoveElement
<1>5. QED BY <1>1, <1>2, <1>3, <1>4

\* The fold exists: there is a sum for each set of observers.
Sums(f, h, S) ==
  h = [s \in SUBSET S |-> IF s = {} THEN 0 ELSE f[NextOf(s)] + h[s \ {NextOf(s)}]]

LEMMA SumsExist ==
  ASSUME NEW S, IsFiniteSet(S), NEW f
  PROVE  \E h : Sums(f, h, S)
<1> DEFINE Small(k) == {s \in SUBSET S : Cardinality(s) <= k}
           Upto(h, k) == h = [s \in Small(k) |-> IF s = {} THEN 0 ELSE f[NextOf(s)] + h[s \ {NextOf(s)}]]
           Reached == {k \in Nat : \E h : Upto(h, k)}
<1>1. \A s \in SUBSET S : IsFiniteSet(s) /\ Cardinality(s) \in Nat /\ (Cardinality(s) = 0 <=> s = {})
  BY FS_Subset, FS_EmptySet, FS_CardinalityType
<1>2. 0 \in Reached
  <2> DEFINE h == [s \in Small(0) |-> 0]
  <2>1. \A s \in Small(0) : s = {}
    BY <1>1
  <2>2. Upto(h, 0)
    BY <2>1
  <2> HIDE DEF h, Upto
  <2>3. QED BY <2>2
<1>3. ASSUME NEW k \in Nat, k \in Reached PROVE k + 1 \in Reached
  <2>1. PICK h : Upto(h, k)
    BY <1>3
  <2> DEFINE i == [s \in Small(k + 1) |-> IF s \in Small(k) THEN h[s] ELSE f[NextOf(s)] + h[s \ {NextOf(s)}]]
             j == [s \in Small(k + 1) |-> IF s = {} THEN 0 ELSE f[NextOf(s)] + i[s \ {NextOf(s)}]]
  <2>2. ASSUME NEW s \in Small(k + 1) PROVE i[s] = j[s]
    <3>1. CASE s = {}
      <4>1. s \in Small(k)
        BY <1>1, <3>1
      <4>2. i[s] = h[s] /\ h[s] = 0
        BY <2>1, <3>1, <4>1
      <4>3. QED BY <3>1, <4>2
    <3>2. CASE s # {}
      <4> DEFINE t == s \ {NextOf(s)}
      <4>1. t \in SUBSET S /\ Cardinality(t) = Cardinality(s) - 1 /\ Cardinality(s) \in Nat
        BY <3>2, SmallerSet
      <4>2. t \in Small(k) /\ t \in Small(k + 1)
        BY <4>1
      <4> HIDE DEF t
      <4>3. i[t] = h[t]
        BY <4>2
      <4>4. s \in Small(k) => h[s] = f[NextOf(s)] + h[t]
        BY <2>1, <3>2 DEF t
      <4>5. i[s] = f[NextOf(s)] + h[t]
        BY <4>4 DEF t
      <4>6. j[s] = f[NextOf(s)] + i[t]
        BY <3>2 DEF t
      <4>7. QED BY <4>3, <4>5, <4>6
    <3>3. QED BY <3>1, <3>2
  <2>3. Upto(i, k + 1)
    BY <2>2
  <2> HIDE DEF Upto, i
  <2>4. QED BY <2>3
<1>4. Cardinality(S) \in Reached
  <2> HIDE DEF Reached
  <2>1. Nat \subseteq Reached
    BY <1>2, <1>3, CountingUp
  <2>2. QED BY <1>1, <2>1
<1>5. PICK h : Upto(h, Cardinality(S))
  BY <1>4
<1>6. Small(Cardinality(S)) = SUBSET S
  BY FS_Subset, FS_CardinalityType
<1>7. Sums(f, h, S)
  BY <1>5, <1>6 DEF Sums
<1>8. QED BY <1>7

\* What is true of the empty set, and of a set if it is of the next smaller one.
LEMMA SetBySet ==
  ASSUME NEW S, IsFiniteSet(S), NEW Good, {} \in Good,
         \A s \in SUBSET S : s # {} /\ s \ {NextOf(s)} \in Good => s \in Good
  PROVE  SUBSET S \subseteq Good
<1> DEFINE Reached == {k \in Nat : \A s \in SUBSET S : Cardinality(s) = k => s \in Good}
<1>1. \A s \in SUBSET S : IsFiniteSet(s) /\ Cardinality(s) \in Nat /\ (Cardinality(s) = 0 <=> s = {})
  BY FS_Subset, FS_EmptySet, FS_CardinalityType
<1>2. 0 \in Reached
  BY <1>1
<1>3. ASSUME NEW k \in Nat, k \in Reached PROVE k + 1 \in Reached
  <2>1. SUFFICES ASSUME NEW s \in SUBSET S, Cardinality(s) = k + 1 PROVE s \in Good
    OBVIOUS
  <2>2. s # {}
    BY <1>1, <2>1
  <2>3. s \ {NextOf(s)} \in SUBSET S /\ Cardinality(s \ {NextOf(s)}) = Cardinality(s) - 1
    BY <2>2, SmallerSet
  <2>4. Cardinality(s \ {NextOf(s)}) = k
    BY <2>1, <2>3
  <2>5. s \ {NextOf(s)} \in Good
    BY <1>3, <2>3, <2>4
  <2>6. QED BY <2>2, <2>5
<1>4. Nat \subseteq Reached
  <2> HIDE DEF Reached
  <2>1. QED BY <1>2, <1>3, CountingUp
<1>5. QED BY <1>1, <1>4

\* The sum of all references is that of a fold, whose steps are known.
SumOf(f) == (CHOOSE h : Sums(f, h, DOMAIN f))[DOMAIN f]

LEMMA BalanceIsASum == ReferencesBalanced <=> SumOf(refs) = Len(notifications)
BY DEF ReferencesBalanced, FoldFunction, FoldFunctionOnSet, MapThenFoldSet, SumOf, Sums, NextOf

LEMMA SumIsThere ==
  ASSUME NEW f, IsFiniteSet(DOMAIN f)
  PROVE  \E h : Sums(f, h, DOMAIN f) /\ SumOf(f) = h[DOMAIN f]
<1> DEFINE Fold == CHOOSE h : Sums(f, h, DOMAIN f)
<1>1. Sums(f, Fold, DOMAIN f)
  BY SumsExist
<1>2. SumOf(f) = Fold[DOMAIN f]
  BY DEF SumOf
<1>3. QED BY <1>1, <1>2

\* Nothing is held at first.
LEMMA SumOfNothing ==
  ASSUME NEW S, IsFiniteSet(S)
  PROVE  SumOf([o \in S |-> 0]) = 0
<1> DEFINE f == [o \in S |-> 0]
<1>1. PICK h : Sums(f, h, S) /\ SumOf(f) = h[S]
  <2>1. DOMAIN f = S
    OBVIOUS
  <2> HIDE DEF f
  <2>2. QED BY <2>1, SumIsThere
<1> DEFINE Good == {s \in SUBSET S : h[s] = 0}
<1>2. {} \in Good
  BY <1>1 DEF Sums
<1>3. ASSUME NEW s \in SUBSET S, s # {}, s \ {NextOf(s)} \in Good PROVE s \in Good
  <2>1. h[s] = f[NextOf(s)] + h[s \ {NextOf(s)}]
    BY <1>1, <1>3 DEF Sums
  <2>2. NextOf(s) \in S
    BY <1>3, SmallerSet
  <2>3. QED BY <1>3, <2>1, <2>2
<1>4. SUBSET S \subseteq Good
  <2> HIDE DEF Good
  <2>1. QED BY <1>2, <1>3, SetBySet
<1>5. h[S] = 0
  BY <1>4
<1>6. QED BY <1>1, <1>5

\* If the references on one observer change, the sum changes by as much.
LEMMA SumChanges ==
  ASSUME NEW S, IsFiniteSet(S), NEW f \in [S -> Int], NEW g \in [S -> Int], NEW a \in S,
         \A x \in S : x # a => g[x] = f[x]
  PROVE  SumOf(f) \in Int /\ SumOf(g) = SumOf(f) + (g[a] - f[a])
<1>1. PICK h : Sums(f, h, S) /\ SumOf(f) = h[S]
  BY SumIsThere
<1>2. PICK i : Sums(g, i, S) /\ SumOf(g) = i[S]
  BY SumIsThere
<1> DEFINE d == g[a] - f[a]
           Good == {s \in SUBSET S : h[s] \in Int /\ i[s] = h[s] + (IF a \in s THEN d ELSE 0)}
<1>3. {} \in Good
  BY <1>1, <1>2 DEF Sums
<1>4. ASSUME NEW s \in SUBSET S, s # {}, s \ {NextOf(s)} \in Good PROVE s \in Good
  <2> DEFINE x == NextOf(s)
             t == s \ {x}
  <2>1. h[s] = f[x] + h[t]
    BY <1>1, <1>4 DEF Sums
  <2>2. i[s] = g[x] + i[t]
    BY <1>2, <1>4 DEF Sums
  <2>3. x \in s /\ x \in S
    BY <1>4, SmallerSet
  <2>4. h[t] \in Int /\ i[t] = h[t] + (IF a \in t THEN d ELSE 0)
    BY <1>4
  <2>5. d \in Int /\ f[x] \in Int /\ g[x] = f[x] + (IF x = a THEN d ELSE 0)
    BY <2>3
  <2>6. (a \in s <=> a \in t \/ x = a) /\ ~(a \in t /\ x = a)
    BY <2>3
  <2> HIDE DEF x, t, d
  <2>7. h[s] \in Int /\ i[s] = h[s] + (IF a \in s THEN d ELSE 0)
    BY <2>1, <2>2, <2>4, <2>5, <2>6
  <2>8. QED BY <2>7
<1>5. SUBSET S \subseteq Good
  <2> HIDE DEF Good
  <2>1. QED BY <1>3, <1>4, SetBySet
<1>6. h[S] \in Int /\ i[S] = h[S] + d
  BY <1>5
<1>7. QED BY <1>1, <1>2, <1>6

\* What Register takes and Unregister releases.
LEMMA BalanceStep ==
  ASSUME TypeOK, ReferencesBalanced, [Next]_vars
  PROVE  ReferencesBalanced'
<1> DEFINE n == Len(notifications)
<1>1. /\ refs \in [Observers -> Int] /\ notifications \in Seq(Observers) /\ n \in Nat
      /\ SumOf(refs) = n
  BY BalanceIsASum DEF TypeOK
<1>2. ReferencesBalanced' <=> SumOf(refs') = Len(notifications')
  BY DEF ReferencesBalanced, FoldFunction, FoldFunctionOnSet, MapThenFoldSet, SumOf, Sums, NextOf
<1>3. ASSUME NEW o \in Observers, Register(o) PROVE ReferencesBalanced'
  <2>1. refs' = [refs EXCEPT ![o] = @ + 1] /\ Len(notifications') = n + 1
    BY <1>1, <1>3 DEF Register
  <2>2. /\ refs' \in [Observers -> Int] /\ refs'[o] = refs[o] + 1 /\ refs[o] \in Int
        /\ \A x \in Observers : x # o => refs'[x] = refs[x]
    BY <1>1, <2>1
  <2>3. SumOf(refs) \in Int /\ SumOf(refs') = SumOf(refs) + (refs'[o] - refs[o])
    BY <1>1, <2>2, SumChanges, ObserversAssumption
  <2>4. QED BY <1>1, <1>2, <2>1, <2>2, <2>3
<1>4. ASSUME NEW i \in DOMAIN notifications, Unregister(i) PROVE ReferencesBalanced'
  <2> DEFINE released == IF i < n THEN i + 1 ELSE i
             o == notifications[released]
  <2>1. i \in 1 .. n /\ released \in 1 .. n /\ o \in Observers
    BY <1>1
  <2>2. refs' = [refs EXCEPT ![o] = @ - 1] /\ notifications' = RemoveAt(notifications, i)
    BY <1>4 DEF Unregister
  <2>3. Len(notifications') = n - 1
    BY <1>1, <2>1, <2>2, ErasedElement
  <2> HIDE DEF o
  <2>4. /\ refs' \in [Observers -> Int] /\ refs'[o] = refs[o] - 1 /\ refs[o] \in Int
        /\ \A x \in Observers : x # o => refs'[x] = refs[x]
    BY <1>1, <2>1, <2>2
  <2>5. SumOf(refs) \in Int /\ SumOf(refs') = SumOf(refs) + (refs'[o] - refs[o])
    BY <1>1, <2>1, <2>4, SumChanges, ObserversAssumption
  <2>6. refs'[o] - refs[o] = -1
    BY <2>4
  <2>7. SumOf(refs') = n - 1
    BY <1>1, <2>5, <2>6
  <2>8. QED BY <1>2, <2>3, <2>7
<1>5. CASE UNCHANGED <<refs, notifications>>
  BY <1>1, <1>2, <1>5
<1>6. ASSUME Next, \A o \in Observers : ~Register(o), \A i \in DOMAIN notifications : ~Unregister(i)
      PROVE  UNCHANGED <<refs, notifications>>
  BY <1>6 DEF Next, Worker, Api, clientVars,
     Wake, Sample, UseLocalLists, UpdateLists, NotifyRepoSynced, InstallationProgess, InstallationDone,
     InstallationFails, SetState, NotifyStateChange, DeactivatePlugin, ReleaseJob, Block,
     Report, DoWork, Destruct, StopWorker
<1>7. UNCHANGED vars => UNCHANGED <<refs, notifications>>
  BY DEF vars, clientVars
<1>8. QED BY <1>3, <1>4, <1>5, <1>6, <1>7

\* Observers are served: they hear the states one by one, and the plugin holds as many
\* references as it knows observers, although Unregister may release that of another
\* one (Register, Unregister, NotifyStateChange).
THEOREM ObserversAreServed == Spec => ObserversServed
<1>1. Init => ReferencesBalanced
  <2>1. SumOf([o \in Observers |-> 0]) = 0
    BY SumOfNothing, ObserversAssumption
  <2>2. QED BY <2>1, BalanceIsASum DEF Init
<1>2. IInv => TypeOK
  BY DEF IInv
<1>3. QED BY <1>1, <1>2, BalanceStep, Invariance, StatesAreAnnouncedInOrder, PTL DEF Spec, ObserversServed
=============================================================================
