------------------------------ MODULE Packager ------------------------------
(***************************************************************************)
(* The Packager plugin: PackagerImplementation, one worker thread (the     *)
(* InstallThread) that runs opkg without the lock, and the API callers     *)
(* that hand it one job at a time under _adminLock.                        *)
(*                                                                         *)
(* A critical section of _adminLock is one atomic step; what the worker    *)
(* does without the lock (sampling, opkg, SetState, Block) is cut at every *)
(* point where a caller can come in between.                               *)
(*                                                                         *)
(* External, modelled from its use in src/: libopkg (any order of progress *)
(* reports, 100% exactly once, at the end of an installation that          *)
(* succeeds), Core::Thread (Run does nothing on a RUNNING thread, Block    *)
(* parks it, its destructor stops and joins it).                           *)
(***************************************************************************)
EXTENDS Integers, SequencesExt

CONSTANTS Observers,          \* clients that Register an INotification
          AlwaysUpdateFirst,  \* _alwaysUpdateFirst of the configuration
          MaxRefs             \* bound: references held on one observer

ASSUME ObserversAssumption == IsFiniteSet(Observers)
ASSUME FlagAssumption == AlwaysUpdateFirst \in BOOLEAN
ASSUME RefsAssumption == MaxRefs \in Nat \ {0}

VARIABLES
  install,        \* _inProgress.Install: NoJob (nullptr) or [state, error]
  isSyncing,      \* _isSyncing
  opkg,           \* _opkgInitialized
  service,        \* _service # nullptr (the object has not been destructed)
  notifications,  \* the vector _notifications
  refs,           \* references the plugin holds on each observer
  told,           \* history: the last StateChange each observer was given
  thread,         \* state of the Core::Thread
  pc,             \* where Worker() is
  isInstall,      \* its local isInstall
  todo            \* states it still has to set and notify in this callback

jobVars    == <<install, isSyncing, opkg>>
clientVars == <<notifications, refs, told>>
workVars   == <<thread, pc, isInstall, todo>>
vars       == <<jobVars, service, clientVars, workVars>>

States == {"IDLE", "DOWNLOADING", "DOWNLOADED", "INSTALLING", "INSTALLED"}
Infos  == [state : States, error : BOOLEAN]
NoJob  == [state |-> "nullptr", error |-> FALSE]
Created == [state |-> "IDLE", error |-> FALSE]

\* How an installation can end.
Terminal(info) == info.error \/ info.state = "INSTALLED"

Stages == {"check", "sample", "setup", "synced", "opkg", "publish", "notify",
           "deactivate", "release", "block", "exited"}

\* Other operations are refused with ERROR_INPROGRESS.
Working == install # NoJob \/ isSyncing

Registered == ToSet(notifications)

(***************************************************************************)
(* Configure() has succeeded: the worker has not been started, and opkg is *)
(* left to the first job.                                                  *)
(***************************************************************************)
Init ==
  /\ install = NoJob /\ isSyncing = FALSE /\ opkg = FALSE
  /\ service = TRUE
  /\ notifications = <<>>
  /\ refs = [o \in Observers |-> 0]
  /\ told = [o \in Observers |-> NoJob]
  /\ thread = "BLOCKED" /\ pc = "check" /\ isInstall = FALSE /\ todo = <<>>

-----------------------------------------------------------------------------
(* The API, under _adminLock.  Nobody calls it once Release() has started  *)
(* the destructor.                                                         *)

\* Accept a job: opkg is torn down and initialised again, which may fail.
\* The refusal (Working) changes nothing.
DoWork(wantInstall) ==
  /\ service /\ ~Working
  /\ \/ /\ opkg' = TRUE
        /\ IF wantInstall
             THEN install' = Created /\ isSyncing' = isSyncing
             ELSE isSyncing' = TRUE /\ install' = install
        /\ thread' = IF thread = "BLOCKED" THEN "RUNNING" ELSE thread
     \/ /\ opkg' = FALSE
        /\ UNCHANGED <<install, isSyncing, thread>>
  /\ UNCHANGED <<service, clientVars, pc, isInstall, todo>>

\* A late observer is told the state of the installation in progress, if there
\* is one; who is registered already is entered, and told, once more.
Register(o) ==
  /\ service /\ refs[o] < MaxRefs
  /\ notifications' = Append(notifications, o)
  /\ refs' = [refs EXCEPT ![o] = @ + 1]
  /\ told' = [told EXCEPT ![o] = IF install = NoJob THEN @ ELSE install]
  /\ UNCHANGED <<jobVars, service, workVars>>

\* The first entry of the observer goes.  The iterator is used after erase():
\* the reference released is that of the element that moved into the slot, or,
\* at the end, the erased one's.  Below -1 the client's own reference is gone
\* too: what follows is not modelled.
Unregister(i) ==
  /\ service /\ \A j \in 1 .. i - 1 : notifications[j] # notifications[i]
  /\ notifications' = RemoveAt(notifications, i)
  /\ LET released == IF i < Len(notifications) THEN i + 1 ELSE i
     IN  /\ refs[notifications[released]] >= 0
         /\ refs' = [refs EXCEPT ![notifications[released]] = @ - 1]
  /\ told' = [o \in Observers |-> IF o \in Registered' THEN told[o] ELSE NoJob]
  /\ UNCHANGED <<jobVars, service, workVars>>

\* The destructor's body; the members, the thread first, go afterwards.
Destruct ==
  /\ service
  /\ opkg' = FALSE /\ service' = FALSE
  /\ UNCHANGED <<install, isSyncing, clientVars, workVars>>

StopWorker ==
  /\ ~service /\ thread # "STOPPED"
  /\ thread' = "STOPPED"
  /\ UNCHANGED <<jobVars, service, clientVars, pc, isInstall, todo>>

-----------------------------------------------------------------------------
(* The worker.                                                             *)

WorkerAt(here) == pc = here
WorkerGoes(there) == pc' = there

\* while (IsRunning()): the framework calls Worker() again after Run().
Wake ==
  /\ WorkerAt("check")
  /\ \/ thread = "RUNNING" /\ WorkerGoes("sample")
     \/ thread = "STOPPED" /\ WorkerGoes("exited")
  /\ UNCHANGED <<jobVars, service, clientVars, thread, isInstall, todo>>

Sample ==
  /\ WorkerAt("sample") /\ WorkerGoes("setup")
  /\ isInstall' = (install # NoJob)
  /\ UNCHANGED <<jobVars, service, clientVars, thread, todo>>

\* BlockingSetupLocalRepoNoLock: an installation uses the lists it finds...
UseLocalLists ==
  /\ WorkerAt("setup") /\ isInstall /\ ~AlwaysUpdateFirst
  /\ WorkerGoes("opkg")
  /\ UNCHANGED <<jobVars, service, clientVars, thread, isInstall, todo>>

\* Mutant: the synchronization counts as done before its announcement.
UpdateListsEarly ==
  /\ WorkerAt("setup") /\ WorkerGoes("synced")
  /\ isSyncing' = FALSE
  /\ UNCHANGED <<install, opkg, service, clientVars, thread, isInstall, todo>>

\* ...and updates them when there are none; a synchronization always does.
UpdateLists ==
  /\ WorkerAt("setup") /\ WorkerGoes("synced")
  /\ UNCHANGED <<jobVars, service, clientVars, thread, isInstall, todo>>

NotifyRepoSynced ==
  /\ WorkerAt("synced")
  /\ isSyncing' = FALSE
  /\ WorkerGoes(IF isInstall THEN "opkg" ELSE "block")
  /\ UNCHANGED <<install, opkg, service, clientVars, thread, isInstall, todo>>

\* Mutant: DOWNLOADED is not published.
PublishesWithoutDownloaded(action, done) ==
  LET target == IF action = "OPKG_DOWNLOAD" THEN "DOWNLOADING" ELSE "INSTALLING"
  IN  (IF install.state # target THEN <<target>> ELSE <<>>)
      \o (IF done THEN <<"INSTALLED">> ELSE <<>>)

\* What InstallationProgessNoLock sets, in order, for one report of opkg.
Publishes(action, done) ==
  LET target == IF action = "OPKG_DOWNLOAD" THEN "DOWNLOADING" ELSE "INSTALLING"
      now    == install.state
  IN  (IF action = "OPKG_INSTALL" /\ now = "DOWNLOADING"
         THEN <<"DOWNLOADED">> ELSE <<>>)
      \o (IF now # target THEN <<target>> ELSE <<>>)
      \o (IF done THEN <<"INSTALLED">> ELSE <<>>)

Report(action, done) ==
  /\ WorkerAt("opkg")
  /\ todo' = Publishes(action, done)
  /\ WorkerGoes(IF todo' = <<>> THEN "opkg" ELSE "publish")
  /\ UNCHANGED <<jobVars, service, clientVars, thread, isInstall>>

InstallationProgess ==
  Report("OPKG_DOWNLOAD", FALSE) \/ Report("OPKG_INSTALL", FALSE)
InstallationDone == Report("OPKG_INSTALL", TRUE)

\* opkg_install_package / opkg_upgrade_package returned an error.
InstallationFails ==
  /\ WorkerAt("opkg") /\ WorkerGoes("publish")
  /\ todo' = <<"ERROR">>
  /\ UNCHANGED <<jobVars, service, clientVars, thread, isInstall>>

\* SetState or SetError, without the lock...
SetState ==
  /\ WorkerAt("publish") /\ WorkerGoes("notify")
  /\ install' = IF Head(todo) = "ERROR" THEN [install EXCEPT !.error = TRUE]
                ELSE [install EXCEPT !.state = Head(todo)]
  /\ todo' = Tail(todo)
  /\ UNCHANGED <<isSyncing, opkg, service, clientVars, thread, isInstall>>

\* Mutant: the observers are not called.
NotifyNobody ==
  /\ WorkerAt("notify")
  /\ WorkerGoes(IF todo # <<>> THEN "publish"
                ELSE IF Terminal(install) THEN "release" ELSE "opkg")
  /\ UNCHANGED <<jobVars, service, clientVars, thread, isInstall, todo>>

\* ...and NotifyStateChange, with it.
NotifyStateChange ==
  /\ WorkerAt("notify")
  /\ told' = [o \in Observers |-> IF o \in Registered THEN install ELSE told[o]]
  /\ WorkerGoes(CASE todo # <<>> -> "publish"
                  [] todo = <<>> /\ install.error -> "release"
                  [] todo = <<>> /\ ~install.error /\ install.state = "INSTALLED"
                       -> "deactivate"
                  [] OTHER -> "opkg")
  /\ UNCHANGED <<jobVars, service, notifications, refs, thread, isInstall, todo>>

\* The plugin the package replaces is deactivated through _service (or the
\* metadata names none), then opkg returns.
DeactivatePlugin ==
  /\ WorkerAt("deactivate") /\ WorkerGoes("release")
  /\ UNCHANGED <<jobVars, service, clientVars, thread, isInstall, todo>>

\* Mutant: the pointers are not reset.
ReleaseJobKeepsIt ==
  /\ WorkerAt("release") /\ WorkerGoes("block")
  /\ UNCHANGED <<jobVars, service, clientVars, thread, isInstall, todo>>

ReleaseJob ==
  /\ WorkerAt("release") /\ WorkerGoes("block")
  /\ install' = NoJob
  /\ UNCHANGED <<isSyncing, opkg, service, clientVars, thread, isInstall, todo>>

\* Mutant: the worker goes round its loop without parking.
NeverBlock ==
  /\ WorkerAt("block") /\ WorkerGoes("sample")
  /\ UNCHANGED <<jobVars, service, clientVars, thread, isInstall, todo>>

Block ==
  /\ WorkerAt("block") /\ WorkerGoes("check")
  /\ thread' = IF thread = "RUNNING" THEN "BLOCKED" ELSE thread
  /\ UNCHANGED <<jobVars, service, clientVars, isInstall, todo>>

-----------------------------------------------------------------------------
Worker == \/ Wake \/ Sample \/ UseLocalLists \/ UpdateLists \/ NotifyRepoSynced
          \/ InstallationProgess \/ InstallationDone \/ InstallationFails
          \/ SetState \/ NotifyStateChange \/ DeactivatePlugin
          \/ ReleaseJob \/ Block

Api == \/ \E wantInstall \in BOOLEAN : DoWork(wantInstall)
       \/ \E o \in Observers : Register(o)
       \/ \E i \in DOMAIN notifications : Unregister(i)
       \/ Destruct \/ StopWorker

Next == Worker \/ Api

(***************************************************************************)
(* The worker thread is scheduled, and every call of opkg returns however  *)
(* often it reports progress.  Callers owe nothing.                        *)
(***************************************************************************)
Fairness == /\ WF_vars(Worker)
            /\ SF_vars(InstallationDone \/ InstallationFails)

Spec == Init /\ [][Next]_vars /\ Fairness

-----------------------------------------------------------------------------
(* Properties.                                                             *)

TypeOK ==
  /\ install \in Infos \cup {NoJob}
  /\ isSyncing \in BOOLEAN /\ opkg \in BOOLEAN /\ service \in BOOLEAN
  /\ notifications \in Seq(Observers)
  /\ refs \in [Observers -> Int]
  /\ told \in [Observers -> Infos \cup {NoJob}]
  /\ thread \in {"BLOCKED", "RUNNING", "STOPPED"}
  /\ pc \in Stages /\ isInstall \in BOOLEAN
  /\ todo \in Seq(States \cup {"ERROR"})

InInstall == pc \in {"opkg", "publish", "notify", "deactivate", "release"}
InSetup   == pc \in {"setup", "synced"}

\* The worker relies on these without the lock: the assertions at the head of
\* BlockingInstallUntilCompletionNoLock (an installation is in progress) and in
\* BlockingSetupLocalRepoNoLock (a forced update belongs to a synchronization
\* that has not been announced), whatever jobs were accepted meanwhile.
WorkerOwnsItsJob ==
  /\ InInstall => isInstall /\ install # NoJob
  /\ InSetup => (IF isInstall THEN install # NoJob ELSE isSyncing)

\* "Only one at a time is allowed" (Packager.cpp): an installation and a
\* synchronization are never in progress together.
OneOperationAtATime == ~(install # NoJob /\ isSyncing)

\* While an installation is in progress and the worker is not between setting
\* a state and announcing it, each registered observer has last been told the
\* current state, also one that registered in the middle of it.
ObserversUpToDate ==
  install \notin {NoJob, Created} /\ pc # "notify" =>
    \A o \in Registered : told[o] = install

\* An installation is only given up once its outcome has been announced to
\* every observer registered at that moment.
OutcomeAnnounced ==
  [][install # NoJob /\ install' = NoJob =>
       Terminal(install) /\ \A o \in Registered : told[o] = install]_vars

\* opkg is global state: DoWork tears it down and initialises it again only
\* while the worker is outside of it.
OpkgNotResetUnderWorker ==
  [][~Working /\ Working' => ~InInstall /\ ~InSetup]_vars

\* What one observer can be told after what: the states are announced one by
\* one, DOWNLOADED always between DOWNLOADING and INSTALLING, and nothing
\* follows an outcome but the start of another installation.
Follows(from, to) ==
  \/ from = NoJob \/ to = NoJob \/ from = to
  \/ Terminal(from) /\ (~Terminal(to) \/ to = [Created EXCEPT !.error = TRUE])
  \/ ~Terminal(from) /\ to = [from EXCEPT !.error = TRUE]
  \/ <<from.state, to.state>> \in
       {<<"IDLE", "DOWNLOADING">>, <<"IDLE", "INSTALLING">>,
        <<"DOWNLOADING", "DOWNLOADED">>, <<"DOWNLOADED", "INSTALLING">>,
        <<"INSTALLING", "DOWNLOADING">>, <<"INSTALLING", "INSTALLED">>}
AnnouncedInOrder ==
  [][\A o \in Observers : Follows(told[o], told'[o])]_vars

\* The references the plugin holds are as many as the observers it knows,
\* although Unregister may release that of another observer.
ReferencesBalanced ==
  FoldFunction(LAMBDA a, b : a + b, 0, refs) = Len(notifications)

\* The worker, its lock and opkg implement the contract of PackagerJobs: what a
\* client can see of the thread is one job at a time and its announcements.
InstallSteps ==
  {step \in Infos \X Infos :
     step[1] # step[2] /\ ~Terminal(step[1]) /\ Follows(step[1], step[2])}
Jobs == INSTANCE PackagerJobs WITH
  Clients   <- Observers,
  Start     <- Created,
  Steps     <- InstallSteps,
  IsOutcome <- Terminal,
  job       <- CASE install # NoJob -> "install"
                 [] install = NoJob /\ isSyncing -> "sync"
                 [] OTHER -> "none",
  progress  <- install,
  audience  <- Registered,
  heard     <- told
ImplementsJobs == Jobs!Spec

\* A job accepted while the worker is not on its way to park ends, whatever the
\* callers do, unless the object is destructed before the worker wakes for it.
Served == Working /\ pc # "block" /\ thread = "RUNNING"
ServedJobsEnd == Served ~> ~Working \/ pc = "exited"

\* The reply ERROR_INPROGRESS is documented as "Other
\* installation/synchronization is already in progress" (PackagerPlugin.md):
\* while jobs are refused, the worker runs or is about to.
RefusalMeansProgress == service /\ Working => thread = "RUNNING"

\* What the worker relies on and what observers have heard of it.
WorkerInOrder ==
  TypeOK /\ WorkerOwnsItsJob /\ OneOperationAtATime /\ ObserversUpToDate

\* A job is neither given up nor overtaken by the next one.
JobsToTheirEnd == OutcomeAnnounced /\ OpkgNotResetUnderWorker

\* Observers are held once, and told the states one by one.
ObserversServed == []ReferencesBalanced /\ AnnouncedInOrder

-----------------------------------------------------------------------------
(* Known not to hold, and not checked.                                     *)

\* ASSERT(_service != nullptr) at the head of DeactivatePlugin.
DeactivateHasService == pc = "deactivate" => service
=============================================================================
