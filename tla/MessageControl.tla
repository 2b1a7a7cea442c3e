-------------------------- MODULE MessageControl --------------------------
(***************************************************************************)
(* The plugin that collects the messages of all processes.  Processes      *)
(* write them in files of their own; a worker thread is woken, takes them  *)
(* out of the files that its client has opened, and hands each to every    *)
(* output.  The files are opened and closed by a job, as connections come  *)
(* and go; the files of a process that is over are removed, as soon as     *)
(* that can be done.                                                       *)
(*                                                                         *)
(* The threads: Thunder's (Initialize, Deinitialize), the one that tells   *)
(* of connections, the job in the worker pool, the worker.  External: the  *)
(* connections, the client, Core::Thread, the worker pool, which runs a    *)
(* job once more if it is submitted while it runs.                         *)
(*                                                                         *)
(* Not so, and not claimed: a process that ends before the job has         *)
(* attached it leaves its files for ever (Drop forgets it); the destructor *)
(* waits for the job only after it has destroyed _client, which the job    *)
(* uses: what comes of that is undefined, and here it is a client that     *)
(* still opens files.                                                      *)
(***************************************************************************)
EXTENDS Naturals, FiniteSets

CONSTANTS Conns,        \* connections; each comes and goes once
          Controlled,   \* those of the processes that Thunder started
          Configs,      \* configurations of the plugin
          MaxCycles,    \* bound: activations of the plugin
          MaxMessages   \* bound: messages of a connection

VARIABLES
  phase,      \* "none" no object, "up", and the steps of Deinitialize:
              \* "asked" "waking" "waiting" "quiet" "deaf" "deinitialized"; then
              \* those of the destructor: "cleared" "clientless"
  cycles,
  conn,       \* connection -> "none" "up" "closed" "over"
  observing,  \* connection -> "none" "attaching" "observing" "detaching"
  job,        \* "idle" "queued" "running" "again"
  batch,      \* what the running job has left to attach and to detach
  instances,  \* of _client
  cleaning,   \* _cleaning
  files,      \* connections whose files exist
  worker,     \* "none" "waiting" "popping" "sending" "blocked"
  block,      \* Thread::Block was called
  ring,       \* the doorbell was rung and not yet heard
  buffered,   \* connection -> messages in its files
  sent,       \* messages that a connection wrote
  director,   \* _outputDirector
  exporter,   \* _webSocketExporter is initialized
  left,       \* outputs that the message in hand has yet to go to
  attached    \* history: connections attached by this object

controlVars == <<phase, cycles, conn, observing, job, batch, instances, cleaning, files,
                 worker, block, ring, buffered, sent, director, exporter, left, attached>>
thunderVars   == <<phase, cycles, director, exporter>>
observerVars  == <<observing, job>>
clientVars    == <<batch, instances, cleaning, files, attached>>
workerVars    == <<worker, block, ring, left>>
processVars   == <<conn, buffered, sent>>

Nobody == [attaching |-> {}, detaching |-> {}]

\* The outputs that Initialize creates.  A member of the configuration that is
\* absent is in neither `on' nor `off'.
Outputs(config) ==
  LET Unset(x) == x \notin config.on \cup config.off
      Default  == Unset("syslog") /\ Unset("console")
      On(x)    == x \in config.on
  IN  (IF ~config.background /\ (Default \/ On("console")) THEN {"console"} ELSE {})
      \cup (IF config.background /\ (Default \/ On("syslog")) THEN {"syslog"} ELSE {})
      \cup (config.on \cap {"file", "remote", "telemetry"})

Registered == phase \in {"up", "asked", "waking", "waiting", "quiet"}

Living == {c \in Conns : conn[c] = "up" \/ (c \in Controlled /\ conn[c] = "closed")}

-----------------------------------------------------------------------------
(* The observer.                                                           *)

Submitted == CASE job = "idle" -> "queued" [] job = "running" -> "again" [] OTHER -> job

\* Activated, for each connection of C.
Activated(C) ==
  /\ observing' = [c \in Conns |->
       IF c \notin C THEN observing[c]
       ELSE CASE observing[c] = "none" -> "attaching"
              [] observing[c] = "detaching" -> "observing"
              [] OTHER -> observing[c]]
  /\ job' = IF C = {} THEN job ELSE Submitted

\* Mutant: a job that is there already is not submitted again.
DropOnce(c) ==
  /\ observing' = [observing EXCEPT ![c] =
       CASE @ = "attaching" -> "none" [] @ = "observing" -> "detaching" [] OTHER -> @]
  /\ job' = IF job = "idle" THEN Submitted ELSE job

Drop(c) ==
  /\ observing' = [observing EXCEPT ![c] =
       CASE @ = "attaching" -> "none" [] @ = "observing" -> "detaching" [] OTHER -> @]
  /\ job' = Submitted

Untold == UNCHANGED observerVars

Opened(c) ==
  /\ conn[c] = "none" /\ conn' = [conn EXCEPT ![c] = "up"] /\ files' = files \cup {c}
  /\ IF Registered THEN Activated({c}) ELSE Untold
  /\ UNCHANGED <<thunderVars, batch, instances, cleaning, attached, workerVars, buffered, sent>>

\* Deactivated: a process that Thunder controls is not over before Terminated.
Deactivated(c) ==
  /\ conn[c] = "up"
  /\ conn' = [conn EXCEPT ![c] = IF c \in Controlled THEN "closed" ELSE "over"]
  /\ IF Registered /\ c \notin Controlled THEN Drop(c) ELSE Untold
  /\ UNCHANGED <<thunderVars, clientVars, workerVars, buffered, sent>>

Terminated(c) ==
  /\ conn[c] = "closed" /\ conn' = [conn EXCEPT ![c] = "over"]
  /\ IF Registered THEN Drop(c) ELSE Untold
  /\ UNCHANGED <<thunderVars, clientVars, workerVars, buffered, sent>>

\* Dispatch, up to the release of its lock.
Dispatch ==
  /\ job = "queued" /\ job' = "running"
  /\ batch' = [attaching |-> {c \in Conns : observing[c] = "attaching"},
               detaching |-> {c \in Conns : observing[c] = "detaching"}]
  /\ observing' = [c \in Conns |-> CASE observing[c] = "attaching" -> "observing"
                                     [] observing[c] = "detaching" -> "none"
                                     [] OTHER -> observing[c]]
  /\ UNCHANGED <<thunderVars, instances, cleaning, files, attached, workerVars, processVars>>

Dispatched ==
  /\ job \in {"running", "again"} /\ batch = Nobody
  /\ job' = IF job = "again" THEN "queued" ELSE "idle"
  /\ UNCHANGED <<thunderVars, observing, clientVars, workerVars, processVars>>

-----------------------------------------------------------------------------
(* Attach, Detach and Cleanup, under _adminLock.                           *)

\* The files of an entry that could not be destroyed stay, and the entry.
Cleanup(entries) ==
  \E stuck \in SUBSET (entries \cap files) :
    /\ cleaning' = stuck
    /\ files' = files \ (entries \ stuck)

Detach(c) ==
  /\ c \in batch.detaching /\ batch' = [batch EXCEPT !.detaching = @ \ {c}]
  /\ instances' = instances \ {c}
  /\ Cleanup(cleaning \cup {c})
  /\ UNCHANGED <<thunderVars, observerVars, attached, workerVars, processVars>>

Attach(c) ==
  /\ batch.detaching = {} /\ c \in batch.attaching
  /\ batch' = [batch EXCEPT !.attaching = @ \ {c}]
  /\ instances' = instances \cup {c} /\ attached' = attached \cup {c}
  /\ Cleanup(cleaning)
  /\ UNCHANGED <<thunderVars, observerVars, workerVars, processVars>>

-----------------------------------------------------------------------------
(* The worker.                                                             *)

\* External: a process writes a message and rings.
Write(c) ==
  /\ conn[c] = "up" /\ sent[c] < MaxMessages
  /\ sent' = [sent EXCEPT ![c] = @ + 1]
  /\ buffered' = [buffered EXCEPT ![c] = @ + 1] /\ ring' = TRUE
  /\ UNCHANGED <<thunderVars, observerVars, clientVars, worker, block, left, conn>>

\* WaitForUpdates returns.
Woken ==
  /\ worker = "waiting" /\ ring /\ worker' = "popping" /\ ring' = FALSE
  /\ UNCHANGED <<thunderVars, observerVars, clientVars, block, left, processVars>>

\* PopMessagesAndCall takes a message, Message takes _outputLock.
Pop(c) ==
  /\ worker = "popping" /\ c \in instances /\ buffered[c] > 0
  /\ buffered' = [buffered EXCEPT ![c] = @ - 1]
  /\ worker' = "sending" /\ left' = director \cup {"exporter"}
  /\ UNCHANGED <<thunderVars, observerVars, clientVars, block, ring, conn, sent>>

\* Message: one output after the other, the exporter last.
Message(x) ==
  /\ worker = "sending" /\ x \in left /\ (x = "exporter" => left = {x})
  /\ left' = left \ {x} /\ worker' = IF left' = {} THEN "popping" ELSE worker
  /\ UNCHANGED <<thunderVars, observerVars, clientVars, block, ring, processVars>>

Popped ==
  /\ worker = "popping" /\ \A c \in instances : buffered[c] = 0
  /\ worker' = IF block THEN "blocked" ELSE "waiting"
  /\ UNCHANGED <<thunderVars, observerVars, clientVars, block, ring, left, processVars>>

-----------------------------------------------------------------------------
(* Thunder.                                                                *)

\* Callback runs the worker.  There is none if messages go out directly.
Initialize(config) ==
  /\ phase = "none" /\ cycles < MaxCycles
  /\ phase' = "up" /\ cycles' = cycles + 1
  /\ director' = Outputs(config) /\ exporter' = TRUE
  /\ Activated({c \in Conns : conn[c] = "up"})
  /\ worker' = IF config.direct THEN "none" ELSE "waiting"
  /\ block' = FALSE /\ ring' = FALSE /\ left' = {}
  /\ UNCHANGED <<clientVars, processVars>>

Unchanged(vars) == UNCHANGED <<cycles, clientVars, observerVars, processVars, vars>>

Deinitialize ==
  /\ phase = "up" /\ phase' = IF worker = "none" THEN "quiet" ELSE "asked"
  /\ Unchanged(<<director, exporter, workerVars>>)

\* Mutant: the worker may have heard the bell before it is blocked.
RingAndBlock ==
  \/ /\ phase = "asked" /\ phase' = "waking" /\ ring' = TRUE
     /\ Unchanged(<<director, exporter, worker, block, left>>)
  \/ /\ phase = "waking" /\ phase' = "waiting" /\ block' = TRUE
     /\ Unchanged(<<director, exporter, worker, ring, left>>)

\* Callback(nullptr): Block, then SkipWaiting.
BlockAndRing ==
  \/ /\ phase = "asked" /\ phase' = "waking" /\ block' = TRUE
     /\ Unchanged(<<director, exporter, worker, ring, left>>)
  \/ /\ phase = "waking" /\ phase' = "waiting" /\ ring' = TRUE
     /\ Unchanged(<<director, exporter, worker, block, left>>)

\* Callback(nullptr) waits without its lock; the worker is deleted.
Wait ==
  /\ phase = "waiting" /\ worker = "blocked" /\ phase' = "quiet" /\ worker' = "none"
  /\ Unchanged(<<director, exporter, block, ring, left>>)

Unregister ==
  /\ phase = "quiet" /\ phase' = "deaf"
  /\ Unchanged(<<director, exporter, workerVars>>)

Teardown ==
  /\ phase = "deaf" /\ phase' = "deinitialized" /\ director' = {} /\ exporter' = FALSE
  /\ Unchanged(workerVars)

\* The destructor, whose client closes its files and goes before the observer.
ClearInstances ==
  /\ \/ phase = "deinitialized" /\ phase' = "cleared"
     \/ phase = "cleared" /\ phase' = "clientless"
  /\ instances' = {}
  /\ UNCHANGED <<cycles, director, exporter, observerVars, batch, cleaning, files, attached,
                 workerVars, processVars>>

\* ~Observer revokes the job, or waits until it has run.
Destroy ==
  /\ phase = "clientless" /\ job \in {"idle", "queued"}
  /\ phase' = "none" /\ job' = "idle" /\ observing' = [c \in Conns |-> "none"]
  /\ instances' = {} /\ cleaning' = {} /\ attached' = {}
  /\ UNCHANGED <<cycles, director, exporter, batch, files, workerVars, processVars>>

-----------------------------------------------------------------------------

Init ==
  /\ phase = "none" /\ cycles = 0
  /\ conn = [c \in Conns |-> "none"] /\ observing = [c \in Conns |-> "none"]
  /\ job = "idle" /\ batch = Nobody /\ instances = {} /\ cleaning = {} /\ files = {}
  /\ worker = "none" /\ block = FALSE /\ ring = FALSE
  /\ buffered = [c \in Conns |-> 0] /\ sent = [c \in Conns |-> 0]
  /\ director = {} /\ exporter = FALSE /\ left = {} /\ attached = {}

Stop == Deinitialize \/ BlockAndRing \/ Wait \/ Unregister \/ Teardown \/ ClearInstances \/ Destroy
Work == Woken \/ Popped \/ (\E c \in Conns : Pop(c)) \/ (\E x \in left : Message(x))
Job  == Dispatch \/ Dispatched \/ \E c \in Conns : Attach(c) \/ Detach(c)

Next ==
  \/ \E config \in Configs : Initialize(config)
  \/ Stop \/ Work \/ Job
  \/ \E c \in Conns : Opened(c) \/ Deactivated(c) \/ Terminated(c) \/ Write(c)

\* The worker and the pool run; Thunder finishes what it began.
Fairness ==
  /\ WF_controlVars(Work) /\ WF_controlVars(Job)
  /\ WF_controlVars(phase # "up" /\ Stop)

Spec == Init /\ [][Next]_controlVars /\ Fairness

-----------------------------------------------------------------------------

TypeOK ==
  /\ phase \in {"none", "up", "asked", "waking", "waiting", "quiet", "deaf", "deinitialized",
                "cleared", "clientless"}
  /\ conn \in [Conns -> {"none", "up", "closed", "over"}]
  /\ observing \in [Conns -> {"none", "attaching", "observing", "detaching"}]
  /\ job \in {"idle", "queued", "running", "again"}
  /\ batch \in [attaching : SUBSET Conns, detaching : SUBSET Conns]
  /\ instances \subseteq Conns /\ cleaning \subseteq Conns /\ files \subseteq Conns
  /\ worker \in {"none", "waiting", "popping", "sending", "blocked"}

\* Once the job has caught up, the client has opened the files of the
\* processes that live and no others, whatever came and went while it ran; the
\* files of a process that was attached and is over are gone, or on the list
\* of those to remove; and nobody's files are removed while he lives.
ClientFollows ==
  /\ phase = "up" /\ job = "idle" =>
       /\ {c \in Conns : conn[c] = "up"} \cup (attached \cap Living) \subseteq instances
       /\ instances \subseteq Living
       /\ (attached \cap files) \ Living \subseteq cleaning
  /\ Living \subseteq files

\* Deinitialize deletes the outputs without _outputLock: it may, since the
\* worker has stopped before.
OutputsDuringMessage == worker = "sending" => left \subseteq director \cup {"exporter"} /\ exporter

\* The worker, which sleeps until somebody rings, notices that it must stop:
\* a Deinitialize that has begun comes to its end.
WorkerStops == phase = "asked" ~> phase = "none"

\* The worker and the job find what they work on.
OutputsInOrder == ClientFollows /\ OutputsDuringMessage
=============================================================================
