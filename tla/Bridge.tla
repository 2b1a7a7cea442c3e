------------------------------- MODULE Bridge -------------------------------
(***************************************************************************)
(* WebBridge and RustBridge: JSON-RPC calls are forwarded to a server (a   *)
(* script on a web socket, a Rust library) under an id of the bridge's     *)
(* own, kept in _pendingRequests until the server answers or a job of the  *)
(* worker pool, _cleaner, finds that their time is over.                   *)
(*                                                                         *)
(* Both plugins have the same table, the same job and the same locking,    *)
(* down to the line.  Invoke runs on any pool thread and takes no lock: it *)
(* is a step for each access to shared state, and an emplace that overlaps *)
(* another change of the table may lose its entry.  Answers and the job    *)
(* hold _adminLock.                                                        *)
(*                                                                         *)
(* External: the clients, the server, which may answer late, twice or      *)
(* never, and the job (one pending run, replaced by Reschedule, also while *)
(* it runs).                                                               *)
(***************************************************************************)
EXTENDS Integers, Sequences, FiniteSets, Functions

CONSTANTS Threads,     \* pool threads that run Invoke
          Channels,    \* of the clients
          Nobody,      \* a channel id read past the end of the table
          Seqs,        \* ids chosen by the clients, for each channel anew
          TimeOut,     \* _timeOut, in ticks
          MaxCalls,    \* bound: forwarded calls
          MaxTime      \* bound: of the clock

ASSUME TimeOutAssumption == TimeOut \in Nat
ASSUME BoundsAssumption  == MaxCalls \in Nat /\ MaxTime \in Nat
ASSUME NobodyAssumption  == Nobody \notin Channels

VARIABLES
  sequenceId,  \* _sequenceId, minus the 1 it starts with
  pending,     \* _pendingRequests: id -> call
  at,          \* where Invoke is on each thread
  overlapped,  \* threads whose emplace overlaps another change of the table
  server,      \* a server is there (_javascriptService # 0, _module # nullptr)
  asked,       \* calls this server has got
  service,     \* _service: "up", "released", or "crashed" when used after that
  timer,       \* when _cleaner is scheduled, Never if it is not
  job,         \* where its run is
  seen,        \* its local `now`
  slot,        \* its local `nextSlot`
  now,         \* the clock
  caller,      \* history: id -> call that was accepted
  replies      \* history: id -> what was submitted for it

jobVars   == <<timer, job, seen, slot>>
worldVars == <<server, asked, service, now>>
histVars  == <<caller, replies>>
vars      == <<sequenceId, pending, at, overlapped, jobVars, worldVars, histVars>>

Never == -1
Ids   == 1 .. MaxCalls
Call  == [channel : Channels, seq : Seqs, due : 0 .. MaxTime]
Reply == [kind : {"answer", "timeout"}, channel : Channels \cup {Nobody}, seq : Seqs]
Idle  == [pc |-> "idle", id |-> 0]

Init ==
  /\ sequenceId = 0 /\ pending = <<>> /\ at = [t \in Threads |-> Idle] /\ overlapped = {}
  /\ server = FALSE /\ asked = {} /\ service = "up" /\ now = 0
  /\ timer = Never /\ job = "idle" /\ seen = 0 /\ slot = Never
  /\ caller = <<>> /\ replies = [i \in Ids |-> <<>>]

With(t, f, x) == [i \in DOMAIN f \cup {t} |-> IF i = t THEN x ELSE f[i]]
Without(S, f) == [i \in DOMAIN f \ S |-> f[i]]

\* The other threads that are inside their emplace.
Emplacing == {t \in Threads : at[t].pc = "emplace"}

-----------------------------------------------------------------------------
(* Invoke of a method the bridge knows.  The others return at once.        *)

\* A new id and the time to wait for; the emplace begins.
InvokeStarts(t, c, s) ==
  /\ service = "up" /\ at[t] = Idle
  /\ sequenceId < MaxCalls /\ now + TimeOut <= MaxTime
  /\ sequenceId' = sequenceId + 1
  /\ at' = [at EXCEPT ![t] = [pc |-> "emplace", id |-> sequenceId']]
  /\ caller' = With(sequenceId', caller, [channel |-> c, seq |-> s, due |-> now + TimeOut])
  /\ UNCHANGED <<pending, overlapped, jobVars, worldVars, replies>>

\* The emplace ends.  It has disturbed those that are still under way.
InvokeEmplaces(t) ==
  /\ at[t].pc = "emplace"
  /\ \/ pending' = With(at[t].id, pending, caller[at[t].id])
     \/ t \in overlapped /\ UNCHANGED pending
  /\ at' = [at EXCEPT ![t].pc = "forward"]
  /\ overlapped' = (overlapped \cup Emplacing) \ {t}
  /\ UNCHANGED <<sequenceId, jobVars, worldVars, histVars>>

\* Submit to the script, Request to the library; without a server it is lost.
InvokeForwards(t) ==
  /\ at[t].pc = "forward" /\ service = "up"
  /\ asked' = IF server THEN asked \cup {at[t].id} ELSE asked
  /\ at' = [at EXCEPT ![t].pc = "arm"]
  /\ UNCHANGED <<sequenceId, pending, overlapped, server, service, now, jobVars, histVars>>

\* Mutant: the time-out of the call is not watched.
InvokeForgetsToArm(t) ==
  /\ at[t].pc = "arm"
  /\ at' = [at EXCEPT ![t] = Idle]
  /\ UNCHANGED <<sequenceId, pending, overlapped, jobVars, worldVars, histVars>>

\* The job is scheduled for this call, instead of what it was scheduled for.
InvokeArms(t) ==
  /\ at[t].pc = "arm"
  /\ timer' = IF TimeOut = 0 THEN timer ELSE caller[at[t].id].due
  /\ at' = [at EXCEPT ![t] = Idle]
  /\ UNCHANGED <<sequenceId, pending, overlapped, job, seen, slot, worldVars, histVars>>

-----------------------------------------------------------------------------
(* The server.                                                             *)

Attach ==
  /\ ~server /\ server' = TRUE /\ service = "up"
  /\ UNCHANGED <<sequenceId, pending, at, overlapped, asked, service, now, jobVars, histVars>>

\* Its successor knows nothing of its calls.
Detach ==
  /\ server /\ server' = FALSE /\ asked' = {}
  /\ UNCHANGED <<sequenceId, pending, at, overlapped, service, now, jobVars, histVars>>

\* The client's own id replaces that of the bridge.
AnswerFor(id) == [kind |-> "answer", channel |-> pending[id].channel, seq |-> pending[id].seq]

Answered(id) == Without({id}, pending)

\* Inbound, RustResponse.  An id that is not pending (any more) changes nothing.
Answer(id) ==
  /\ id \in asked /\ service = "up"
  /\ id \in DOMAIN pending
  /\ replies' = [replies EXCEPT ![id] = Append(@, AnswerFor(id))]
  /\ pending' = Answered(id)
  /\ overlapped' = overlapped \cup Emplacing
  /\ UNCHANGED <<sequenceId, at, jobVars, worldVars, caller>>

-----------------------------------------------------------------------------
(* The job, Dispatch().                                                    *)

JobStarts ==
  /\ timer # Never /\ timer <= now /\ job = "idle"
  /\ timer' = Never /\ job' = "scan" /\ seen' = now
  /\ UNCHANGED <<sequenceId, pending, at, overlapped, slot, worldVars, histVars>>

Expired == {i \in DOMAIN pending : seen >= pending[i].due}

\* The first of the times that are left, if any.
NextSlots ==
  LET left == {pending[i].due : i \in DOMAIN pending \ Expired} IN
  IF left = {} THEN {Never} ELSE {d \in left : \A e \in left : d <= e}

\* Iteration orders of the table.
Orders == LET S == DOMAIN pending IN Bijection(S, 1 .. Cardinality(S))

\* The reply goes to where the iterator points after the erase: the channel
\* of the next entry or, after the last one, whatever is there.
ChannelAfter(i, order, garbage) ==
  IF \E j \in DOMAIN pending : order[j] = order[i] + 1
    THEN pending[CHOOSE j \in DOMAIN pending : order[j] = order[i] + 1].channel
    ELSE garbage

RepliesAfterScan(order, garbage) ==
  [i \in Ids |->
     IF i \in Expired
       THEN Append(replies[i], [kind |-> "timeout", seq |-> pending[i].seq,
                                channel |-> ChannelAfter(i, order, garbage)])
       ELSE replies[i]]

JobScans ==
  /\ job = "scan" /\ (Expired # {} => service = "up")
  /\ \E order \in Orders, garbage \in Channels \cup {Nobody} :
       replies' = RepliesAfterScan(order, garbage)
  /\ pending' = Without(Expired, pending)
  /\ overlapped' = IF Expired = {} THEN overlapped ELSE overlapped \cup Emplacing
  /\ slot' \in NextSlots /\ job' = "reschedule" /\ seen' = 0
  /\ UNCHANGED <<sequenceId, at, timer, worldVars, caller>>

\* Mutant: the job does not schedule itself.
JobEnds ==
  /\ job = "reschedule" /\ job' = "idle" /\ slot' = Never
  /\ UNCHANGED <<sequenceId, pending, at, overlapped, timer, seen, worldVars, histVars>>

\* After the lock has been released.
JobReschedules ==
  /\ job = "reschedule" /\ job' = "idle" /\ slot' = Never
  /\ timer' = IF slot = Never THEN timer ELSE slot
  /\ UNCHANGED <<sequenceId, pending, at, overlapped, seen, worldVars, histVars>>

-----------------------------------------------------------------------------
(* The plugin is deinitialized: _service is released, the server gone; what *)
(* it has answered may still be under way, and so are calls and the job.    *)

Deinitialize ==
  /\ service = "up" /\ service' = "released" /\ server' = FALSE
  /\ UNCHANGED <<sequenceId, pending, at, overlapped, asked, now, jobVars, histVars>>

\* Submit through a null pointer: a call that is being forwarded, an answer
\* that was under way, or a time-out.
UsesReleasedService ==
  \/ \E t \in Threads : at[t].pc = "forward"
  \/ asked \cap DOMAIN pending # {}
  \/ job = "scan" /\ Expired # {}

Crash ==
  /\ service = "released" /\ UsesReleasedService /\ service' = "crashed"
  /\ UNCHANGED <<sequenceId, pending, at, overlapped, server, asked, now, jobVars, histVars>>

Tick ==
  /\ now < MaxTime /\ now' = now + 1
  /\ UNCHANGED <<sequenceId, pending, at, overlapped, server, asked, service, jobVars, histVars>>

Invoke(t) == \/ \E c \in Channels, s \in Seqs : InvokeStarts(t, c, s)
             \/ InvokeEmplaces(t) \/ InvokeForwards(t) \/ InvokeArms(t)
Job       == JobStarts \/ JobScans \/ JobReschedules
Server    == Attach \/ Detach \/ \E id \in Ids : Answer(id)

Next ==
  /\ service # "crashed"
  /\ \/ \E t \in Threads : Invoke(t)
     \/ Server \/ Job \/ Deinitialize \/ Crash \/ Tick

\* Threads go on with what they have begun, the pool runs the job when it is
\* due, time passes.  Nothing is asked of clients, server or framework.
Fairness ==
  /\ \A t \in Threads : WF_vars(service # "crashed" /\
                          (InvokeEmplaces(t) \/ InvokeForwards(t) \/ InvokeArms(t)))
  /\ WF_vars(service # "crashed" /\ Job)
  /\ WF_vars(service # "crashed" /\ Tick)

Spec == Init /\ [][Next]_vars /\ Fairness

-----------------------------------------------------------------------------
(* Properties                                                              *)

\* State of the bridge and of its calls.
TypeOK ==
  /\ sequenceId \in 0 .. MaxCalls
  /\ DOMAIN caller = 1 .. sequenceId /\ DOMAIN pending \subseteq 1 .. sequenceId
  /\ \A i \in DOMAIN caller : caller[i] \in Call
  /\ \A i \in DOMAIN pending : pending[i] \in Call
  /\ at \in [Threads -> [pc : {"idle", "emplace", "forward", "arm"}, id : 0 .. sequenceId]]
  /\ overlapped \subseteq Threads
  /\ server \in BOOLEAN /\ asked \subseteq 1 .. sequenceId
  /\ service \in {"up", "released", "crashed"}
  /\ timer \in 0 .. MaxTime \cup {Never} /\ slot \in 0 .. MaxTime \cup {Never}
  /\ job \in {"idle", "scan", "reschedule"} /\ seen \in 0 .. MaxTime /\ now \in 0 .. MaxTime
  /\ replies \in [Ids -> Seq(Reply)]

\* A call gets one reply at most, whatever its server answers and whenever
\* its time is over, and none once it has left the table: an answer after
\* the time-out, or a second one, goes nowhere.
OneReply ==
  \A i \in DOMAIN caller :
    /\ Len(replies[i]) <= 1
    /\ replies[i] # <<>> =>
         /\ i \notin DOMAIN pending
         /\ \A t \in Emplacing : at[t].id # i

\* A call that is in the table leaves it with a reply.
LeavesWithReply ==
  [][\A i \in DOMAIN pending \ DOMAIN pending' : Len(replies'[i]) = Len(replies[i]) + 1]_vars

\* An answer goes to the channel that called, with the id it called with,
\* although other clients call with the same ids at the same time.
AnswerToItsCaller ==
  \A i \in DOMAIN caller : \A k \in 1 .. Len(replies[i]) :
    LET r == replies[i][k] IN
    r.kind = "answer" => r.channel = caller[i].channel /\ r.seq = caller[i].seq

\* With a time-out, the cleaner is scheduled, running, or about to be
\* scheduled whenever a call waits: the reschedules of calls and job, made
\* outside the lock, never cancel each other out.
CleanerWatches ==
  TimeOut # 0 /\ pending # <<>> =>
    \/ timer # Never
    \/ job = "scan"
    \/ job = "reschedule" /\ slot # Never
    \/ \E t \in Threads : at[t].pc \in {"forward", "arm"}

\* With a time-out, a call in the table gets a reply unless the plugin is
\* stopped, with a server that never answers too.
EventuallyReplied ==
  \A i \in Ids : i \in DOMAIN pending ~> (replies[i] # <<>> \/ service # "up")

\* Claimed by Dispatch(), "Send and Error to the requester": a time-out is
\* reported to the channel the call came from.
TimeoutToItsCaller ==
  \A i \in DOMAIN caller : \A k \in 1 .. Len(replies[i]) :
    replies[i][k].channel = caller[i].channel

\* One reply to a call, to the one who called, and somebody who sees to it.
RepliesInOrder == TypeOK /\ OneReply /\ AnswerToItsCaller /\ CleanerWatches

-----------------------------------------------------------------------------
(* Known not to hold, and not checked.                                     *)

\* Claimed by RustBridgeImplementation, "RUST to send a response (with the
\* same id) to complete the a-synchronous request": a call that the server
\* has got and nobody has replied to can be completed by its answer.
AnswerCompletes == \A i \in asked : i \in DOMAIN pending \/ replies[i] # <<>>

\* Asserted by RustResponse: no answer finds the service released.
ServiceForAnswers == service # "up" => asked \cap DOMAIN pending = {}
=============================================================================
