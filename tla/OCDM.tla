-------------------------------- MODULE OCDM --------------------------------
(***************************************************************************)
(* OCDM: sessions of a DRM system for clients in other processes.  A       *)
(* session has a buffer, shared with its client, and a thread that decrypts*)
(* the samples which the client puts there.                                *)
(*                                                                         *)
(* External: the DRM system, which owns the media key sessions and calls   *)
(* back on a thread of its own, until Run(nullptr) returns; the clients;   *)
(* the semaphores in the shared buffer.                                    *)
(***************************************************************************)
EXTENDS Integers, FiniteSets

CONSTANTS Sessions,     \* every session that is ever created
          MaxBuffers    \* bits of _occupation

ASSUME BuffersAssumption == MaxBuffers \in Nat \ {0}

Buffers == 0 .. MaxBuffers - 1
NoBuffer == -1

VARIABLES
  phase,        \* of a SessionImplementation, see below
  sessionList,  \* AccessorOCDM::_sessionList
  occupation,   \* BufferAdministrator::_occupation
  buffer,       \* session -> number of its _buffer
  thread,       \* "none", "waits", "decrypts" or "stopped"
  stop,         \* sessions whose thread was told to stop
  sample,       \* sessions whose buffer is signalled
  media,        \* sessions whose media key session exists
  calls         \* sessions whose client the DRM system is calling

bufferVars  == <<occupation, buffer>>
threadVars  == <<thread, stop, sample>>
vars == <<phase, sessionList, bufferVars, threadVars, media, calls>>

(***************************************************************************)
(* "none", "runs" (constructed), "listed" (and CreateSession tells the     *)
(* client, with _adminLock), "open", "released" by its client, "removed"   *)
(* (Remove is done), "stops" (~DataExchange waits), "gone".                *)
(***************************************************************************)
Goes(s, from, to) == phase[s] = from /\ phase' = [phase EXCEPT ![s] = to]

\* AccessorOCDM::_adminLock is free.
Unlocked == \A s \in Sessions : phase[s] # "listed"

Init ==
  /\ phase = [s \in Sessions |-> "none"] /\ sessionList = {}
  /\ occupation = {} /\ buffer = [s \in Sessions |-> NoBuffer]
  /\ thread = [s \in Sessions |-> "none"] /\ stop = {} /\ sample = {}
  /\ media = {} /\ calls = {}

-----------------------------------------------------------------------------
(* CreateSession.                                                          *)

Constructs(s) ==
  /\ Goes(s, "none", "runs")
  /\ media' = media \cup {s}
  /\ UNCHANGED <<sessionList, bufferVars, threadVars, calls>>

\* The client is told of the keys that are in the initialization data.
Lists(s) ==
  /\ Unlocked /\ sessionList' = sessionList \cup {s}
  /\ Goes(s, "runs", "listed") \/ Goes(s, "runs", "open")
  /\ UNCHANGED <<bufferVars, threadVars, media, calls>>

TellsPending(s) ==
  /\ Goes(s, "listed", "open")
  /\ UNCHANGED <<sessionList, bufferVars, threadVars, media, calls>>

-----------------------------------------------------------------------------
(* The buffer and its thread.                                              *)

\* AcquireBuffer takes the first that is free.
FirstFree(b) == b \notin occupation /\ \A c \in Buffers : c < b => c \in occupation

\* Mutant: the bit is not set.
NotOccupied(b) == occupation

Occupied(b) == occupation \cup {b}

CreateSessionBuffer(s) ==
  /\ phase[s] = "open" /\ buffer[s] = NoBuffer
  /\ \E b \in Buffers :
       /\ FirstFree(b) /\ occupation' = Occupied(b)
       /\ buffer' = [buffer EXCEPT ![s] = b]
  /\ thread' = [thread EXCEPT ![s] = "waits"]
  /\ UNCHANGED <<phase, sessionList, stop, sample, media, calls>>

ClientProduces(s) ==
  /\ phase[s] = "open" /\ thread[s] = "waits" /\ sample' = sample \cup {s}
  /\ UNCHANGED <<phase, sessionList, bufferVars, thread, stop, media, calls>>

\* RequestConsume returns; a thread that was told to stop does not decrypt.
Decrypts(s) ==
  /\ thread[s] = "waits" /\ s \in sample
  /\ thread' = [thread EXCEPT ![s] = IF s \in stop THEN "stopped" ELSE "decrypts"]
  /\ UNCHANGED <<phase, sessionList, bufferVars, stop, sample, media, calls>>

\* Consumed(), unless it was signalled once more by ~DataExchange.
Consumes(s) ==
  /\ thread[s] = "decrypts"
  /\ thread' = [thread EXCEPT ![s] = IF s \in stop THEN "stopped" ELSE "waits"]
  /\ sample' = sample \ {s}
  /\ UNCHANGED <<phase, sessionList, bufferVars, stop, media, calls>>

-----------------------------------------------------------------------------
(* The DRM system calls back.                                              *)

\* A key message, an error or a status for the client...
OnKeyMessage(s) ==
  /\ s \in media /\ s \notin calls /\ calls' = calls \cup {s}
  /\ UNCHANGED <<phase, sessionList, bufferVars, threadVars, media>>

\* ...who returns.
Called(s) ==
  /\ s \in calls /\ calls' = calls \ {s}
  /\ UNCHANGED <<phase, sessionList, bufferVars, threadVars, media>>

-----------------------------------------------------------------------------
(* The end of a session: ~SessionImplementation.                           *)

\* By the client, or for one that died.
Release(s) ==
  /\ Goes(s, "open", "released")
  /\ UNCHANGED <<sessionList, bufferVars, threadVars, media, calls>>

\* ReleaseBuffer.
Freed(b) == occupation \ {b}

\* Run(nullptr) waits for a call that is under way.
Remove(s) ==
  /\ Unlocked /\ s \notin calls
  /\ Goes(s, "released", "removed")
  /\ media' = media \ {s} /\ sessionList' = sessionList \ {s}
  /\ occupation' = Freed(buffer[s])
  /\ UNCHANGED <<buffer, threadVars, calls>>

\* Mutant: the thread is not woken.
NotProduced(s) == sample

Produced(s) == sample \cup {s}

\* ~DataExchange, if there is one.
StopsThread(s) ==
  /\ buffer[s] # NoBuffer /\ Goes(s, "removed", "stops")
  /\ stop' = stop \cup {s} /\ sample' = Produced(s)
  /\ UNCHANGED <<sessionList, bufferVars, thread, media, calls>>

Destructed(s) ==
  /\ \/ buffer[s] = NoBuffer /\ Goes(s, "removed", "gone")
     \/ thread[s] = "stopped" /\ Goes(s, "stops", "gone")
  /\ UNCHANGED <<sessionList, bufferVars, threadVars, media, calls>>

-----------------------------------------------------------------------------
Creates(s) == Constructs(s) \/ Lists(s) \/ TellsPending(s)
Worker(s) == Decrypts(s) \/ Consumes(s)
Ends(s) == Remove(s) \/ StopsThread(s) \/ Destructed(s)
Client(s) == CreateSessionBuffer(s) \/ ClientProduces(s) \/ Release(s)

Next == \E s \in Sessions :
          \/ Creates(s) \/ Worker(s) \/ Ends(s) \/ Client(s)
          \/ OnKeyMessage(s) \/ Called(s)

\* Threads run, clients return from their callbacks, and the mutex and the DRM
\* system let in who asks again and again.
Progress(s) == TellsPending(s) \/ Worker(s) \/ StopsThread(s) \/ Destructed(s)
Fairness == \A s \in Sessions :
  WF_vars(Progress(s)) /\ WF_vars(Called(s)) /\ SF_vars(Remove(s))

Spec == Init /\ [][Next]_vars /\ Fairness

-----------------------------------------------------------------------------
(* Properties                                                              *)

\* Every buffer that is handed out belongs to one session which has not ended,
\* whichever sessions ask for a buffer and end at the same time: two clients
\* never share one, and none is lost.
BuffersOwned ==
  /\ occupation = {buffer[s] : s \in {t \in sessionList : buffer[t] # NoBuffer}}
  /\ \A s, t \in sessionList : buffer[s] = buffer[t] /\ s # t => buffer[s] = NoBuffer

\* A session that its client released is destructed, in whatever state its
\* thread is: ~DataExchange waits for the thread without a limit, which itself
\* waits for a sample without a limit.
SessionEnds == \A s \in Sessions : phase[s] = "released" ~> phase[s] = "gone"

-----------------------------------------------------------------------------
(* Known not to hold, and not checked.                                     *)

\* "this needs to be done in a thread safe way": Remove destroys the media key
\* session while the thread decrypts with it.
DecryptsLiveSession == \A s \in Sessions : thread[s] = "decrypts" => s \in media

\* The name of a buffer is given to the next session while the thread of the
\* last still waits in it.
OneThreadPerBuffer ==
  \A s, t \in Sessions :
    s # t /\ buffer[s] = buffer[t] /\ thread[s] = "waits" /\ thread[t] = "waits"
      => buffer[s] = NoBuffer
=============================================================================
