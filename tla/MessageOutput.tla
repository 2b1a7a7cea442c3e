--------------------------- MODULE MessageOutput ---------------------------
(***************************************************************************)
(* The outputs that MessageControl hands messages to, and that keep a      *)
(* state: the web socket, whose channels each choose what is told of a     *)
(* message, and the UDP channel, which is open while there is a network.   *)
(*                                                                         *)
(* Not so, and not claimed: LineNumber and FileName share a bit, so that a *)
(* channel that turns line numbers off loses the file names as well, and   *)
(* one that asks for file names is told that it has line numbers.          *)
(***************************************************************************)
EXTENDS Naturals, SequencesExt

CONSTANTS Channels,            \* of the web socket
          Limit,               \* maxexportconnections
          Mentions,            \* bound: sets of options that a command mentions
          MaxQueue             \* bound: messages in the queue of the UDP channel

VARIABLES
  server,    \* _server is not null
  options,   \* channel of _channels -> bits of _outputOptions
  reply,     \* history: channel -> options that it was last told to be on
  snapshot,  \* cachedList: channels and fields not yet submitted, with the reply
             \* that was the last one when the list was made (history)
  kind,      \* history: of the message in the snapshot
  network,   \* the subsystem NETWORK
  udp,       \* "none", or the UDP channel is "closed" or "open"
  queue      \* its _queue: numbers of messages

outputVars == <<server, options, reply, snapshot, kind, network, udp, queue>>
exportVars == <<server, options, reply, snapshot, kind>>
udpVars    == <<network, udp, queue>>

-----------------------------------------------------------------------------
(* The options of a channel.                                               *)

\* ExtraOutputOptions.
Bits ==
  [FileName |-> {0}, LineNumber |-> {0, 1}, ClassName |-> {2}, Module |-> {3},
   Category |-> {4}, Callsign |-> {5}, IncludingDate |-> {6}, ProcessId |-> {7},
   ProcessName |-> {8}, Paused |-> {11}]

AllOptions == 0 .. 10

OptionNames == DOMAIN Bits

IsOn(bits, o) == bits \cap Bits[o] # {}

\* The setter of an option.
Switch(bits, o, on) == IF on THEN bits \cup Bits[o] ELSE bits \ Bits[o]

\* A command names the options to switch on and off.
Commands == UNION {{[on |-> on, off |-> m \ on] : on \in SUBSET m} : m \in Mentions}

\* What Received does about an option.
Turned(bits, o, command) ==
  IF o \in command.on \cup command.off THEN Switch(bits, o, o \in command.on) ELSE bits

\* Received: one option after the other; the file name comes before the line
\* number.
Commanded(bits, command) ==
  LET T(b, o) == Turned(b, o, command)
      Places == T(T(T(bits, "FileName"), "LineNumber"), "ClassName")
      Names  == T(T(T(Places, "Category"), "Module"), "Callsign")
      Process == T(T(Names, "ProcessId"), "ProcessName")
  IN T(T(Process, "IncludingDate"), "Paused")

Kinds == {"TRACING", "REPORTING", "ASSERT", "LOGGING"}

\* What a message has to tell.
Provided(k) ==
  {"Category", "Module", "IncludingDate"} \cup
  CASE k = "TRACING"   -> {"FileName", "LineNumber", "ClassName"}
    [] k = "REPORTING" -> {"Callsign"}
    [] k = "ASSERT"    -> {"ProcessId", "ProcessName", "FileName", "LineNumber"}
    [] OTHER           -> {}

\* Mutant: a line number is told if all its bits are there.
ConvertExactly(bits, k) == {o \in Provided(k) : Bits[o] \subseteq bits}

Convert(bits, k) == {o \in Provided(k) : IsOn(bits, o)}

-----------------------------------------------------------------------------
(* The web socket.                                                         *)

Initialize ==
  /\ ~server /\ server' = TRUE /\ udp' = IF network THEN "open" ELSE "closed"
  /\ UNCHANGED <<options, reply, snapshot, kind, network, queue>>

\* MessageControl holds _outputLock, and the worker while it hands out a message.
Deinitialize ==
  /\ server /\ snapshot = {} /\ server' = FALSE /\ options' = << >> /\ reply' = << >>
  /\ udp' = "none" /\ queue' = << >>
  /\ UNCHANGED <<snapshot, kind, network>>

\* An answer FALSE closes the channel.
Attach(id) ==
  /\ id \notin DOMAIN options /\ server /\ Cardinality(DOMAIN options) < Limit
  /\ options' = [c \in DOMAIN options \cup {id} |-> IF c = id THEN AllOptions ELSE options[c]]
  /\ reply' = [c \in DOMAIN options \cup {id} |->
                 IF c = id THEN OptionNames \ {"Paused"} ELSE reply[c]]
  /\ UNCHANGED <<server, snapshot, kind, udpVars>>

Detach(id) ==
  /\ id \in DOMAIN options
  /\ options' = [c \in DOMAIN options \ {id} |-> options[c]]
  /\ reply' = [c \in DOMAIN options \ {id} |-> reply[c]]
  /\ UNCHANGED <<server, snapshot, kind, udpVars>>

Received(id, command) ==
  /\ id \in DOMAIN options
  /\ options' = [options EXCEPT ![id] = Commanded(@, command)]
  /\ reply' = [reply EXCEPT ![id] = {o \in OptionNames : IsOn(options'[id], o)}]
  /\ UNCHANGED <<server, snapshot, kind, udpVars>>

\* The list is made under the lock, and sent without it.
Message(k) ==
  /\ server /\ snapshot = {} /\ kind' = k
  /\ snapshot' = {[id |-> c, fields |-> Convert(options[c], k), told |-> reply[c]] :
                    c \in {d \in DOMAIN options : ~IsOn(options[d], "Paused")}}
  /\ UNCHANGED <<server, options, reply, udpVars>>

Submit(entry) ==
  /\ entry \in snapshot /\ snapshot' = snapshot \ {entry}
  /\ UNCHANGED <<server, options, reply, kind, udpVars>>

-----------------------------------------------------------------------------
(* The UDP channel.                                                        *)

\* Updated: the channel follows the network.  What it has queued stays.
UpdateChannel ==
  /\ network' = ~network
  /\ udp' = IF udp = "none" THEN "none" ELSE IF network' THEN "open" ELSE "closed"
  /\ UNCHANGED <<exportVars, queue>>

Output ==
  /\ udp = "open" /\ Len(queue) < MaxQueue
  /\ queue' = Append(queue, IF queue = << >> THEN 1 ELSE (Last(queue) % MaxQueue) + 1)
  /\ UNCHANGED <<exportVars, network, udp>>

SendData ==
  /\ udp = "open" /\ queue # << >> /\ queue' = Tail(queue)
  /\ UNCHANGED <<exportVars, network, udp>>

-----------------------------------------------------------------------------

Init ==
  /\ server = FALSE /\ options = << >> /\ reply = << >> /\ snapshot = {} /\ kind = "LOGGING"
  /\ network = FALSE /\ udp = "none" /\ queue = << >>

Export ==
  \/ Initialize \/ Deinitialize
  \/ \E id \in Channels : Attach(id) \/ Detach(id)
  \/ \E k \in Kinds : Message(k)
  \/ \E entry \in snapshot : Submit(entry)

Command == \E id \in Channels : \E command \in Commands : Received(id, command)

Datagrams == UpdateChannel \/ Output \/ SendData

Next == Export \/ Command \/ Datagrams

Spec == Init /\ [][Next]_outputVars

-----------------------------------------------------------------------------

\* A channel is sent what it was last told that it would be sent: the answer
\* to a command and the messages after it read the same bits in the same way,
\* whatever was commanded since the channel came.
RepliesMatchExports ==
  \A entry \in snapshot : entry.fields = Provided(kind) \cap entry.told

\* A command changes the options that it names and, if it names the line
\* number or the file name, these two.
CommandsAreLocal ==
  snapshot = {} => \A id \in DOMAIN options, command \in Commands :
    LET pair  == {"FileName", "LineNumber"}
        named == command.on \cup command.off
        may   == IF named \cap pair = {} THEN named ELSE named \cup pair
        after == {o \in OptionNames : IsOn(Commanded(options[id], command), o)}
    IN  /\ after \ may = reply[id] \ may
        /\ command.on \ pair \subseteq after
        /\ (command.off \ pair) \cap after = {}

\* A channel gets what it asked for, no more and no less.
ChannelsGetWhatTheyAsk == RepliesMatchExports /\ CommandsAreLocal
=============================================================================
