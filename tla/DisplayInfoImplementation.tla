--------------------- MODULE DisplayInfoImplementation ---------------------
(***************************************************************************)
(* DisplayInfo on Linux.  What it tells of the display was read when it    *)
(* was configured or when udev last told of a change: the thread of a      *)
(* socket receives that and posts it to the thread of an EventQueue, which *)
(* reads the connector, the level of HDCP and the EDID again, one by one.  *)
(*                                                                         *)
(* External: udev and the files of the kernel; Core::Thread, which may     *)
(* call a Worker that returned Core::infinite again or not;                *)
(* Core::QueueType, whose Post may refuse at its limit.                    *)
(*                                                                         *)
(* Not so, and not claimed: of two events that are signalled as one        *)
(* (merged) the second stays in the queue until another comes, and what is *)
(* answered stays old; so it does for good when the thread is not called   *)
(* again (sleeps); the EDID is added to the former one, its last byte      *)
(* twice; an event before Configure finds no display (crashed); of two     *)
(* HDMI connectors the last one counts, plugged or not; nobody submits     *)
(* _activity, so that observers hear nothing; the destructor destroys the  *)
(* display before it waits for the thread that reads it.                   *)
(***************************************************************************)
EXTENDS Integers, Sequences, FiniteSetsExt

CONSTANTS Screens,           \* sequences of connectors [type, name, modes], with
                             \* modes [width, height, refresh, preferred]
          Limit,             \* of the queue
          MaxEvents          \* bound: what the hardware does

VARIABLES usePreferredMode,  \* of the configuration
          screen, level,     \* the hardware: connectors; what HDCP came to
          wire,              \* devices udev tells of, in order
          socket, queue, arrived, worker,
          making, display,   \* what Configure constructs; _display
          refused,           \* history: an event was not taken by the queue
          merged,            \* history: an event was signalled before the last signal was taken
          events

displayVars == <<usePreferredMode, screen, level, wire, socket, queue, arrived, worker, making, display,
                 refused, merged, events>>
hardwareVars == <<usePreferredMode, screen, level, wire, events>>
threadVars == <<socket, queue, arrived, worker, refused, merged>>

None == [at |-> "none"]

-----------------------------------------------------------------------------
(* The connector.                                                          *)

LastOf(modes, S) == IF S = {} THEN {} ELSE {modes[Max(S)]}

Area(m) == m.width * m.height

\* Of the largest modes the last one.
BestMode(modes) ==
  LastOf(modes, {i \in DOMAIN modes : \A j \in DOMAIN modes : Area(modes[j]) <= Area(modes[i])})

PreferredMode(modes) == LastOf(modes, {i \in DOMAIN modes : modes[i].preferred})

\* The set of its mode; empty: not connected.
InitializeWithConnector(c) ==
  IF usePreferredMode THEN PreferredMode(c.modes) ELSE BestMode(c.modes)

HDMI(s) == {i \in DOMAIN s : s[i].type = "HDMIA"}

DRMConnector(s) ==
  IF HDMI(s) = {} THEN {} ELSE InitializeWithConnector(s[Max(HDMI(s))])

HDCP(l) == IF l = "22 succeed" THEN "HDCP_2X" ELSE IF l = "14 succeed" THEN "HDCP_1X"
           ELSE "HDCP_Unencrypted"

\* The file is read to its end, which comes after the last byte: that byte
\* counts twice, and of an empty file there is one all the same.
Bytes(s) ==
  IF DRMConnector(s) = {} THEN <<"undefined">>
  ELSE LET name == s[Max(HDMI(s))].name IN <<name, name>>

\* _edid is not cleared, but where the file does not open.
EDID(old, s) == {<<>>, old \o Bytes(s)}

-----------------------------------------------------------------------------
(* The hardware and udev.                                                  *)

Tells(device) ==
  /\ events < MaxEvents /\ events' = events + 1
  /\ wire' = Append(wire, device)
  /\ UNCHANGED <<usePreferredMode, threadVars, making, display>>

\* A new connection has to authenticate.
Plug(s) ==
  /\ s # screen /\ Tells("drm_minor")
  /\ screen' = s /\ level' = "failed"

Authenticate(l) == l # level /\ Tells("hdcp") /\ level' = l /\ UNCHANGED screen

OtherDevice == Tells("disk") /\ UNCHANGED <<screen, level>>

-----------------------------------------------------------------------------
(* The thread of the socket.                                               *)

\* Register: a callback for a device type, once.
Registered == {"drm_minor", "hdcp"}

Source(device) == IF device = "hdcp" THEN "HDCP_CHANGE" ELSE "HDMI_CHANGE"

ReceiveData ==
  /\ socket = None /\ wire # <<>>
  /\ wire' = Tail(wire)
  /\ socket' = IF Head(wire) \in Registered
                 THEN [at |-> "posts", source |-> Source(Head(wire))] ELSE None
  /\ UNCHANGED <<usePreferredMode, screen, level, events, queue, arrived, worker, refused, merged, making, display>>

Post ==
  /\ socket.at = "posts"
  /\ \/ /\ Len(queue) < Limit
        /\ queue' = Append(queue, socket.source) /\ socket' = [socket EXCEPT !.at = "sets"]
        /\ UNCHANGED refused
     \/ /\ Len(queue) = Limit
        /\ refused' = TRUE /\ socket' = None /\ UNCHANGED queue
  /\ UNCHANGED <<hardwareVars, arrived, worker, merged, making, display>>

SetEvent ==
  /\ socket.at = "sets" /\ socket' = None
  /\ arrived' = TRUE /\ merged' = (merged \/ arrived)
  /\ UNCHANGED <<hardwareVars, queue, worker, refused, making, display>>

-----------------------------------------------------------------------------
(* Worker.                                                                 *)

Lock ==
  /\ worker = "waits" /\ arrived /\ worker' = "woken"
  /\ UNCHANGED <<hardwareVars, socket, queue, arrived, refused, merged, making, display>>

ResetEvent ==
  /\ worker = "woken" /\ worker' = "extracts" /\ arrived' = FALSE
  /\ UNCHANGED <<hardwareVars, socket, queue, refused, merged, making, display>>

\* The pointer is used whether there is a display or not.
Extract ==
  /\ worker = "extracts" /\ queue # <<>>
  /\ queue' = Tail(queue)
  /\ worker' = IF display = None THEN "crashed"
               ELSE IF Head(queue) = "HDCP_CHANGE" THEN "authenticates" ELSE "queries"
  /\ UNCHANGED <<hardwareVars, socket, arrived, refused, merged, making, display>>

Returns == worker' \in {"waits", "sleeps"}

\* Mutant: a new display keeps the level of the former one.
RequeriesNoLevel == worker' = "reads"

\* RequeryProperties goes on.
Requeries == worker' = "reauthenticates"

QueryDisplayProperties ==
  /\ worker = "queries" /\ Requeries
  /\ display' = [display EXCEPT !.connector = DRMConnector(screen)]
  /\ UNCHANGED <<hardwareVars, socket, queue, arrived, refused, merged, making>>

Reauthenticate ==
  /\ \/ worker = "authenticates" /\ Returns
     \/ worker = "reauthenticates" /\ worker' = "reads"
  /\ display' = [display EXCEPT !.hdcp = HDCP(level)]
  /\ UNCHANGED <<hardwareVars, socket, queue, arrived, refused, merged, making>>

QueryEDID ==
  /\ worker = "reads" /\ Returns
  /\ \E edid \in EDID(display.edid, screen) : display' = [display EXCEPT !.edid = edid]
  /\ UNCHANGED <<hardwareVars, socket, queue, arrived, refused, merged, making>>

-----------------------------------------------------------------------------
(* Configure constructs a DisplayProperties, which reads as well.          *)

Configure ==
  /\ making = None /\ display = None
  /\ making' = [at |-> "reauthenticates", connector |-> DRMConnector(screen),
                hdcp |-> "HDCP_Unencrypted", edid |-> <<>>]
  /\ UNCHANGED <<hardwareVars, threadVars, display>>

Configures ==
  /\ making.at = "reauthenticates"
  /\ making' = [making EXCEPT !.at = "reads", !.hdcp = HDCP(level)]
  /\ UNCHANGED <<hardwareVars, threadVars, display>>

ConfigureReturns ==
  /\ making.at = "reads" /\ making' = None
  /\ \E edid \in EDID(<<>>, screen) :
       display' = [making EXCEPT !.at = "made", !.edid = edid]
  /\ UNCHANGED <<hardwareVars, threadVars>>

-----------------------------------------------------------------------------
Init ==
  /\ usePreferredMode \in BOOLEAN
  /\ screen \in Screens /\ level = "failed" /\ wire = <<>>
  /\ socket = None /\ queue = <<>> /\ arrived = FALSE /\ worker = "waits"
  /\ making = None /\ display = None /\ refused = FALSE /\ merged = FALSE /\ events = 0

Next ==
  \/ \E s \in Screens : Plug(s)
  \/ \E l \in {"22 succeed", "14 succeed", "failed"} : Authenticate(l)
  \/ OtherDevice
  \/ ReceiveData \/ Post \/ SetEvent
  \/ Lock \/ ResetEvent \/ Extract \/ QueryDisplayProperties \/ Reauthenticate \/ QueryEDID
  \/ Configure \/ Configures \/ ConfigureReturns

Spec == Init /\ [][Next]_displayVars

-----------------------------------------------------------------------------
\* What the plugin answers, of a connector and of a display; without a display
\* that is ERROR_UNAVAILABLE.
Size(connector) ==
  IF connector = {} THEN <<0, 0, 0>>
  ELSE LET m == CHOOSE n \in connector : TRUE IN <<m.width, m.height, m.refresh>>

Answer == [connected |-> display.connector # {}, size |-> Size(display.connector),
           hdcp |-> display.hdcp]

Ends(s, t) ==
  Len(s) <= Len(t) /\ \A i \in 1 .. Len(s) : t[Len(t) - Len(s) + i] = s[i]

\* Nothing is on its way, and the thread waits for the next event.
AtRest == wire = <<>> /\ socket = None /\ ~arrived /\ worker = "waits"

\* Whatever the hardware did while the threads were busy: once they are at rest
\* what the plugin answers of the connection and of its protection is so now,
\* and the EDID, if there is one, ends with that of the same display; unless
\* the queue refused an event or two were signalled as one (Post, Worker,
\* RequeryProperties).
FreshAtRest ==
  display # None /\ AtRest /\ ~refused /\ ~merged =>
    /\ Answer.size = Size(DRMConnector(screen))
    /\ Answer.hdcp = HDCP(level)
    /\ display.edid # <<>> => Ends(Bytes(screen), display.edid)

\* The thread never waits in the queue, where the destructor, which only sets
\* the event, would not wake it (Post, Worker, ~EventQueue).
ExtractNeverWaits == worker = "extracts" => queue # <<>>

\* What is answered, and the thread behind it.
DisplayIsKnown == FreshAtRest /\ ExtractNeverWaits
=============================================================================
