--------------------------- MODULE DeviceSettings ---------------------------
(***************************************************************************)
(* DisplayInfo and PlayerInfo on a box with the DeviceSettings library.    *)
(* Events come on a thread of IARM, find the object through a static       *)
(* pointer and are told under its lock.  Questions take no lock: each is a *)
(* few calls to the library, any of which may throw, while displays and    *)
(* cables come and go between them.  Library and bus are external.         *)
(***************************************************************************)
EXTENDS Naturals, Sequences, SequencesExt

CONSTANTS Observers, PortLists,
          MaxEvents   \* bound: events

VARIABLES
  plugin,      \* "DisplayInfo" or "PlayerInfo"
  object,      \* "new", "half" constructed, "there", "half gone", "gone", "crashed"
  instance,    \* _instance is not null
  handlers,    \* the handlers are registered with IARM
  observers,   \* _observers
  handler,     \* the thread of IARM: [at, event, index]; it has the lock while "telling"
  handled,     \* history: events that took the lock
  heard,       \* history: observer -> events it was told since it registered
  since,       \* history: observer -> how many were handled before that
  display,     \* a display is connected
  list,        \* audio ports, in the library's order
  connected,   \* those that have something connected
  ask          \* the question under way and its answer

eventVars == <<instance, handlers, observers, handler, handled, heard, since>>
answerVars == <<display, connected, ask>>
settingsVars == <<plugin, object, eventVars, list, answerVars>>

Resting == [at |-> "none", event |-> "none", index |-> 0]
NoQuestion == [what |-> "none", at |-> "none", port |-> "none", index |-> 0, seen |-> {},
               result |-> "none", value |-> "none"]

Init ==
  /\ plugin \in {"DisplayInfo", "PlayerInfo"} /\ object = "new" /\ instance = FALSE /\ handlers = FALSE
  /\ observers = <<>> /\ handler = Resting /\ handled = <<>>
  /\ heard = [o \in Observers |-> <<>>] /\ since = [o \in Observers |-> 0]
  /\ display = FALSE /\ list \in PortLists /\ connected = {} /\ ask = NoQuestion

-----------------------------------------------------------------------------
(* The object: one plugin can be found before it listens, the other after. *)

Listens == handlers' = TRUE /\ UNCHANGED instance
Found == instance' = TRUE /\ UNCHANGED handlers

Construct ==
  /\ \/ object = "new" /\ object' = "half" /\ IF plugin = "DisplayInfo" THEN Found ELSE Listens
     \/ object = "half" /\ object' = "there" /\ IF plugin = "DisplayInfo" THEN Listens ELSE Found
  /\ UNCHANGED <<plugin, list, observers, handler, handled, heard, since, answerVars>>

Destruct ==
  /\ \/ object = "there" /\ object' = "half gone" /\ handlers' = FALSE /\ UNCHANGED instance
     \/ object = "half gone" /\ object' = "gone" /\ instance' = FALSE /\ UNCHANGED handlers
  /\ UNCHANGED <<plugin, list, observers, handler, handled, heard, since, answerVars>>

Locked == handler.at = "telling"

Register(o) ==
  /\ object = "there" /\ ~Locked /\ ~Contains(observers, o)
  /\ observers' = Append(observers, o)
  /\ heard' = [heard EXCEPT ![o] = <<>>] /\ since' = [since EXCEPT ![o] = Len(handled)]
  /\ UNCHANGED <<plugin, object, instance, handlers, handler, handled, list, answerVars>>

Unregister(o) ==
  /\ object = "there" /\ ~Locked
  /\ \E i \in 1 .. Len(observers) : observers[i] = o /\ observers' = RemoveAt(observers, i)
  /\ UNCHANGED <<plugin, object, instance, handlers, handler, handled, heard, since, list, answerVars>>

-----------------------------------------------------------------------------
(* An event.                                                               *)

Kinds == IF plugin = "DisplayInfo" THEN {"PRE_RESOLUTION_CHANGE", "POST_RESOLUTION_CHANGE"}
                                   ELSE {"AudioModeChanged"}

Raised ==
  /\ handlers /\ handler = Resting /\ Len(handled) < MaxEvents
  /\ \E e \in Kinds : handler' = [at |-> "called", event |-> e, index |-> 1]
  /\ UNCHANGED <<plugin, object, instance, handlers, observers, handled, heard, since, list, answerVars>>

\* The static function looks for the object, and uses it later: the object
\* may be gone by then.
Looks ==
  /\ handler.at = "called"
  /\ handler' = IF instance THEN [handler EXCEPT !.at = "found"] ELSE Resting
  /\ UNCHANGED <<plugin, object, instance, handlers, observers, handled, heard, since, list, answerVars>>

Locks ==
  /\ handler.at = "found"
  /\ IF object = "gone"
     THEN object' = "crashed" /\ UNCHANGED <<handler, handled>>
     ELSE /\ handler' = [handler EXCEPT !.at = "telling"] /\ handled' = Append(handled, handler.event)
          /\ UNCHANGED object
  /\ UNCHANGED <<plugin, instance, handlers, observers, heard, since, list, answerVars>>

Tells ==
  /\ handler.at = "telling"
  /\ IF object = "gone"
     THEN object' = "crashed" /\ UNCHANGED <<handler, heard>>
     ELSE /\ UNCHANGED object
          /\ IF handler.index > Len(observers)
             THEN handler' = Resting /\ UNCHANGED heard
             ELSE /\ heard' = [heard EXCEPT ![observers[handler.index]] = Append(@, handler.event)]
                  /\ handler' = [handler EXCEPT !.index = @ + 1]
  /\ UNCHANGED <<plugin, instance, handlers, observers, handled, since, list, answerVars>>

Events ==
  /\ object # "crashed"
  /\ \/ Construct \/ Destruct \/ Raised \/ Looks \/ Locks \/ Tells
     \/ \E o \in Observers : Register(o) \/ Unregister(o)

-----------------------------------------------------------------------------
(* Questions to DisplayInfo.                                               *)

\* With no display they fail.
OfOutput == {"ColorSpace", "ColourDepth", "QuantizationRange", "EOTF"}
OfEdid == {"EDID", "Colorimetry", "WidthInCentimeters", "VerticalFreq"}
Strict == OfOutput \cup OfEdid
\* They say "off" with no display, and when the library throws.
Capabilities == {"HDRSetting", "TVCapabilities", "STBCapabilities"}
\* They succeed whatever happens, and may leave their answer as it was.
Lenient == {"HeightInCentimeters", "HDCPProtection"}
\* They fail only when the library throws.
Plain == {"Connected", "IsAudioPassthrough", "FrameRate"}

Answer(result, value) == ask' = [ask EXCEPT !.at = "answered", !.result = result, !.value = value]

WithoutDisplay(what) ==
  CASE what \in Strict -> Answer("ERROR_GENERAL", "unset")
    [] what \in Capabilities -> Answer("ERROR_NONE", "off")
    [] what \in Lenient -> Answer("ERROR_NONE", "unset")
    [] what \in Plain -> Answer("ERROR_NONE", "no display")

Throws(what) ==
  IF what \in Strict \cup Plain THEN Answer("ERROR_GENERAL", "unset") ELSE WithoutDisplay(what)

\* isDisplayConnected, or a call that does not care.
LooksForDisplay ==
  /\ ask.what \in Strict \cup Capabilities \cup Lenient \cup Plain /\ ask.at = "asked"
  /\ \/ Throws(ask.what)
     \/ IF display \/ ask.what = "STBCapabilities" THEN ask' = [ask EXCEPT !.at = "looked"]
                                                   ELSE WithoutDisplay(ask.what)

\* The display may have been unplugged since: then the library throws.
ReadsDisplay ==
  /\ ask.at = "looked"
  /\ \/ Throws(ask.what)
     \/ (display \/ ask.what = "STBCapabilities") /\ Answer("ERROR_NONE", "read")

-----------------------------------------------------------------------------
(* Questions to PlayerInfo: which port is meant.                           *)

Has(p) == Contains(list, p)
Main == IF Has("HDMI0") THEN "HDMI0" ELSE "SPEAKER0"

\* ARC is asked if the box has it, connected or not; and then the box itself.
AtmosMetadata == IF Has("HDMI_ARC0") THEN "HDMI_ARC0" ELSE "HDMI0"

Audio == {"SoundMode", "AtmosMetadata", "IsAudioEquivalenceEnabled", "EnableAtmosOutput"}

\* To choose one for the sound mode takes a look at each, the other questions
\* go by what the box has.
ChoosesPort ==
  /\ ask.what \in Audio /\ ask.at = "asked"
  /\ ask' = CASE ask.what = "SoundMode" -> [ask EXCEPT !.at = "choosing", !.port = Main, !.index = 1]
              [] ask.what = "AtmosMetadata" -> [ask EXCEPT !.at = "chosen", !.port = AtmosMetadata]
              [] OTHER -> [ask EXCEPT !.at = "chosen", !.port = Main]

\* The next port of the list, if it is SPDIF or ARC and connected by now: the
\* loop goes on after SPDIF, and ends at ARC.  Here too the library may throw.
LooksAtPort ==
  /\ ask.at = "choosing"
  /\ \/ Answer("ERROR_NONE", "UNKNOWN")
     \/ ask.index > Len(list) /\ ask' = [ask EXCEPT !.at = "chosen"]
     \/ /\ ask.index <= Len(list)
        /\ LET p == list[ask.index] IN
           ask' = IF p \in {"SPDIF0", "HDMI_ARC0"} /\ p \in connected
                  THEN [ask EXCEPT !.port = p, !.seen = @ \cup {p}, !.index = @ + 1,
                                   !.at = IF p = "HDMI_ARC0" THEN "chosen" ELSE @]
                  ELSE [ask EXCEPT !.index = @ + 1]

\* What is answered with nothing connected to the port.
Unplugged(what) ==
  CASE what = "SoundMode" -> "UNKNOWN" [] what = "AtmosMetadata" -> "host" [] OTHER -> "nothing"

\* A box without HDMI has its speakers, and needs no port to set Atmos.
Heard(what) ==
  CASE what = "IsAudioEquivalenceEnabled" /\ ~Has("HDMI0") -> "SPEAKER0"
    [] what = "EnableAtmosOutput" /\ ~Has("HDMI0") -> "host"
    [] OTHER -> IF ask.port \in connected THEN ask.port ELSE Unplugged(what)

ReadsPort ==
  /\ ask.at = "chosen"
  /\ \/ Answer("ERROR_NONE", Heard(ask.what))
     \/ Answer("ERROR_NONE", IF ask.what = "SoundMode" THEN "UNKNOWN" ELSE "nothing")

Ask ==
  /\ object = "there" /\ ask.at \in {"none", "answered"}
  /\ \E what \in IF plugin = "DisplayInfo" THEN Strict \cup Capabilities \cup Lenient \cup Plain ELSE Audio :
       ask' = [NoQuestion EXCEPT !.what = what, !.at = "asked"]

Plugged ==
  /\ \/ display' = ~display /\ UNCHANGED connected
     \/ \E p \in ToSet(list) : /\ connected' = IF p \in connected THEN connected \ {p} ELSE connected \cup {p}
                               /\ UNCHANGED display
  /\ UNCHANGED ask

Answers ==
  /\ \/ Plugged
     \/ /\ Ask \/ LooksForDisplay \/ ReadsDisplay \/ ChoosesPort \/ LooksAtPort \/ ReadsPort
        /\ UNCHANGED <<display, connected>>
  /\ UNCHANGED <<plugin, object, eventVars, list>>

-----------------------------------------------------------------------------
(* Properties.                                                             *)

\* Every observer is told each event that comes while it is registered, once
\* and in order: the change of resolution that is coming before the one that
\* has come (ResolutionChangeImpl, audiomodeChanged).
ObserversHear ==
  \A i \in 1 .. Len(observers) :
    LET o == observers[i]
        told == SubSeq(handled, since[o] + 1, Len(handled)) IN
    heard[o] = IF Locked /\ i >= handler.index THEN SubSeq(told, 1, Len(told) - 1) ELSE told

\* A question that succeeds has an answer, with the two exceptions above; the
\* sound mode is that of ARC if it was seen connected, before SPDIF, before
\* the main port, whatever was plugged and unplugged meanwhile.
AnswersAreMeant ==
  /\ (ask.at = "answered" /\ ask.value = "unset") => ask.result # "ERROR_NONE" \/ ask.what \in Lenient
  /\ (ask.at = "answered" /\ ask.what = "SoundMode" /\ ask.value # "UNKNOWN") =>
       ask.value = CASE "HDMI_ARC0" \in ask.seen -> "HDMI_ARC0"
                     [] "HDMI_ARC0" \notin ask.seen /\ "SPDIF0" \in ask.seen -> "SPDIF0"
                     [] OTHER -> Main

SettingsAreTold == ObserversHear /\ AnswersAreMeant

-----------------------------------------------------------------------------
(* Known not to hold, and not checked.                                     *)

\* An event that has found the object does not find it gone.
HandlerIsSafe == object # "crashed"
=============================================================================
