----------------------------- MODULE BridgeLink -----------------------------
(***************************************************************************)
(* BridgeLink: the plugins of another Thunder, shown here.  A connector     *)
(* opens a channel to the other side and tries again when that fails or    *)
(* breaks.  Over it come events: plugins are created, change state, are    *)
(* destroyed.  The link keeps them in three maps under its lock, and one    *)
(* job reports from these to the callback, outside of the lock.            *)
(*                                                                         *)
(* External: the other Thunder (announces what it has when we register,    *)
(* then tells of every change and waits for its handler, so that they come *)
(* in order), the worker pool (runs the handlers: one that it holds when   *)
(* the channel closes is run all the same, some time later; what the other *)
(* side could not send is lost) and this Thunder, which sets and resets    *)
(* the callback at any moment and calls Deinitialize once.                 *)
(***************************************************************************)
EXTENDS Naturals, Sequences, SequencesExt

CONSTANTS Callsigns,
          MaxRetries,   \* 255: for ever
          MaxEvents,    \* bound: events under way
          MaxChanges    \* bound: changes at the other side, broken channels, sinks reset

VARIABLES
  remote,      \* callsign -> "absent", or the state at the other side
  channel,     \* "closed"; "opening", in Register before there is a controller;
               \* "broken" there; "open", with a controller; "dead", with one but broken
  connecting,  \* the job of the connector is scheduled
  retries,
  events,      \* under way: [event, callsign], the first one with the worker pool
  late,        \* events of closed channels that the worker pool still holds
  created,     \* _created: callsigns
  shells,      \* _externalShells: callsign -> proxy, Nowhere if there is none
  destructed,  \* _destructed: callsigns
  callback,    \* a sink is set
  submitted,   \* the job of the link is submitted
  pc,          \* of the job: [at, callsign, seen]
  isEmpty,     \* the event
  told,        \* what the sink was told last of a callsign
  overtaken,   \* history: proxies created before the destruction of their predecessor
               \* was reported
  strays,      \* history: callsigns of the late events since the maps were emptied
  known,       \* history: some plugin was told of
  phase,       \* "up" "revoked" "closed" "flushed" "down", or "crashed"
  changes

linkVars == <<created, shells, destructed, callback, submitted, pc, isEmpty, told, overtaken,
              strays, known>>
vars == <<remote, channel, connecting, retries, events, late, linkVars, phase, changes>>

States == {"DEACTIVATED", "ACTIVATED", "UNAVAILABLE"}

Nowhere == [state |-> "none", report |-> "none", listed |-> FALSE]

\* A new ShellProxy: no state yet, and nothing to report.
Proxy == [Nowhere EXCEPT !.listed = TRUE]

Listed == {c \in Callsigns : shells[c].listed}

At(at, c) == [at |-> at, callsign |-> c, seen |-> "none"]

None == CHOOSE c \in Callsigns : TRUE
Idle == At("idle", None)

Alive == phase \notin {"down", "crashed"}

Init ==
  /\ remote \in [Callsigns -> {"absent", "DEACTIVATED", "ACTIVATED"}]
  /\ channel = "closed" /\ connecting = TRUE /\ retries = MaxRetries
  /\ events = <<>> /\ late = {} /\ strays = {}
  /\ created = {} /\ shells = [c \in Callsigns |-> Nowhere] /\ destructed = {}
  /\ callback = FALSE /\ submitted = FALSE /\ pc = Idle /\ isEmpty = FALSE
  /\ told = [c \in Callsigns |-> "none"] /\ overtaken = {} /\ known = FALSE
  /\ phase = "up" /\ changes = 0

-----------------------------------------------------------------------------
(* The other side.                                                         *)

Event(e, c) == [event |-> e, callsign |-> c]

Change(c, s, e) ==
  /\ changes < MaxChanges /\ changes' = changes + 1 /\ Alive
  /\ remote' = [remote EXCEPT ![c] = s]
  /\ IF channel = "open"
     THEN Len(events) < MaxEvents /\ events' = Append(events, Event(e, c))
     ELSE UNCHANGED events
  /\ UNCHANGED <<channel, connecting, retries, late, linkVars, phase>>

RemoteChange ==
  \E c \in Callsigns :
    \/ remote[c] = "absent" /\ Change(c, "DEACTIVATED", "Created")
    \/ remote[c] = "DEACTIVATED" /\ Change(c, "absent", "Destroy")
    \/ remote[c] = "DEACTIVATED" /\ Change(c, "ACTIVATED", "Activated")
    \/ remote[c] = "DEACTIVATED" /\ Change(c, "UNAVAILABLE", "Unavailable")
    \/ remote[c] \in {"ACTIVATED", "UNAVAILABLE"} /\ Change(c, "DEACTIVATED", "Deactivated")

\* What the other side announces: every plugin, then those that are active.
Announced ==
  LET all == SetToSeq({c \in Callsigns : remote[c] # "absent"})
      active == SetToSeq({c \in Callsigns : remote[c] = "ACTIVATED"})
  IN  [i \in 1..Len(all) |-> Event("Created", all[i])]
      \o [i \in 1..Len(active) |-> Event("Activated", active[i])]

-----------------------------------------------------------------------------
(* The connector.                                                          *)

\* Dispatch runs; Open of the channel succeeds.
Open ==
  /\ connecting /\ Alive /\ channel = "closed"
  /\ channel' = "opening" /\ connecting' = FALSE
  /\ UNCHANGED <<remote, retries, events, late, linkVars, phase, changes>>

\* The controller is found, and told to notify us.
Register ==
  /\ channel = "opening" /\ Alive
  /\ channel' = "open" /\ retries' = MaxRetries /\ events' = Announced
  /\ UNCHANGED <<remote, connecting, late, linkVars, phase, changes>>

\* StateChange of the channel, while there is no controller yet: nothing is done.
Break ==
  /\ channel = "opening" /\ channel' = "broken"
  /\ changes < MaxChanges /\ changes' = changes + 1
  /\ UNCHANGED <<remote, connecting, retries, events, late, linkVars, phase>>

\* Register goes on: if it has the interfaces already, it keeps the controller
\* and succeeds.
BrokenUnseen ==
  /\ channel = "broken" /\ Alive
  /\ channel' = "dead" /\ retries' = MaxRetries
  /\ UNCHANGED <<remote, connecting, events, late, linkVars, phase, changes>>

Retry ==
  /\ connecting' = (retries > 0)
  /\ retries' = IF retries \in {0, 255} THEN retries ELSE retries - 1

\* The channel could not be opened, or broke before the interfaces were there.
ConnectFailed ==
  /\ (connecting /\ channel = "closed") \/ channel = "broken"
  /\ Alive /\ channel' = "closed" /\ Retry
  /\ UNCHANGED <<remote, events, late, linkVars, phase, changes>>

\* Mutant: nobody is told to report that.
FlushQuietly ==
  /\ created' = {}
  /\ destructed' = destructed \cup Listed
  /\ shells' = [c \in Callsigns |-> Nowhere]
  /\ overtaken' = {} /\ strays' = {}
  /\ UNCHANGED submitted

\* Flush: all that was reported is destructed, the rest is forgotten.
Flush ==
  /\ created' = {}
  /\ destructed' = destructed \cup Listed
  /\ shells' = [c \in Callsigns |-> Nowhere]
  /\ overtaken' = {} /\ strays' = {}
  /\ submitted' = (submitted \/ destructed' # {})

\* What the worker pool holds: late events, and the next one of the channel.
Held == late \cup {Head(q) : q \in {events} \ {<<>>}}

\* StateChange of the channel, Closed.
Closed ==
  /\ channel = "open" /\ Alive /\ changes < MaxChanges /\ changes' = changes + 1
  /\ channel' = "closed" /\ events' = <<>> /\ late' \in {late, Held}
  /\ connecting' = TRUE /\ Flush
  /\ UNCHANGED <<remote, retries, callback, pc, isEmpty, told, known, phase>>

-----------------------------------------------------------------------------
(* The handlers of the events, each under the lock of the link.            *)

Receive(event, e) ==
  /\ Alive /\ e \in Held /\ e.event = event
  /\ \/ /\ events # <<>> /\ e = Head(events) /\ events' = Tail(events)
        /\ UNCHANGED <<late, strays>>
     \/ /\ e \in late /\ late' = late \ {e}
        /\ strays' = IF event \in {"Created", "Destroy"} THEN strays \cup {e.callsign} ELSE strays
        /\ UNCHANGED events
  /\ UNCHANGED <<remote, channel, connecting, retries, callback, pc, told, phase, changes>>

Created(e) ==
  /\ Receive("Created", e) /\ known' = TRUE
  /\ created' = created \cup {e.callsign}
  /\ isEmpty' = (isEmpty /\ e.callsign \in created)
  /\ submitted' = TRUE
  /\ UNCHANGED <<shells, destructed, overtaken>>

\* Gone before it was reported, or to be reported as gone; a callsign that
\* still waits for that is not entered again.
DestroyEntry(c) ==
  IF c \in created
  THEN /\ created' = created \ {c}
       /\ isEmpty' = (isEmpty \/ (Listed = {} /\ created' = {} /\ destructed = {}))
       /\ UNCHANGED <<shells, destructed, overtaken>>
  ELSE /\ destructed' = destructed \cup ({c} \cap Listed)
       /\ shells' = [shells EXCEPT ![c] = Nowhere]
       /\ overtaken' = overtaken \ {c}
       /\ UNCHANGED <<created, isEmpty>>

Destroy(e) ==
  Receive("Destroy", e) /\ DestroyEntry(e.callsign) /\ submitted' = TRUE /\ UNCHANGED known

\* A change is noted unless it is the state that was reported last; whether
\* another one is noted already is not looked at.
Noted(c, s) ==
  /\ IF shells[c].listed /\ shells[c].state # s
     THEN shells' = [shells EXCEPT ![c].report = s] /\ submitted' = TRUE
     ELSE UNCHANGED <<shells, submitted>>
  /\ UNCHANGED <<created, destructed, isEmpty, overtaken, known>>

Activated(e)   == Receive("Activated", e) /\ Noted(e.callsign, "ACTIVATED")
Deactivated(e) == Receive("Deactivated", e) /\ Noted(e.callsign, "DEACTIVATED")
Unavailable(e) == Receive("Unavailable", e) /\ Noted(e.callsign, "UNAVAILABLE")

Events ==
  \E e \in Held : Created(e) \/ Destroy(e) \/ Activated(e) \/ Deactivated(e) \/ Unavailable(e)

-----------------------------------------------------------------------------
(* The job of the link.                                                    *)

outside == <<remote, channel, connecting, retries, events, late, callback, strays, known, phase,
             changes>>

Start ==
  /\ submitted /\ pc.at = "idle"
  /\ submitted' = FALSE /\ pc' = At("destructed", None)
  /\ UNCHANGED <<outside, created, shells, destructed, isEmpty, told, overtaken>>

\* First the destroyed ones.
TakeDestructed(c) ==
  /\ pc.at = "destructed" /\ c \in destructed
  /\ destructed' = destructed \ {c}
  /\ pc' = IF callback THEN At("Destroy", c) ELSE pc
  /\ UNCHANGED <<outside, created, shells, submitted, isEmpty, told, overtaken>>

CallDestroy ==
  /\ pc.at = "Destroy" /\ callback /\ pc' = At("destructed", None)
  /\ told' = [told EXCEPT ![pc.callsign] = "none"]
  /\ UNCHANGED <<outside, created, shells, destructed, submitted, isEmpty, overtaken>>

DestructedDone ==
  /\ pc.at = "destructed" /\ destructed = {} /\ pc' = At("created", None)
  /\ UNCHANGED <<outside, created, shells, destructed, submitted, isEmpty, told, overtaken>>

\* Then the created ones, those too that came meanwhile; one that is listed
\* already keeps its entry, and the sink is told of a proxy that nobody lists.
TakeCreated(c) ==
  /\ pc.at = "created" /\ c \in created
  /\ created' = created \ {c}
  /\ shells' = IF c \in Listed THEN shells ELSE [shells EXCEPT ![c] = Proxy]
  /\ overtaken' = IF c \in destructed THEN overtaken \cup {c} ELSE overtaken
  /\ pc' = IF callback THEN At(IF c \in Listed THEN "Created" ELSE "Load", c) ELSE pc
  /\ UNCHANGED <<outside, destructed, submitted, isEmpty, told>>

\* What the plugin of a proxy answers: a destroyed one passes for deactivated,
\* over a channel that is closed there is no answer, and that is UNAVAILABLE.
Answers(c) ==
  IF channel # "open" THEN {"UNAVAILABLE"}
  ELSE {IF remote[c] = "absent" THEN "DEACTIVATED" ELSE remote[c]}
       \cup {s \in {"UNAVAILABLE"} : c \in strays}

\* Load asks the other side, and notes the answer in a step of its own; a
\* proxy that was unlinked meanwhile is not asked.
LoadAsk ==
  /\ pc.at = "Load"
  /\ \E s \in IF shells[pc.callsign].listed THEN Answers(pc.callsign) ELSE {"none"} :
       pc' = [pc EXCEPT !.at = "Created", !.seen = s]
  /\ UNCHANGED <<outside, created, shells, destructed, submitted, isEmpty, told, overtaken>>

CallCreated ==
  /\ pc.at = "Created" /\ callback /\ pc' = At("created", None)
  /\ shells' = IF pc.seen # "none" /\ shells[pc.callsign].listed
               THEN [shells EXCEPT ![pc.callsign].report = pc.seen] ELSE shells
  /\ told' = [told EXCEPT ![pc.callsign] = "created"]
  /\ UNCHANGED <<outside, created, destructed, submitted, isEmpty, overtaken>>

CreatedDone ==
  /\ pc.at = "created" /\ created = {} /\ pc' = At("report", None)
  /\ UNCHANGED <<outside, created, shells, destructed, submitted, isEmpty, told, overtaken>>

\* Mutant: the change stays noted, and the state as it was.
Forgotten(p) == [p EXCEPT !.report = p.state]

\* Report: the noted change becomes the state.
Reported(p) == [p EXCEPT !.state = p.report]

\* Finally the changes.
TakeChange(c) ==
  /\ pc.at = "report" /\ shells[c].listed /\ shells[c].report # shells[c].state
  /\ shells' = [shells EXCEPT ![c] = Reported(@)]
  /\ pc' = IF callback THEN [At("Change", c) EXCEPT !.seen = shells[c].report] ELSE pc
  /\ UNCHANGED <<outside, created, destructed, submitted, isEmpty, told, overtaken>>

CallChange ==
  /\ pc.at = "Change" /\ callback /\ pc' = At("report", None)
  /\ told' = [told EXCEPT ![pc.callsign] = pc.seen]
  /\ UNCHANGED <<outside, created, shells, destructed, submitted, isEmpty, overtaken>>

End ==
  /\ pc.at = "report" /\ \A c \in Listed : shells[c].report = shells[c].state
  /\ pc' = Idle
  /\ isEmpty' = (isEmpty \/ (Listed = {} /\ created = {} /\ destructed = {}))
  /\ UNCHANGED <<outside, created, shells, destructed, submitted, told, overtaken>>

\* The sink is looked at again outside of the lock: one that was reset meanwhile
\* is called all the same.
Crash ==
  /\ pc.at \in {"Destroy", "Created", "Change"} /\ ~callback /\ phase' = "crashed"
  /\ UNCHANGED <<remote, channel, connecting, retries, events, late, linkVars, changes>>

Dispatch ==
  /\ Alive
  /\ \/ Start \/ CallDestroy \/ DestructedDone \/ LoadAsk \/ CallCreated \/ CreatedDone
     \/ CallChange \/ End \/ Crash
     \/ \E c \in Callsigns : TakeDestructed(c) \/ TakeCreated(c) \/ TakeChange(c)

-----------------------------------------------------------------------------
(* The plugin.                                                             *)

\* What a new sink is told of a proxy: one whose state was never loaded is
\* deactivated.
Told(p) == IF ~p.listed THEN "none"
           ELSE IF p.state = "none" THEN "DEACTIVATED" ELSE p.state

Subscribe ==
  /\ ~callback /\ callback' = TRUE /\ Alive
  /\ told' = [c \in Callsigns |-> Told(shells[c])]
  /\ UNCHANGED <<remote, channel, connecting, retries, events, late, created, shells, destructed,
                 submitted, pc, isEmpty, overtaken, strays, known, phase, changes>>

\* The sink is reset under the lock, whatever the job does.
Unsubscribe ==
  /\ callback /\ callback' = FALSE /\ Alive
  /\ changes < MaxChanges /\ changes' = changes + 1
  /\ UNCHANGED <<remote, channel, connecting, retries, events, late, created, shells, destructed,
                 submitted, pc, isEmpty, told, overtaken, strays, known, phase>>

Callback == Subscribe \/ Unsubscribe

\* The job of the connector is waited for.
Revoke ==
  /\ phase = "up" /\ phase' = "revoked" /\ connecting' = FALSE
  /\ channel \notin {"opening", "broken"}
  /\ UNCHANGED <<remote, channel, retries, events, late, linkVars, changes>>

\* One that Closed scheduled meanwhile may be in Register, and goes on there.
Close ==
  /\ phase = "revoked" /\ phase' = "closed"
  /\ channel' = IF channel \in {"opening", "broken"} THEN "broken" ELSE "closed"
  /\ events' = <<>> /\ late' \in {late, Held}
  /\ UNCHANGED <<remote, connecting, retries, linkVars, changes>>

FlushAll ==
  /\ phase = "closed" /\ phase' = "flushed" /\ Flush
  /\ UNCHANGED <<remote, channel, connecting, retries, events, late, callback, pc, isEmpty, told,
                 known, changes>>

\* The wait for the event ends.
Down ==
  /\ phase = "flushed" /\ isEmpty /\ phase' = "down"
  /\ UNCHANGED <<remote, channel, connecting, retries, events, late, linkVars, changes>>

Deinitialize == Revoke \/ Close \/ FlushAll \/ Down

Connect == Open \/ Register \/ BrokenUnseen \/ ConnectFailed

Next ==
  \/ RemoteChange \/ Connect \/ Break \/ Closed
  \/ Events \/ Dispatch \/ Callback \/ Deinitialize

\* Jobs run, events arrive, and Deinitialize goes on when it can; whether and
\* when it is called, and what happens at the other side, is not assumed.
Spec ==
  /\ Init /\ [][Next]_vars
  /\ WF_vars(Connect) /\ WF_vars(Events) /\ WF_vars(Dispatch)
  /\ WF_vars(Close \/ FlushAll \/ Down)

-----------------------------------------------------------------------------
(* Properties.                                                             *)

\* What the assertions of Created and Destroy say of an event.
Fits(e) ==
  /\ e.event = "Created" => e.callsign \notin created \cup Listed
  /\ e.event = "Destroy" => e.callsign \in created \cup Listed

\* What is created is new to the link and what is destroyed is known to it,
\* although the channel breaks and the other side announces everything again;
\* until Deinitialize empties the maps, which a connector that was rescheduled
\* in between may fill again.  Only a callsign of which an event of an earlier
\* channel came late is exempt, until the maps are emptied the next time.
EventsFit ==
  events # <<>> /\ phase \in {"up", "revoked", "closed"} /\ Head(events).callsign \notin strays
    => Fits(Head(events))

\* The state that a proxy shows is the one that the sink was told last
\* (Report, Dispatch): whenever no call is under way for it, and unless the
\* destruction of its predecessor was reported after its creation, or a late
\* event had it created twice.
StateAsReported ==
  callback =>
    \A c \in Listed \ (overtaken \cup strays) :
      \/ pc.callsign = c /\ pc.at \in {"Load", "Created", "Change"}
      \/ told[c] = shells[c].state
      \/ shells[c].state = "none" /\ told[c] \in {"created", "DEACTIVATED"}

\* Every destruction is reported (or its callsign is back), and Deinitialize
\* returns once that is done: if there ever was a plugin to wait for, the
\* channel was not opened again after the connector was revoked, and the worker
\* pool held no event that came after the maps were emptied.
Drained ==
  /\ \A c \in Callsigns : c \in destructed /\ Alive ~> c \notin destructed \/ ~Alive
  /\ phase = "flushed" ~> ~Alive \/ ~known \/ channel = "open" \/ strays # {}

\* The link and its clients agree on the plugins that there are.
InStep == EventsFit /\ StateAsReported

-----------------------------------------------------------------------------
(* Known not to hold, and not checked.                                     *)

\* As the assertions of Created and Destroy have it for every event.
AssertionsHold == phase \in {"up", "revoked"} => \A e \in Held : Fits(e)

\* As the comments of Dispatch have it: the destroyed are reported first, and
\* then the created.
DestroyedFirst == overtaken = {}

\* As the comments of Dispatch have it: the sink is not reset while the job runs.
SinkStays == pc.at \in {"Destroy", "Created", "Change"} => callback

\* As the comment of Closed has it: without a channel that works the connector
\* is in its retry loop, as long as it has retries.
TriesAgain ==
  phase = "up" /\ channel \in {"closed", "dead"} => connecting \/ retries = 0
=============================================================================
