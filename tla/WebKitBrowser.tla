--------------------------- MODULE WebKitBrowser ---------------------------
(***************************************************************************)
(* WebKitImplementation: the browser.  WebKit may only be called by the    *)
(* thread that runs the main loop (Worker).  A caller therefore posts what *)
(* it wants to that thread's context and returns; the state changes, and   *)
(* the observers are told, when the loop comes to it.  Two watchdogs look  *)
(* after the loop itself and after the process that renders the page.      *)
(*                                                                         *)
(* External: WebKit, its web process, and GLib, whose contexts serve what  *)
(* was posted in order and whose g_main_context_invoke runs in line on the *)
(* thread that owns the context.                                           *)
(***************************************************************************)
EXTENDS Integers, Sequences, FiniteSets

CONSTANTS Values, URLs,           \* of a setting; to load
          Http,                   \* URLs that have "http" in them
          Threshold, Timeout,     \* of the watchdogs, in seconds; 0: none
          BlankOnSuspend,         \* loadblankpageonsuspendenabled
          MaxInputs,              \* bound: inputs of WebKit and replies
          MaxExpired              \* bound: expiries in a row of the watchdog's job

ASSUME WatchAssumption == Threshold \in Nat /\ Timeout \in Nat
ASSUME BoundAssumption ==
  /\ MaxInputs \in Nat /\ MaxExpired \in Nat
  /\ BlankOnSuspend \in BOOLEAN

Blank == "about:blank"

ASSUME URLAssumption == /\ "none" \notin URLs   \* no load
                        /\ Http \subseteq URLs /\ Blank \notin Http

\* IStateControl, IStateController, IWebBrowser, IBrowser and IApplication.
Kinds    == {"control", "controller", "web", "browser", "application"}
Watchers == {"web", "browser", "application"}   \* of the visibility
Fields   == {"headers", "userAgent", "localStorage", "cookiePolicy", "languages"}
Policies == {"always", "never", "mainDocument", "exclusivelyMainDocument"}

VARIABLES
  object,       \* "alive", "blocked", "quitting", "waiting" or "gone"
  worker,       \* "none", "context", "view", "ready", "looping" or "ended"
  quit,         \* the loop was told to quit while it ran
  posted,       \* the sources of the context, in order
  state, hidden, url, status, ignoreLoadFinished,
  field,        \* the settings, of the getters and of WebKit
  view,         \* what WebKit's view was last told: suspended, hidden
  loading,      \* URL that WebKit loads
  finishing,    \* how the loads under way will end, in order
  told,         \* kind -> what its observer was last told
  checking, unresponsive, expired,
  killed,       \* the web process was sent a signal
  asked,        \* reasons a job was submitted for that deactivates the browser
  accepted,     \* history: the state that the last accepted request asks for
  silent,       \* history: unresponsive replies since the last responsive one
  finished,     \* history: URL of the last LoadFinished that was told, and how many were
  inputs

pageVars   == <<url, status, ignoreLoadFinished, loading, finishing, finished>>
watchVars  == <<checking, unresponsive, expired, killed, asked, silent>>
threadVars == <<object, worker, quit>>
vars == <<threadVars, posted, state, hidden, pageVars, field, view, told,
          watchVars, accepted, inputs>>

\* WebKitImplementation(): nothing runs, and nobody watches.
Init ==
  /\ object = "alive" /\ worker = "none" /\ quit = FALSE /\ posted = <<>>
  /\ state = "UNKNOWN" /\ hidden = FALSE
  /\ url \in URLs /\ status = -1 /\ ignoreLoadFinished = FALSE
  /\ field = [f \in Fields |-> "configured"]
  /\ view = [suspended |-> FALSE, hidden |-> FALSE]
  /\ loading = "none" /\ finishing = <<>> /\ finished = [url |-> "none", times |-> 0]
  /\ told = [k \in Kinds |-> "absent"]
  /\ checking = FALSE /\ unresponsive = 0 /\ expired = 0
  /\ killed = FALSE /\ asked = {}
  /\ accepted = "none" /\ silent = 0 /\ inputs = 0

HasContext == worker # "none"
Watched    == Threshold # 0 /\ Timeout # 0

\* kWebProcessUnresponsiveReplyDefaultLimit.
Limit == Threshold \div Timeout

-----------------------------------------------------------------------------
(* Callers.                                                                *)

Call ==
  /\ object = "alive" /\ inputs < MaxInputs /\ inputs' = inputs + 1

\* Mutant: the newest call is served first.
PushedInFront(op) == <<op>> \o posted

Push(op) == Append(posted, op)

\* A call that is posted to the main loop; without one it has no effect.
Post(op) ==
  /\ Call
  /\ posted' = IF HasContext THEN Push(op) ELSE posted
  /\ UNCHANGED <<threadVars, state, hidden, pageVars, field, view, told,
                 watchVars, accepted>>

\* The properties of the browser: the setter posts, the getter reads field.
Set(f, v) == Post([op |-> "set", field |-> f, value |-> v])

HeaderList == \E v \in Values : Set("headers", v)
UserAgent  == \E v \in Values : Set("userAgent", v)
LocalStorageEnabled == \E v \in Values : Set("localStorage", v)

\* Language: an array that cannot be parsed is refused.
Language == \E v \in Values : Set("languages", v)

\* What WebKit knows: the last two are one.
TranslatePolicy(p) == IF p = "exclusivelyMainDocument" THEN "mainDocument" ELSE p

HTTPCookieAcceptPolicy ==
  \E p \in Policies : Set("cookiePolicy", TranslatePolicy(p))

URL == \E u \in URLs : Post([op |-> "url", value |-> u])

BridgeReply == Post([op |-> "toPage", what |-> "reply"])
BridgeEvent == Post([op |-> "toPage", what |-> "event"])

RunJavaScript        == Post([op |-> "script", what |-> "run"])
AddUserScript        == Post([op |-> "script", what |-> "add"])
RemoveAllUserScripts == Post([op |-> "script", what |-> "remove"])
CollectGarbage       == Post([op |-> "script", what |-> "collect"])

Hide == Post([op |-> "visible", value |-> FALSE])
Show == Post([op |-> "visible", value |-> TRUE])

\* Suspend() and Resume(), with _adminLock held: a browser without a main loop
\* is in that state at once.
Move(s) ==
  IF HasContext THEN posted' = Push([op |-> "move", to |-> s]) /\ UNCHANGED state
                ELSE state' = s /\ UNCHANGED posted

Suspend == Move("SUSPENDED")
Resume  == Move("RESUMED")

\* A request for the state that the browser has is an ERROR_ILLEGAL_STATE.
Acceptable(s) == state # s

\* Request: before the browser works it only notes what is wanted.
Request(s) ==
  /\ Call
  /\ Acceptable(s)
  /\ accepted' = s
  /\ IF state = "UNKNOWN" THEN state' = s /\ UNCHANGED posted
     ELSE IF s = "SUSPENDED" THEN Suspend ELSE Resume
  /\ UNCHANGED <<threadVars, hidden, pageVars, field, view, told, watchVars>>

\* The lists of observers, under _adminLock.  A sink is told what happens from
\* then on, not what is.
Register(k) ==
  /\ Call /\ told[k] = "absent"
  /\ told' = [told EXCEPT ![k] = "none"]
  /\ UNCHANGED <<threadVars, posted, state, hidden, pageVars, field, view,
                 watchVars, accepted>>

Unregister(k) ==
  /\ Call /\ told[k] # "absent"
  /\ told' = [told EXCEPT ![k] = "absent"]
  /\ UNCHANGED <<threadVars, posted, state, hidden, pageVars, field, view,
                 watchVars, accepted>>

StateControlSinks    == Register("control")     \/ Unregister("control")
StateControllerSinks == Register("controller")  \/ Unregister("controller")
WebBrowserSinks      == Register("web")         \/ Unregister("web")
BrowserSinks         == Register("browser")     \/ Unregister("browser")
ApplicationSinks     == Register("application") \/ Unregister("application")

Tell(t, kinds, what) ==
  [k \in Kinds |-> IF k \in kinds /\ t[k] # "absent" THEN what ELSE t[k]]

-----------------------------------------------------------------------------
(* What the thread of the main loop does.  A browser is what its observers *)
(* can see: the state, and what they were told of it.                      *)

OnStateChange(b, s) ==
  IF b.state = s THEN b
  ELSE [state |-> s, told |-> Tell(b.told, {"control"}, s)]

\* After OnStateChange it finds the state it came for, and tells nobody.
OnStateChanged(b, s) ==
  IF b.state = s THEN b
  ELSE [state |-> s, told |-> Tell(b.told, {"controller"}, s)]

BothChange(b, s) == OnStateChanged(OnStateChange(b, s), s)

Seen(b) == state' = b.state /\ told' = b.told

\* webkit_web_view_load_uri: WebKit gives up the load it is busy with.
LoadURI(u) ==
  /\ url' = u /\ status' = -1 /\ loading' = u
  /\ finishing' = IF loading = "none" THEN finishing ELSE Append(finishing, "cancelled")
  /\ UNCHANGED <<ignoreLoadFinished, finished>>

\* One question at a time.
CheckWebProcess == checking' = TRUE

ServeSet(o) ==
  /\ field' = [field EXCEPT ![o.field] = o.value]
  /\ UNCHANGED <<quit, state, hidden, pageVars, view, told, checking>>

ServeURL(o) ==
  /\ LoadURI(o.value)
  /\ UNCHANGED <<quit, state, hidden, field, view, told, checking>>

\* Messages to the page and scripts: the browser keeps nothing of them.
ServePage(o) ==
  UNCHANGED <<quit, state, hidden, pageVars, field, view, told, checking>>

Sight(h) == IF h THEN "hidden" ELSE "shown"

\* Hidden().
HiddenTold(h) == IF h = hidden THEN told ELSE Tell(told, Watchers, Sight(h))

ServeVisible(o) ==
  /\ view' = [view EXCEPT !.hidden = ~o.value]
  /\ hidden' = ~o.value /\ told' = HiddenTold(~o.value)
  /\ UNCHANGED <<quit, state, pageVars, field, checking>>

\* The lambda of Suspend(); URL runs in line here.
ServeSuspend ==
  /\ IF BlankOnSuspend /\ url # Blank THEN LoadURI(Blank) ELSE UNCHANGED pageVars
  /\ view' = [view EXCEPT !.suspended = TRUE]
  /\ Seen(BothChange([state |-> state, told |-> told], "SUSPENDED"))
  /\ CheckWebProcess
  /\ UNCHANGED <<quit, hidden, field>>

ServeResume ==
  /\ view' = [view EXCEPT !.suspended = FALSE]
  /\ Seen(BothChange([state |-> state, told |-> told], "RESUMED"))
  /\ UNCHANGED <<quit, hidden, pageVars, field, checking>>

ServeQuit ==
  /\ quit' = TRUE
  /\ UNCHANGED <<state, hidden, pageVars, field, view, told, checking>>

\* The loop comes to the oldest source.
Serve ==
  /\ worker = "looping" /\ posted # <<>>
  /\ posted' = Tail(posted)
  /\ LET o == Head(posted) IN
       \/ o.op = "set" /\ ServeSet(o)
       \/ o.op = "url" /\ ServeURL(o)
       \/ o.op \in {"toPage", "script"} /\ ServePage(o)
       \/ o.op = "visible" /\ ServeVisible(o)
       \/ o.op = "move" /\ o.to = "SUSPENDED" /\ ServeSuspend
       \/ o.op = "move" /\ o.to = "RESUMED" /\ ServeResume
       \/ o.op = "quit" /\ ServeQuit
  /\ UNCHANGED <<object, worker, unresponsive, expired, killed, asked, silent,
                 accepted, inputs>>

-----------------------------------------------------------------------------
(* The life of the thread.                                                 *)

\* Configure: unless the configuration cannot be read, the thread runs.  The
\* caller waits for _configurationCompleted.
Configure ==
  /\ object = "alive" /\ worker = "none" /\ worker' = "started"
  /\ UNCHANGED <<object, quit, posted, state, hidden, pageVars, field, view,
                 told, watchVars, accepted, inputs>>

\* Worker: the context, the loop and the watchdog, the context of WebKit.
CreateContext ==
  /\ worker = "started" /\ worker' = "context"
  /\ UNCHANGED <<object, quit, posted, state, hidden, pageVars, field, view,
                 told, watchVars, accepted, inputs>>

\* The settings, the view and its signals; then _configurationCompleted.
CreateView ==
  /\ worker = "context" /\ worker' = "ready"
  /\ UNCHANGED <<object, quit, posted, state, hidden, pageVars, field, view,
                 told, watchVars, accepted, inputs>>

\* "Move into the correct state, as requested".
InitialState ==
  LET b == [state |-> "UNKNOWN", told |-> told] IN
    IF state \in {"SUSPENDED", "UNKNOWN"} THEN BothChange(b, "SUSPENDED")
    ELSE OnStateChanged(b, "RESUMED")

Place ==
  /\ worker = "ready" /\ worker' = "placed"
  /\ LoadURI(url)
  /\ Seen(InitialState)
  /\ UNCHANGED <<object, quit, posted, hidden, field, view, watchVars,
                 accepted, inputs>>

RunLoop ==
  /\ worker = "placed" /\ worker' = "looping" /\ quit' = FALSE
  /\ UNCHANGED <<object, posted, state, hidden, pageVars, field, view, told,
                 watchVars, accepted, inputs>>

\* g_main_loop_run returns; the context takes its sources along.
EndLoop ==
  /\ worker = "looping" /\ quit
  /\ worker' = "ended" /\ posted' = <<>>
  /\ UNCHANGED <<object, quit, state, hidden, pageVars, field, view, told,
                 watchVars, accepted, inputs>>

\* ~WebKitImplementation, when the plugin releases it or, from CloseDown, when
\* the process exits.  Nobody calls from now on.
Destruct ==
  /\ object = "alive" /\ worker \notin {"started", "context"}
  /\ object' = "blocked"
  /\ UNCHANGED <<worker, quit, posted, state, hidden, pageVars, field, view,
                 told, watchVars, accepted, inputs>>

\* Mutant: a loop that does not run yet is not waited for.
NoQuitPosted == posted

\* A loop that does not run yet quits when it comes to this source.
QuitPosted ==
  IF HasContext /\ worker # "looping" THEN Append(posted, [op |-> "quit"]) ELSE posted

DestructPosts ==
  /\ object = "blocked" /\ object' = "quitting"
  /\ posted' = QuitPosted
  /\ UNCHANGED <<worker, quit, state, hidden, pageVars, field, view, told,
                 watchVars, accepted, inputs>>

\* g_main_loop_quit, which a loop that does not run yet forgets.
DestructQuits ==
  /\ object = "quitting" /\ object' = "waiting"
  /\ quit' = IF worker = "looping" THEN TRUE ELSE quit
  /\ UNCHANGED <<worker, posted, state, hidden, pageVars, field, view, told,
                 watchVars, accepted, inputs>>

\* The 6 seconds after which it would bail out are left out.
Destructed ==
  /\ object = "waiting" /\ worker \in {"none", "ended"} /\ object' = "gone"
  /\ UNCHANGED <<worker, quit, posted, state, hidden, pageVars, field, view,
                 told, watchVars, accepted, inputs>>

-----------------------------------------------------------------------------
(* The watchdogs.                                                          *)

Detects == Watched /\ worker \in {"context", "ready", "placed", "looping"}

\* CheckResponsiveness: the timer of the main loop.
CheckResponsiveness ==
  /\ Watched /\ worker = "looping" /\ (expired # 0 \/ ~checking)
  /\ expired' = 0 /\ CheckWebProcess
  /\ UNCHANGED <<threadVars, posted, state, hidden, pageVars, field, view, told,
                 unresponsive, killed, asked, silent, accepted, inputs>>

\* HangDetector's job, in the worker pool: the timer must come in between.
HangDetectorDispatch ==
  /\ Detects /\ expired < MaxExpired
  /\ expired' = expired + 1
  /\ asked' = IF expired' > Limit THEN asked \cup {"WATCHDOG_EXPIRED"} ELSE asked
  /\ UNCHANGED <<threadVars, posted, state, hidden, pageVars, field, view, told,
                 checking, unresponsive, killed, silent, accepted, inputs>>

Event ==
  /\ worker = "looping" /\ "EXIT" \notin asked
  /\ inputs < MaxInputs /\ inputs' = inputs + 1

\* Mutant: a late answer does not make up for the silence.
NotRecovered ==
  silent' = 0 /\ UNCHANGED <<unresponsive, killed, asked>>

Recovered ==
  /\ unresponsive' = 0 /\ silent' = 0 /\ killed' = FALSE /\ UNCHANGED asked

\* In a suspended browser the first unresponsive reply is one too many.
Suspicious(n) == n <= Limit

Hanging(n) ==
  /\ silent' = silent + 1
  /\ IF state = "SUSPENDED" /\ Suspicious(n)
       THEN unresponsive' = Limit /\ killed' = TRUE /\ UNCHANGED asked
     ELSE /\ unresponsive' = n
          /\ IF state = "SUSPENDED"
               THEN asked' = asked \cup {"FAILURE"} /\ UNCHANGED killed
             ELSE /\ killed' = (killed \/ n = Limit)
                  /\ asked' = IF n # Limit /\ n = 2 * Limit
                               THEN asked \cup {"WATCHDOG_EXPIRED"} ELSE asked

\* DidReceiveWebProcessResponsivenessReply: the answer to CheckWebProcess.
Reply(responsive) ==
  /\ Watched /\ checking /\ checking' = FALSE
  /\ worker = "looping" /\ inputs < MaxInputs /\ inputs' = inputs + 1
  /\ IF responsive THEN Recovered ELSE Hanging(unresponsive + 1)
  /\ UNCHANGED <<threadVars, posted, state, hidden, pageVars, field, view, told,
                 expired, accepted>>

\* isWebProcessResponsiveCallback: WebKit noticed by itself.
IsWebProcessResponsive ==
  /\ Event /\ unresponsive > 0 /\ Recovered
  /\ UNCHANGED <<threadVars, posted, state, hidden, pageVars, field, view, told,
                 checking, expired, accepted>>

\* webProcessTerminatedCallback: no more signals, and a job that exits.
WebProcessTerminated ==
  /\ Event /\ asked' = asked \cup {"EXIT"}
  /\ UNCHANGED <<threadVars, posted, state, hidden, pageVars, field, view, told,
                 checking, unresponsive, expired, killed, silent, accepted>>

-----------------------------------------------------------------------------
(* The signals of WebKit's view about what it loads.                       *)

PageOnly ==
  UNCHANGED <<threadVars, posted, state, hidden, field, view, told, watchVars,
              accepted>>

\* uriChangedCallback: a page may lead to another.
UriChanged(u) ==
  /\ Event /\ finishing = <<>> /\ loading # "none" /\ loading # u
  /\ url' = u /\ loading' = u
  /\ UNCHANGED <<status, ignoreLoadFinished, finishing, finished>> /\ PageOnly

\* decidePolicyCallback: the answer of the server to the main frame.
DecidePolicy ==
  /\ Event /\ finishing = <<>> /\ loading # "none" /\ status # 200
  /\ status' = 200
  /\ UNCHANGED <<url, ignoreLoadFinished, loading, finishing, finished>> /\ PageOnly

\* loadFailedCallback: a load that was given up is told of by its end only.
LoadCancelled ==
  /\ Event /\ finishing # <<>> /\ Head(finishing) = "cancelled"
  /\ ignoreLoadFinished' = TRUE
  /\ finishing' = <<"ended">> \o Tail(finishing)
  /\ UNCHANGED <<url, status, loading, finished>> /\ PageOnly

LoadFailed ==
  /\ Event /\ finishing = <<>> /\ loading # "none"
  /\ loading' = "none" /\ finishing' = <<"failed">>
  /\ UNCHANGED <<url, status, ignoreLoadFinished, finished>> /\ PageOnly

\* Mutant: whatever was not answered by a server has failed.
Unanswered(complete) == status < 0

\* "Load failed or there is another load in progress already": the progress is
\* below 1.0.
Suppressed(complete) == status < 0 /\ url \in Http /\ ~complete

\* loadChangedCallback, WEBKIT_LOAD_FINISHED.
Announce(complete) ==
  /\ ignoreLoadFinished' = FALSE
  /\ finished' = IF ignoreLoadFinished \/ Suppressed(complete) THEN finished
                 ELSE [url |-> url, times |-> finished.times + 1]
  /\ UNCHANGED <<url, status>> /\ PageOnly

\* The end of a load that was given up or failed; another may be in progress.
LoadEnded(complete) ==
  /\ Event /\ finishing # <<>> /\ Head(finishing) \in {"ended", "failed"}
  /\ complete => loading = "none"
  /\ finishing' = Tail(finishing) /\ Announce(complete) /\ UNCHANGED loading

\* The end of a load that is complete.
LoadFinished ==
  /\ Event /\ finishing = <<>> /\ loading # "none"
  /\ loading' = "none" /\ Announce(TRUE) /\ UNCHANGED finishing

-----------------------------------------------------------------------------
Calls ==
  \/ HeaderList \/ UserAgent \/ LocalStorageEnabled \/ Language
  \/ HTTPCookieAcceptPolicy \/ URL \/ Hide \/ Show
  \/ BridgeReply \/ BridgeEvent
  \/ RunJavaScript \/ AddUserScript \/ RemoveAllUserScripts \/ CollectGarbage
  \/ Request("SUSPENDED") \/ Request("RESUMED")
  \/ StateControlSinks \/ StateControllerSinks
  \/ WebBrowserSinks \/ BrowserSinks \/ ApplicationSinks

Thread == CreateContext \/ CreateView \/ Place \/ RunLoop \/ Serve \/ EndLoop

Destructor == DestructPosts \/ DestructQuits \/ Destructed

Watch ==
  \/ CheckResponsiveness \/ HangDetectorDispatch
  \/ Reply(TRUE) \/ Reply(FALSE) \/ IsWebProcessResponsive \/ WebProcessTerminated

Page ==
  \/ \E u \in URLs : UriChanged(u)
  \/ DecidePolicy \/ LoadCancelled \/ LoadFailed \/ LoadFinished
  \/ \E complete \in BOOLEAN : LoadEnded(complete)

Next == Calls \/ Configure \/ Thread \/ Destruct \/ Destructor \/ Watch \/ Page

\* The thread and the destructor are scheduled; nothing else need happen.
Spec == Init /\ [][Next]_vars /\ WF_vars(Thread) /\ WF_vars(Destructor)

-----------------------------------------------------------------------------
States == {"UNKNOWN", "SUSPENDED", "RESUMED"}

Moves == {i \in 1 .. Len(posted) : posted[i].op = "move"}

\* The last accepted request wins: once the loop has come to every move that
\* was posted, the browser is in the state that was last asked for, whether
\* that was before it worked, while it was made or later (Request, Worker).
LastRequestWins ==
  worker = "looping" /\ Moves = {} /\ accepted # "none" => state = accepted

\* Whatever the order in which clients show, hide, suspend and resume it, the
\* view is as the browser says, and what observers were told last of the
\* visibility and (IStateControl) of the state is so (Hidden, OnStateChange).
ObserversAreRight ==
  /\ hidden = view.hidden
  /\ told["control"] \in States => told["control"] = state
  /\ \A k \in Watchers : told[k] \in {"hidden", "shown"} => told[k] = Sight(hidden)

\* A web process is signalled only when it hangs: after Limit silent checks in
\* a row, or one in a suspended browser; and only a hang that outlived the
\* signal deactivates the browser (DidReceiveWebProcessResponsivenessReply).
HangsEscalate ==
  [][Limit > 0 =>
       /\ ~killed /\ killed' =>
            silent' >= Limit \/ (state = "SUSPENDED" /\ silent' > 0)
       /\ asked' # asked /\ unresponsive' # unresponsive =>
            killed /\ silent' > 1]_vars

\* Every load that is complete is announced, once and by its URL, the blank page
\* of a suspended browser included, which no server answers.  The end of a load
\* that was given up never is, and that of one that failed is not taken for the
\* end of the load from a server that is in progress by then
\* (loadChangedCallback, _ignoreLoadFinishedOnce).
LoadsAnnounced ==
  [][/\ inputs' # inputs /\ loading # "none" /\ loading' = "none" /\ finishing' = <<>>
          => finished' = [url |-> loading, times |-> finished.times + 1]
     /\ finishing # <<>> /\ finishing' = Tail(finishing)
          /\ (Head(finishing) = "ended" \/ loading \in Http) => finished' = finished]_vars

\* The browser can always be destroyed: its thread ends, also when the loop
\* did not run yet when it was told to quit (~WebKitImplementation).
ThreadEnds == object = "blocked" ~> object = "gone"

\* What clients asked for and were told of is what the browser does.
StateIsTold == LastRequestWins /\ ObserversAreRight
=============================================================================
