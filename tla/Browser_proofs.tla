--------------------------- MODULE Browser_proofs ---------------------------
(***************************************************************************)
(* The safety of the browser, for any URLs and settings, limits of the     *)
(* watchdogs and numbers of inputs; and of the parts that run beside it:   *)
(* the cookie jar, the web extension, MessageControl with its outputs and  *)
(* PerformanceMetrics.  Those share no state with the browser: each has an *)
(* invariant of its own, and the last step of its theorem is that a step   *)
(* of the whole is one of the part or leaves its variables alone.          *)
(***************************************************************************)
EXTENDS MCBrowser, TLAPS

-----------------------------------------------------------------------------
(* The browser.  Its invariant has four parts, each over variables of its  *)
(* own: what was asked for, what was told, the loads and the hangs.        *)

Ops == [op : {"set"}, field : Fields, value : Values \cup Policies]
       \cup [op : {"url"}, value : URLs]
       \cup [op : {"toPage", "script"},
             what : {"reply", "event", "run", "add", "remove", "collect"}]
       \cup [op : {"visible"}, value : BOOLEAN]
       \cup [op : {"move"}, to : {"SUSPENDED", "RESUMED"}]
       \cup [op : {"quit"}]

BeforeThePlace == {"none", "started", "context", "ready"}

IsLastMove(i) ==
  /\ i \in 1 .. Len(posted) /\ posted[i].op = "move"
  /\ \A j \in i + 1 .. Len(posted) : posted[j].op # "move"

\* The last accepted request is the last move that is posted or, without one,
\* the state.  Nothing is posted before there is a context, and no move before
\* there is a state, which there is once the thread has placed the browser.
RequestsInOrder ==
  /\ worker \in BeforeThePlace \cup {"placed", "looping", "ended"}
  /\ posted \in Seq(Ops)
  /\ state \in States /\ accepted \in {"none", "SUSPENDED", "RESUMED"}
  /\ worker = "none" => posted = <<>>
  /\ state = "UNKNOWN" => accepted = "none" /\ Moves = {} /\ worker \in BeforeThePlace
  /\ accepted # "none" /\ worker # "ended" =>
       \/ Moves = {} /\ state = accepted
       \/ \E i \in Moves : IsLastMove(i) /\ posted[i].to = accepted

\* Before the thread has placed the browser nobody was told of its state.
ToldInOrder ==
  /\ hidden \in BOOLEAN /\ view \in [suspended : BOOLEAN, hidden : BOOLEAN]
  /\ told \in [Kinds -> {"absent", "none", "hidden", "shown"} \cup States]
  /\ ObserversAreRight
  /\ worker \in BeforeThePlace => told["control"] \in {"absent", "none"}

Endings == {"cancelled", "ended", "failed"}

\* The end that comes next is to be ignored exactly when it is that of a load
\* that was given up.  What is in progress after a failure was not answered.
LoadsInOrder ==
  /\ status \in {-1, 200} /\ ignoreLoadFinished \in BOOLEAN
  /\ finishing \in Seq(Endings)
  /\ \A i \in 2 .. Len(finishing) : finishing[i] = "cancelled"
  /\ ignoreLoadFinished <=> finishing # <<>> /\ Head(finishing) = "ended"
  /\ loading # "none" => loading = url
  /\ finishing # <<>> /\ Head(finishing) = "failed" /\ loading # "none" => status = -1

\* Without a signal every unresponsive reply was counted once; as many as the
\* limit there are only after one.
HangsCounted ==
  /\ unresponsive \in Nat /\ silent \in Nat /\ killed \in BOOLEAN
  /\ ~Watched => unresponsive = 0
  /\ Watched /\ Limit > 0 =>
       /\ ~killed => unresponsive <= silent
       /\ unresponsive >= Limit => killed /\ silent > 0

BrowserInv == RequestsInOrder /\ ToldInOrder /\ LoadsInOrder /\ HangsCounted

-----------------------------------------------------------------------------
\* A source of another kind leaves the moves where they are.
LEMMA PostedAnother ==
  ASSUME posted \in Seq(Ops), NEW o \in Ops, o.op # "move", posted' = Append(posted, o)
  PROVE  /\ posted' \in Seq(Ops) /\ Moves' = Moves
         /\ \A i \in Moves : posted'[i] = posted[i]
         /\ \A i \in Moves : IsLastMove(i) => IsLastMove(i)'
<1>1. /\ posted' \in Seq(Ops) /\ Len(posted) \in Nat /\ Len(posted') = Len(posted) + 1
      /\ \A i \in 1 .. Len(posted) : posted'[i] = posted[i]
      /\ posted'[Len(posted) + 1] = o
  OBVIOUS
<1>2. Moves' = Moves
  BY <1>1 DEF Moves
<1>3. ASSUME NEW i \in Moves, IsLastMove(i) PROVE IsLastMove(i)'
  <2>1. i \in 1 .. Len(posted') /\ posted'[i].op = "move"
    BY <1>1, <1>3 DEF Moves
  <2>2. \A j \in i + 1 .. Len(posted') : posted'[j].op # "move"
    BY <1>1, <1>3, <2>1 DEF IsLastMove
  <2>3. QED BY <2>1, <2>2 DEF IsLastMove
<1>4. QED BY <1>1, <1>2, <1>3 DEF Moves

\* A move that is posted is the last one.
LEMMA PostedMove ==
  ASSUME posted \in Seq(Ops), NEW o \in Ops, o.op = "move", posted' = Append(posted, o)
  PROVE  /\ posted' \in Seq(Ops) /\ Moves' # {}
         /\ \E i \in Moves' : IsLastMove(i)' /\ posted'[i].to = o.to
<1>1. /\ posted' \in Seq(Ops) /\ Len(posted) \in Nat /\ Len(posted') = Len(posted) + 1
      /\ posted'[Len(posted) + 1] = o
  OBVIOUS
<1>2. PICK i : i = Len(posted) + 1
  OBVIOUS
<1>3. i \in Moves' /\ posted'[i].to = o.to
  BY <1>1, <1>2 DEF Moves
<1>4. IsLastMove(i)'
  BY <1>1, <1>2 DEF IsLastMove
<1>5. QED BY <1>1, <1>3, <1>4

\* The loop takes the oldest source away.
LEMMA ServedOne ==
  ASSUME posted \in Seq(Ops), posted # <<>>, posted' = Tail(posted)
  PROVE  /\ posted' \in Seq(Ops) /\ Head(posted) \in Ops
         /\ \A i \in Moves : i # 1 => i - 1 \in Moves' /\ posted'[i - 1] = posted[i]
         /\ \A i \in Moves' : i + 1 \in Moves
         /\ 1 \in Moves <=> Head(posted).op = "move"
         /\ \A i \in Moves : i # 1 /\ IsLastMove(i) => IsLastMove(i - 1)'
         /\ 1 \in Moves /\ IsLastMove(1) => Moves' = {}
<1>1. /\ posted' \in Seq(Ops) /\ Len(posted) \in Nat \ {0} /\ Len(posted') = Len(posted) - 1
      /\ \A i \in 1 .. Len(posted') : posted'[i] = posted[i + 1]
      /\ Head(posted) = posted[1] /\ Head(posted) \in Ops
  OBVIOUS
<1>2. \A i \in Moves : i # 1 => i - 1 \in Moves' /\ posted'[i - 1] = posted[i]
  BY <1>1 DEF Moves
<1>3. \A i \in Moves' : i + 1 \in Moves
  BY <1>1 DEF Moves
<1>4. 1 \in Moves <=> Head(posted).op = "move"
  BY <1>1 DEF Moves
<1>5. ASSUME NEW i \in Moves, i # 1, IsLastMove(i) PROVE IsLastMove(i - 1)'
  <2>1. i - 1 \in 1 .. Len(posted') /\ posted'[i - 1].op = "move"
    BY <1>1, <1>2, <1>5 DEF Moves
  <2>2. \A j \in i .. Len(posted') : posted'[j].op # "move"
    BY <1>1, <1>5 DEF IsLastMove, Moves
  <2>3. (i - 1) + 1 = i
    BY <1>1 DEF Moves
  <2>4. QED BY <2>1, <2>2, <2>3 DEF IsLastMove
<1>6. 1 \in Moves /\ IsLastMove(1) => Moves' = {}
  BY <1>1 DEF Moves, IsLastMove
<1>7. QED BY <1>1, <1>2, <1>3, <1>4, <1>5, <1>6

-----------------------------------------------------------------------------
\* What the calls of clients do: they post something, ask for a state, or
\* register.
LEMMA CallsDo ==
  ASSUME Calls
  PROVE  \/ \E o \in Ops : o.op # "move" /\ Post(o)
         \/ \E s \in {"SUSPENDED", "RESUMED"} : Request(s)
         \/ \E k \in Kinds : Register(k) \/ Unregister(k)
<1>1. CASE HeaderList \/ UserAgent \/ LocalStorageEnabled \/ Language
  <2>1. PICK f \in Fields, v \in Values : Set(f, v)
    BY <1>1 DEF HeaderList, UserAgent, LocalStorageEnabled, Language, Fields
  <2>2. [op |-> "set", field |-> f, value |-> v] \in Ops
    BY DEF Ops
  <2>3. QED BY <2>1, <2>2 DEF Set
<1>2. CASE HTTPCookieAcceptPolicy
  <2>1. PICK p \in Policies : Set("cookiePolicy", TranslatePolicy(p))
    BY <1>2 DEF HTTPCookieAcceptPolicy
  <2>2. TranslatePolicy(p) \in Policies
    BY DEF TranslatePolicy, Policies
  <2>3. [op |-> "set", field |-> "cookiePolicy", value |-> TranslatePolicy(p)] \in Ops
    BY <2>2 DEF Ops, Fields
  <2>4. QED BY <2>1, <2>3 DEF Set
<1>3. CASE URL \/ Hide \/ Show
  <2>1. \A u \in URLs : [op |-> "url", value |-> u] \in Ops
    BY DEF Ops
  <2>2. [op |-> "visible", value |-> TRUE] \in Ops /\ [op |-> "visible", value |-> FALSE] \in Ops
    BY DEF Ops
  <2>3. QED BY <1>3, <2>1, <2>2 DEF URL, Hide, Show
<1>4. CASE BridgeReply \/ BridgeEvent
  <2>1. [op |-> "toPage", what |-> "reply"] \in Ops /\ [op |-> "toPage", what |-> "event"] \in Ops
    BY DEF Ops
  <2>2. QED BY <1>4, <2>1 DEF BridgeReply, BridgeEvent
<1>5. CASE RunJavaScript \/ AddUserScript \/ RemoveAllUserScripts \/ CollectGarbage
  <2>1. \A w \in {"run", "add", "remove", "collect"} : [op |-> "script", what |-> w] \in Ops
    BY DEF Ops
  <2>2. QED
    BY <1>5, <2>1 DEF RunJavaScript, AddUserScript, RemoveAllUserScripts, CollectGarbage
<1>6. CASE Request("SUSPENDED") \/ Request("RESUMED")
  BY <1>6
<1>7. CASE StateControlSinks \/ StateControllerSinks \/ WebBrowserSinks \/ BrowserSinks
           \/ ApplicationSinks
  BY <1>7 DEF StateControlSinks, StateControllerSinks, WebBrowserSinks, BrowserSinks,
              ApplicationSinks, Kinds
<1>8. QED BY <1>1, <1>2, <1>3, <1>4, <1>5, <1>6, <1>7 DEF Calls

-----------------------------------------------------------------------------
(* What was asked for.                                                     *)

\* Whatever changes neither the thread nor the state nor what is posted.
LEMMA RequestsKept ==
  ASSUME RequestsInOrder, UNCHANGED <<worker, posted, state, accepted>>
  PROVE  RequestsInOrder'
BY DEF RequestsInOrder, Moves, IsLastMove

\* The thread goes on, without a change of the state.
LEMMA RequestsKeptByTheThread ==
  ASSUME RequestsInOrder, UNCHANGED <<posted, state, accepted>>,
         worker # "ended", worker' \in {"started", "context", "ready", "placed", "looping"},
         worker' \in BeforeThePlace \/ worker \notin BeforeThePlace
  PROVE  RequestsInOrder'
BY DEF RequestsInOrder, Moves, IsLastMove, BeforeThePlace

\* Something that is no move is posted.
LEMMA RequestsKeptByPost ==
  ASSUME RequestsInOrder, NEW o \in Ops, o.op # "move", posted' = Push(o), worker # "none",
         UNCHANGED <<worker, state, accepted>>
  PROVE  RequestsInOrder'
<1>1. /\ posted \in Seq(Ops) /\ posted' = Append(posted, o)
      /\ posted' \in Seq(Ops) /\ Moves' = Moves
      /\ \A i \in Moves : posted'[i] = posted[i]
      /\ \A i \in Moves : IsLastMove(i) => IsLastMove(i)'
  BY PostedAnother DEF RequestsInOrder, Push
<1>2. QED BY <1>1 DEF RequestsInOrder

\* A request that is accepted is posted last, or meets the state it asks for.
LEMMA RequestsKeptByRequest ==
  ASSUME RequestsInOrder, NEW s \in {"SUSPENDED", "RESUMED"}, Request(s)
  PROVE  RequestsInOrder'
<1>1. accepted' = s /\ worker' = worker /\ s \in States /\ s # "UNKNOWN"
  BY DEF Request, threadVars, States
<1>2. CASE state = "UNKNOWN" \/ worker = "none"
  <2>1. state' = s /\ posted' = posted
    BY <1>2 DEF Request, Suspend, Resume, Move, HasContext
  <2>2. Moves = {}
    BY <1>2 DEF RequestsInOrder, Moves
  <2>3. Moves' = {}
    BY <2>1, <2>2 DEF Moves
  <2>4. QED BY <1>1, <2>1, <2>3 DEF RequestsInOrder
<1>3. CASE state # "UNKNOWN" /\ worker # "none"
  <2>1. state' = state /\ posted' = Append(posted, [op |-> "move", to |-> s])
    BY <1>3 DEF Request, Suspend, Resume, Move, HasContext, Push
  <2>2. [op |-> "move", to |-> s] \in Ops
    BY DEF Ops
  <2>3. /\ posted' \in Seq(Ops) /\ Moves' # {}
        /\ \E i \in Moves' : IsLastMove(i)' /\ posted'[i].to = s
    <3>1. posted \in Seq(Ops)
      BY DEF RequestsInOrder
    <3>2. QED BY <2>1, <2>2, <3>1, PostedMove
  <2>4. QED BY <1>1, <1>3, <2>1, <2>3 DEF RequestsInOrder
<1>4. QED BY <1>2, <1>3

\* Both changes of the state come to what was asked for.
LEMMA BothChangeTo ==
  ASSUME NEW b, NEW s
  PROVE  BothChange(b, s).state = s /\ OnStateChanged(b, s).state = s
BY DEF BothChange, OnStateChanged, OnStateChange

\* Place leaves the state as it is, or comes to it from UNKNOWN.
LEMMA PlaceIn ==
  ASSUME RequestsInOrder, Place
  PROVE  /\ state' = IF state = "UNKNOWN" THEN "SUSPENDED" ELSE state
         /\ UNCHANGED <<posted, accepted>> /\ worker = "ready" /\ worker' = "placed"
<1>1. state' = IF state \in {"SUSPENDED", "UNKNOWN"} THEN "SUSPENDED" ELSE "RESUMED"
  BY BothChangeTo DEF Place, Seen, InitialState
<1>2. state \in {"UNKNOWN", "SUSPENDED", "RESUMED"}
  BY DEF RequestsInOrder, States
<1>3. QED BY <1>1, <1>2 DEF Place

\* The thread that places the browser sets the first state.
LEMMA RequestsKeptByPlace ==
  ASSUME RequestsInOrder, Place
  PROVE  RequestsInOrder'
<1>1. /\ state' = IF state = "UNKNOWN" THEN "SUSPENDED" ELSE state
      /\ UNCHANGED <<posted, accepted>> /\ worker = "ready" /\ worker' = "placed"
  BY PlaceIn
<1>2. state' \in States /\ state' # "UNKNOWN"
  BY <1>1 DEF RequestsInOrder, States
<1>3. QED BY <1>1, <1>2 DEF RequestsInOrder, Moves, IsLastMove, BeforeThePlace

\* What a source does to the state.
LEMMA ServedMove ==
  ASSUME RequestsInOrder, Serve
  PROVE  /\ worker = "looping" /\ posted # <<>> /\ posted' = Tail(posted)
         /\ UNCHANGED <<worker, accepted, object>>
         /\ state' = IF Head(posted).op = "move" THEN Head(posted).to ELSE state
         /\ Head(posted).op = "move" => Head(posted).to \in {"SUSPENDED", "RESUMED"}
<1> DEFINE o == Head(posted)
<1>1. /\ worker = "looping" /\ posted # <<>> /\ posted' = Tail(posted)
      /\ UNCHANGED <<worker, accepted, object>>
  BY DEF Serve
<1>2. \/ o.op = "set" /\ ServeSet(o)
      \/ o.op = "url" /\ ServeURL(o)
      \/ o.op \in {"toPage", "script"} /\ ServePage(o)
      \/ o.op = "visible" /\ ServeVisible(o)
      \/ o.op = "move" /\ o.to = "SUSPENDED" /\ ServeSuspend
      \/ o.op = "move" /\ o.to = "RESUMED" /\ ServeResume
      \/ o.op = "quit" /\ ServeQuit
  BY DEF Serve
<1> HIDE DEF o
<1>3. ServeSuspend => state' = "SUSPENDED"
  BY BothChangeTo DEF ServeSuspend, Seen
<1>4. ServeResume => state' = "RESUMED"
  BY BothChangeTo DEF ServeResume, Seen
<1>5. ServeSet(o) \/ ServeURL(o) \/ ServePage(o) \/ ServeVisible(o) \/ ServeQuit => state' = state
  BY DEF ServeSet, ServeURL, ServePage, ServeVisible, ServeQuit
<1>6. /\ state' = IF o.op = "move" THEN o.to ELSE state
      /\ o.op = "move" => o.to \in {"SUSPENDED", "RESUMED"}
  BY <1>2, <1>3, <1>4, <1>5
<1>7. QED BY <1>1, <1>6 DEF o

\* What is served is the oldest: the last move stays, or was this one.
LEMMA RequestsKeptByServe ==
  ASSUME RequestsInOrder, Serve
  PROVE  RequestsInOrder'
<1>1. /\ worker = "looping" /\ posted # <<>> /\ posted' = Tail(posted)
      /\ UNCHANGED <<worker, accepted>>
      /\ state' = IF Head(posted).op = "move" THEN Head(posted).to ELSE state
      /\ Head(posted).op = "move" => Head(posted).to \in {"SUSPENDED", "RESUMED"}
  BY ServedMove
<1>2. /\ posted \in Seq(Ops) /\ posted' \in Seq(Ops)
      /\ \A i \in Moves : i # 1 => i - 1 \in Moves' /\ posted'[i - 1] = posted[i]
      /\ \A i \in Moves' : i + 1 \in Moves
      /\ 1 \in Moves <=> Head(posted).op = "move"
      /\ \A i \in Moves : i # 1 /\ IsLastMove(i) => IsLastMove(i - 1)'
      /\ 1 \in Moves /\ IsLastMove(1) => Moves' = {}
  BY <1>1, ServedOne DEF RequestsInOrder
<1>3. state' \in States /\ (state' = "UNKNOWN" => state = "UNKNOWN" /\ Head(posted).op # "move")
  BY <1>1 DEF RequestsInOrder, States
<1>4. state' = "UNKNOWN" => accepted' = "none" /\ Moves' = {}
  BY <1>1, <1>2, <1>3 DEF RequestsInOrder
<1>5. ASSUME accepted' # "none"
      PROVE  \/ Moves' = {} /\ state' = accepted'
             \/ \E i \in Moves' : IsLastMove(i)' /\ posted'[i].to = accepted'
  <2>1. CASE Moves = {}
    BY <1>1, <1>2, <1>5, <2>1 DEF RequestsInOrder
  <2>2. CASE Moves # {}
    <3>1. PICK i \in Moves : IsLastMove(i) /\ posted[i].to = accepted
      BY <1>1, <1>5, <2>2 DEF RequestsInOrder
    <3>2. CASE i = 1
      <4>1. Head(posted) = posted[1]
        BY <1>1, <1>2
      <4>2. QED BY <1>1, <1>2, <3>1, <3>2, <4>1
    <3>3. CASE i # 1
      BY <1>1, <1>2, <3>1, <3>3
    <3>4. QED BY <3>2, <3>3
  <2>3. QED BY <2>1, <2>2
<1>6. QED BY <1>1, <1>2, <1>3, <1>4, <1>5 DEF RequestsInOrder

\* No step loses the last request.
LEMMA RequestsStep == RequestsInOrder /\ [Next]_vars => RequestsInOrder'
<1> SUFFICES ASSUME RequestsInOrder, [Next]_vars PROVE RequestsInOrder'
  OBVIOUS
<1>1. CASE Calls
  <2>1. ASSUME NEW o \in Ops, o.op # "move", Post(o) PROVE RequestsInOrder'
    BY <2>1, RequestsKept, RequestsKeptByPost DEF Post, HasContext, threadVars
  <2>2. ASSUME NEW k \in Kinds, Register(k) \/ Unregister(k) PROVE RequestsInOrder'
    BY <2>2, RequestsKept DEF Register, Unregister, threadVars
  <2>3. QED BY <1>1, <2>1, <2>2, CallsDo, RequestsKeptByRequest
<1>2. CASE Configure \/ CreateContext \/ CreateView \/ RunLoop
  BY <1>2, RequestsKeptByTheThread
  DEF Configure, CreateContext, CreateView, RunLoop, BeforeThePlace
<1>3. CASE EndLoop
  <2>1. /\ posted' = <<>> /\ worker' = "ended" /\ UNCHANGED <<state, accepted>>
        /\ state # "UNKNOWN"
    BY <1>3 DEF EndLoop, RequestsInOrder, BeforeThePlace
  <2>2. Moves' = {} /\ posted' \in Seq(Ops)
    BY <2>1 DEF Moves
  <2>3. QED BY <2>1, <2>2 DEF RequestsInOrder
<1>4. CASE Destruct \/ DestructQuits \/ Destructed
  BY <1>4, RequestsKept DEF Destruct, DestructQuits, Destructed
<1>5. CASE DestructPosts
  <2>1. [op |-> "quit"] \in Ops
    BY DEF Ops
  <2>2. UNCHANGED <<worker, state, accepted>> /\ posted' = QuitPosted
    BY <1>5 DEF DestructPosts
  <2>3. QED
    BY <2>1, <2>2, RequestsKept, RequestsKeptByPost DEF QuitPosted, HasContext, Push
<1>6. CASE Watch
  <2>1. UNCHANGED <<worker, posted, state, accepted>>
    BY <1>6 DEF Watch, CheckResponsiveness, HangDetectorDispatch, Reply, IsWebProcessResponsive,
                WebProcessTerminated, Event, threadVars
  <2>2. QED BY <2>1, RequestsKept
<1>7. CASE Page
  <2>1. PageOnly
    BY <1>7 DEF Page, UriChanged, DecidePolicy, LoadCancelled, LoadFailed, LoadEnded, LoadFinished,
                Announce
  <2>2. QED BY <2>1, RequestsKept DEF PageOnly, threadVars
<1>8. CASE UNCHANGED vars
  BY <1>8, RequestsKept DEF vars, threadVars
<1>9. QED
  BY <1>1, <1>2, <1>3, <1>4, <1>5, <1>6, <1>7, <1>8, RequestsKeptByPlace, RequestsKeptByServe
  DEF Next, Thread, Destructor

-----------------------------------------------------------------------------
(* What was told.                                                          *)

\* A step that changes nothing that observers are told.
LEMMA ToldKept ==
  ASSUME ToldInOrder, UNCHANGED <<hidden, view, told, state>>,
         worker' = worker \/ worker' \notin BeforeThePlace \/ worker \in BeforeThePlace
  PROVE  ToldInOrder'
BY DEF ToldInOrder, ObserversAreRight, Sight

\* Telling some kinds of observers leaves what the others were told.
LEMMA TellTells ==
  ASSUME NEW t \in [Kinds -> {"absent", "none", "hidden", "shown"} \cup States],
         NEW K \in SUBSET Kinds, NEW w \in {"hidden", "shown"} \cup States
  PROVE  /\ Tell(t, K, w) \in [Kinds -> {"absent", "none", "hidden", "shown"} \cup States]
         /\ \A k \in Kinds : k \notin K => Tell(t, K, w)[k] = t[k]
         /\ \A k \in K : Tell(t, K, w)[k] = IF t[k] = "absent" THEN "absent" ELSE w
BY DEF Tell

\* A change of the state is told of to those that observe it.
LEMMA StateTold ==
  ASSUME NEW b, b.told \in [Kinds -> {"absent", "none", "hidden", "shown"} \cup States],
         NEW s \in {"SUSPENDED", "RESUMED"},
         b.told["control"] \in States => b.told["control"] = b.state
  PROVE  /\ BothChange(b, s).told \in [Kinds -> {"absent", "none", "hidden", "shown"} \cup States]
         /\ OnStateChanged(b, s).told \in
              [Kinds -> {"absent", "none", "hidden", "shown"} \cup States]
         /\ \A k \in Watchers : BothChange(b, s).told[k] = b.told[k]
         /\ \A k \in Kinds \ {"controller"} : OnStateChanged(b, s).told[k] = b.told[k]
         /\ LET c == BothChange(b, s).told["control"] IN c \in States => c = s
<1>1. s \in States /\ {"control"} \subseteq Kinds /\ {"controller"} \subseteq Kinds
      /\ Watchers \subseteq Kinds \ {"control", "controller"}
  BY DEF States, Kinds, Watchers
<1>2. PICK c : c = OnStateChange(b, s)
  OBVIOUS
<1>3. /\ c.state = s
      /\ c.told \in [Kinds -> {"absent", "none", "hidden", "shown"} \cup States]
      /\ \A k \in Kinds \ {"control"} : c.told[k] = b.told[k]
      /\ c.told["control"] \in States => c.told["control"] = s
  <2>1. CASE b.state = s
    BY <1>2, <2>1 DEF OnStateChange
  <2>2. CASE b.state # s
    <3>1. c = [state |-> s, told |-> Tell(b.told, {"control"}, s)]
      BY <1>2, <2>2 DEF OnStateChange
    <3>2. "absent" \notin States
      BY DEF States
    <3>3. QED BY <1>1, <3>1, <3>2, TellTells
  <2>3. QED BY <2>1, <2>2
<1>4. BothChange(b, s) = c
  BY <1>2, <1>3 DEF BothChange, OnStateChanged
<1>5. /\ OnStateChanged(b, s).told \in [Kinds -> {"absent", "none", "hidden", "shown"} \cup States]
      /\ \A k \in Kinds \ {"controller"} : OnStateChanged(b, s).told[k] = b.told[k]
  BY <1>1, TellTells DEF OnStateChanged
<1>6. QED BY <1>1, <1>3, <1>4, <1>5

\* Who registers has been told nothing yet.
LEMMA ToldKeptByRegistration ==
  ASSUME ToldInOrder, NEW k \in Kinds, Register(k) \/ Unregister(k)
  PROVE  ToldInOrder'
<1>1. /\ UNCHANGED <<hidden, view, state, worker>>
      /\ \E w \in {"none", "absent"} : told' = [told EXCEPT ![k] = w]
  BY DEF Register, Unregister, threadVars
<1>2. told' \in [Kinds -> {"absent", "none", "hidden", "shown"} \cup States]
      /\ \A j \in Kinds : told'[j] = told[j] \/ told'[j] \in {"none", "absent"}
  BY <1>1 DEF ToldInOrder
<1>3. "control" \in Kinds /\ Watchers \subseteq Kinds /\ {"none", "absent"} \cap States = {}
  BY DEF Kinds, Watchers, States
<1>4. QED BY <1>1, <1>2, <1>3 DEF ToldInOrder, ObserversAreRight, Sight

\* A request changes the state itself as long as nobody was told of one.
LEMMA ToldKeptByRequest ==
  ASSUME RequestsInOrder, ToldInOrder, NEW s \in {"SUSPENDED", "RESUMED"}, Request(s)
  PROVE  ToldInOrder'
<1>1. UNCHANGED <<hidden, view, told, worker>> /\ (state' = state \/ worker \in BeforeThePlace)
  BY DEF RequestsInOrder, Request, Suspend, Resume, Move, HasContext, threadVars, BeforeThePlace
<1>2. {"none", "absent"} \cap States = {}
  BY DEF States
<1>3. QED BY <1>1, <1>2 DEF ToldInOrder, ObserversAreRight, Sight

\* Nobody has been told a state before the first one.
LEMMA ToldKeptByPlace ==
  ASSUME RequestsInOrder, ToldInOrder, Place
  PROVE  ToldInOrder'
<1> DEFINE b == [state |-> "UNKNOWN", told |-> told]
<1>1. /\ UNCHANGED <<hidden, view>> /\ worker = "ready" /\ worker' = "placed"
      /\ \/ Seen(BothChange(b, "SUSPENDED"))
         \/ Seen(OnStateChanged(b, "RESUMED"))
  BY DEF Place, InitialState
<1>2. /\ b.told \in [Kinds -> {"absent", "none", "hidden", "shown"} \cup States]
      /\ b.told["control"] \in {"absent", "none"} /\ b.told = told
  BY <1>1 DEF ToldInOrder, BeforeThePlace
<1> HIDE DEF b
<1>3. b.told["control"] \notin States /\ "control" \in Kinds \ {"controller"}
      /\ Watchers \subseteq Kinds \ {"controller"}
  BY <1>2 DEF States, Kinds, Watchers
<1>4. /\ told' \in [Kinds -> {"absent", "none", "hidden", "shown"} \cup States]
      /\ \A k \in Watchers : told'[k] = told[k]
      /\ told'["control"] \in States => told'["control"] = state'
  <2>1. CASE Seen(BothChange(b, "SUSPENDED"))
    <3>1. state' = "SUSPENDED" /\ told' = BothChange(b, "SUSPENDED").told
      BY <2>1, BothChangeTo DEF Seen
    <3>2. QED BY <1>2, <1>3, <3>1, StateTold
  <2>2. CASE Seen(OnStateChanged(b, "RESUMED"))
    <3>1. told' = OnStateChanged(b, "RESUMED").told
      BY <2>2 DEF Seen
    <3>2. QED BY <1>2, <1>3, <3>1, StateTold
  <2>3. QED BY <1>1, <2>1, <2>2
<1>5. worker' \notin BeforeThePlace
  BY <1>1 DEF BeforeThePlace
<1>6. QED BY <1>1, <1>4, <1>5 DEF ToldInOrder, ObserversAreRight, Sight

\* What the thread serves tells the observers what it changes.
LEMMA ToldKeptByServe ==
  ASSUME RequestsInOrder, ToldInOrder, Serve
  PROVE  ToldInOrder'
<1> DEFINE o == Head(posted)
           b == [state |-> state, told |-> told]
<1>1. worker' = "looping" /\ o \in Ops
  BY DEF Serve, RequestsInOrder
<1>2. worker' \notin BeforeThePlace
  BY <1>1 DEF BeforeThePlace
<1>3. CASE ServeSet(o) \/ ServeURL(o) \/ ServePage(o) \/ ServeQuit
  <2>1. UNCHANGED <<hidden, view, told, state>>
    BY <1>3 DEF ServeSet, ServeURL, ServePage, ServeQuit
  <2>2. QED BY <1>2, <2>1, ToldKept
<1>4. CASE o.op = "visible" /\ ServeVisible(o)
  <2>1. o.value \in BOOLEAN
    BY <1>1, <1>4 DEF Ops
  <2>2. /\ view' = [view EXCEPT !.hidden = ~o.value] /\ hidden' = (~o.value)
        /\ told' = IF (~o.value) = hidden THEN told ELSE Tell(told, Watchers, Sight(~o.value))
        /\ state' = state
    BY <1>4 DEF ServeVisible, HiddenTold
  <2>3. PICK h \in BOOLEAN : h = (~o.value)
    BY <2>1
  <2>4. /\ view' = [view EXCEPT !.hidden = h] /\ hidden' = h
        /\ told' = IF h = hidden THEN told ELSE Tell(told, Watchers, Sight(h))
    BY <2>2, <2>3
  <2>5. view' \in [suspended : BOOLEAN, hidden : BOOLEAN] /\ hidden' = view'.hidden
    BY <2>4 DEF ToldInOrder
  <2>6. /\ Watchers \subseteq Kinds /\ "control" \in Kinds \ Watchers
        /\ Sight(h) \in {"hidden", "shown"}
    BY DEF Watchers, Kinds, Sight
  <2>7. /\ told' \in [Kinds -> {"absent", "none", "hidden", "shown"} \cup States]
        /\ told'["control"] = told["control"]
        /\ \A k \in Watchers : told'[k] \in {"hidden", "shown"} => told'[k] = Sight(h)
    <3>1. CASE h = hidden
      BY <2>4, <3>1 DEF ToldInOrder, ObserversAreRight
    <3>2. CASE h # hidden
      BY <2>4, <2>6, <3>2, TellTells DEF ToldInOrder
    <3>3. QED BY <3>1, <3>2
  <2>8. QED BY <1>2, <2>2, <2>4, <2>5, <2>7 DEF ToldInOrder, ObserversAreRight, Sight
<1>5. CASE ServeSuspend \/ ServeResume
  <2>1. PICK s \in {"SUSPENDED", "RESUMED"} :
          /\ Seen(BothChange(b, s)) /\ hidden' = hidden
          /\ \E x \in BOOLEAN : view' = [view EXCEPT !.suspended = x]
    BY <1>5 DEF ServeSuspend, ServeResume
  <2>2. state' = s /\ told' = BothChange(b, s).told
    BY <2>1, BothChangeTo DEF Seen
  <2>3. /\ b.told \in [Kinds -> {"absent", "none", "hidden", "shown"} \cup States]
        /\ b.told["control"] \in States => b.told["control"] = b.state
        /\ b.told = told
    BY DEF ToldInOrder, ObserversAreRight
  <2> HIDE DEF b
  <2>4. /\ told' \in [Kinds -> {"absent", "none", "hidden", "shown"} \cup States]
        /\ \A k \in Watchers : told'[k] = told[k]
        /\ told'["control"] \in States => told'["control"] = state'
    BY <2>2, <2>3, StateTold
  <2>5. view' \in [suspended : BOOLEAN, hidden : BOOLEAN] /\ view'.hidden = view.hidden
    BY <2>1 DEF ToldInOrder
  <2>6. QED BY <1>2, <2>1, <2>4, <2>5 DEF ToldInOrder, ObserversAreRight, Sight
<1>6. QED BY <1>3, <1>4, <1>5 DEF Serve

\* No step leaves an observer behind.
LEMMA ToldStep == RequestsInOrder /\ ToldInOrder /\ [Next]_vars => ToldInOrder'
<1> SUFFICES ASSUME RequestsInOrder, ToldInOrder, [Next]_vars PROVE ToldInOrder'
  OBVIOUS
<1>1. CASE Calls
  <2>1. ASSUME NEW o \in Ops, Post(o) PROVE ToldInOrder'
    BY <2>1, ToldKept DEF Post, threadVars
  <2>2. QED BY <1>1, <2>1, CallsDo, ToldKeptByRequest, ToldKeptByRegistration
<1>2. CASE Configure \/ CreateContext \/ CreateView \/ RunLoop \/ EndLoop
  <2>1. /\ UNCHANGED <<hidden, view, told, state>>
        /\ worker' \notin BeforeThePlace \/ worker \in BeforeThePlace
    BY <1>2 DEF Configure, CreateContext, CreateView, RunLoop, EndLoop, BeforeThePlace
  <2>2. QED BY <2>1, ToldKept
<1>3. CASE Destruct \/ Destructor
  BY <1>3, ToldKept DEF Destruct, Destructor, DestructPosts, DestructQuits, Destructed
<1>4. CASE Watch
  <2>1. UNCHANGED <<hidden, view, told, state, worker>>
    BY <1>4 DEF Watch, CheckResponsiveness, HangDetectorDispatch, Reply, IsWebProcessResponsive,
                WebProcessTerminated, Event, threadVars
  <2>2. QED BY <2>1, ToldKept
<1>5. CASE Page
  <2>1. PageOnly
    BY <1>5 DEF Page, UriChanged, DecidePolicy, LoadCancelled, LoadFailed, LoadEnded, LoadFinished,
                Announce
  <2>2. QED BY <2>1, ToldKept DEF PageOnly, threadVars
<1>6. CASE UNCHANGED vars
  BY <1>6, ToldKept DEF vars, threadVars
<1>7. QED
  BY <1>1, <1>2, <1>3, <1>4, <1>5, <1>6, ToldKeptByPlace, ToldKeptByServe DEF Next, Thread

-----------------------------------------------------------------------------
(* The loads.                                                              *)

\* A step that loads nothing.
LEMMA LoadsKept ==
  ASSUME LoadsInOrder, UNCHANGED <<url, status, loading, ignoreLoadFinished, finishing>>
  PROVE  LoadsInOrder'
BY DEF LoadsInOrder

\* Another load comes after those under way.
LEMMA LoadsKeptByLoad ==
  ASSUME LoadsInOrder, NEW u, LoadURI(u)
  PROVE  LoadsInOrder' /\ finished' = finished /\ (finishing # <<>> => finishing' # Tail(finishing))
<1>1. /\ status' = -1 /\ UNCHANGED <<ignoreLoadFinished, finished>> /\ loading' = url'
      /\ finishing' = finishing \/ finishing' = Append(finishing, "cancelled")
  BY DEF LoadURI
<1>2. /\ finishing' \in Seq(Endings)
      /\ \A i \in 2 .. Len(finishing') : finishing'[i] = "cancelled"
      /\ finishing # <<>> => finishing' # <<>> /\ Head(finishing') = Head(finishing)
      /\ finishing = <<>> /\ finishing' # <<>> => Head(finishing') = "cancelled"
  BY <1>1 DEF LoadsInOrder, Endings
<1>3. finishing # <<>> => Len(finishing') # Len(Tail(finishing))
  BY <1>1 DEF LoadsInOrder
<1>4. QED BY <1>1, <1>2, <1>3 DEF LoadsInOrder

\* A source, and the thread that places the browser, load or do not.
LEMMA ThreadLoads ==
  ASSUME Place \/ Serve
  PROVE  (\E u : LoadURI(u)) \/ UNCHANGED pageVars
<1>1. CASE Place
  BY <1>1 DEF Place
<1>2. CASE Serve
  <2>1. PICK o : \/ ServeSet(o) \/ ServeURL(o) \/ ServePage(o) \/ ServeVisible(o)
                 \/ ServeSuspend \/ ServeResume \/ ServeQuit
    BY <1>2 DEF Serve
  <2>2. QED
    BY <2>1 DEF ServeSet, ServeURL, ServePage, ServeVisible, ServeSuspend, ServeResume, ServeQuit,
                pageVars
<1>3. QED BY <1>1, <1>2

\* Nobody but WebKit and these two touches the page.
LEMMA PageKept ==
  ASSUME [Next]_vars, ~Place, ~Serve, ~Page
  PROVE  UNCHANGED pageVars
<1>1. CASE Calls
  BY <1>1, CallsDo DEF Post, Request, Register, Unregister
<1>2. CASE Configure \/ CreateContext \/ CreateView \/ RunLoop \/ EndLoop \/ Destruct \/ Destructor
  BY <1>2 DEF Configure, CreateContext, CreateView, RunLoop, EndLoop, Destruct, Destructor,
              DestructPosts, DestructQuits, Destructed
<1>3. CASE Watch
  BY <1>3 DEF Watch, CheckResponsiveness, HangDetectorDispatch, Reply, IsWebProcessResponsive,
              WebProcessTerminated
<1>4. CASE UNCHANGED vars
  BY <1>4 DEF vars
<1>5. QED BY <1>1, <1>2, <1>3, <1>4 DEF Next, Thread

\* What the page reports leaves the ends of the loads in order.
LEMMA LoadsKeptByPage ==
  ASSUME LoadsInOrder, Page
  PROVE  LoadsInOrder'
<1>1. CASE \E u \in URLs : UriChanged(u)
  BY <1>1 DEF UriChanged, LoadsInOrder
<1>2. CASE DecidePolicy
  BY <1>2 DEF DecidePolicy, LoadsInOrder
<1>3. CASE LoadFinished
  <2>1. /\ finishing = <<>> /\ UNCHANGED <<finishing, status, url>>
        /\ ignoreLoadFinished' = FALSE /\ loading' = "none"
    BY <1>3 DEF LoadFinished, Announce
  <2>2. ignoreLoadFinished' \in BOOLEAN
    BY <2>1, Zenon
  <2>3. QED BY <2>1, <2>2 DEF LoadsInOrder
<1>4. CASE LoadCancelled
  <2>1. /\ finishing' = <<"ended">> \o Tail(finishing) /\ finishing # <<>>
        /\ finishing \in Seq(Endings) /\ \A i \in 2 .. Len(finishing) : finishing[i] = "cancelled"
    BY <1>4 DEF LoadCancelled, LoadsInOrder
  <2>2. /\ finishing' \in Seq(Endings) /\ finishing' # <<>> /\ Head(finishing') = "ended"
        /\ \A i \in 2 .. Len(finishing') : finishing'[i] = "cancelled"
    BY <2>1 DEF Endings
  <2>3. QED BY <1>4, <2>2 DEF LoadCancelled, LoadsInOrder
<1>5. CASE LoadFailed
  <2>1. finishing' = <<"failed">>
    BY <1>5 DEF LoadFailed
  <2>2. /\ finishing' \in Seq(Endings) /\ finishing' # <<>> /\ Head(finishing') = "failed"
        /\ \A i \in 2 .. Len(finishing') : finishing'[i] = "cancelled"
    BY <2>1 DEF Endings
  <2>3. QED BY <1>5, <2>2 DEF LoadFailed, LoadsInOrder
<1>6. ASSUME NEW complete \in BOOLEAN, LoadEnded(complete) PROVE LoadsInOrder'
  <2>1. /\ finishing' = Tail(finishing) /\ finishing # <<>> /\ finishing \in Seq(Endings)
        /\ \A i \in 2 .. Len(finishing) : finishing[i] = "cancelled"
    BY <1>6 DEF LoadEnded, LoadsInOrder
  <2>2. /\ finishing' \in Seq(Endings) /\ \A i \in 1 .. Len(finishing') : finishing'[i] = "cancelled"
    BY <2>1
  <2>3. finishing' # <<>> => Head(finishing') = "cancelled"
    BY <2>2
  <2>4. ignoreLoadFinished' = FALSE /\ UNCHANGED <<status, url, loading>>
    BY <1>6 DEF LoadEnded, Announce
  <2>5. ignoreLoadFinished' \in BOOLEAN
    BY <2>4, Zenon
  <2>6. QED BY <2>2, <2>3, <2>4, <2>5 DEF LoadsInOrder
<1>7. QED BY <1>1, <1>2, <1>3, <1>4, <1>5, <1>6 DEF Page

\* No step confuses the load under way with one given up.
LEMMA LoadsStep == LoadsInOrder /\ [Next]_vars => LoadsInOrder'
<1>1. ASSUME LoadsInOrder, UNCHANGED pageVars PROVE LoadsInOrder'
  BY <1>1, LoadsKept DEF pageVars
<1>2. QED BY <1>1, LoadsKeptByPage, LoadsKeptByLoad, ThreadLoads, PageKept

-----------------------------------------------------------------------------
(* The hangs.                                                              *)

\* A watchdog that is on has a limit.
LEMMA LimitIsNatural == Watched => Limit \in Nat
BY WatchAssumption DEF Watched, Limit

\* A step that touches no watchdog.
LEMMA HangsKept ==
  ASSUME HangsCounted, UNCHANGED <<unresponsive, silent, killed>>
  PROVE  HangsCounted'
BY DEF HangsCounted, Watched, Limit

\* With a web process that has recovered, the counts start again from zero.
LEMMA HangsKeptByRecovery ==
  ASSUME HangsCounted, Recovered
  PROVE  HangsCounted'
<1>1. unresponsive' = 0 /\ silent' = 0 /\ (killed' = FALSE)
  BY DEF Recovered
<1>2. killed' \in BOOLEAN
  BY <1>1, Zenon
<1>3. Watched /\ Limit > 0 => Limit \in Nat
  BY LimitIsNatural
<1>4. Watched /\ Limit > 0 => unresponsive' <= silent' /\ ~(unresponsive' >= Limit)
  BY <1>1, <1>3
<1>5. QED BY <1>1, <1>2, <1>4 DEF HangsCounted, Watched, Limit

\* The replies are the only ones that count.
LEMMA HangsKeptByReply ==
  ASSUME HangsCounted, Reply(FALSE)
  PROVE  HangsCounted'
<1>1. Watched /\ Hanging(unresponsive + 1)
  BY DEF Reply
<1> DEFINE L == Limit
<1>2. L \in Nat
  BY <1>1, LimitIsNatural
<1>3. /\ unresponsive \in Nat /\ silent \in Nat /\ killed \in BOOLEAN
      /\ L > 0 => /\ ~killed => unresponsive <= silent
                  /\ unresponsive >= L => killed /\ silent > 0
  BY <1>1 DEF HangsCounted
<1>4. /\ silent' = silent + 1
      /\ \/ unresponsive' = L /\ killed' = TRUE
         \/ unresponsive' = unresponsive + 1 /\ unresponsive + 1 > L /\ killed' = killed
         \/ unresponsive' = unresponsive + 1 /\ killed' = (killed \/ unresponsive + 1 = L)
  BY <1>1, <1>2, <1>3 DEF Hanging, Suspicious
<1> HIDE DEF L
<1>5. unresponsive' \in Nat /\ silent' \in Nat /\ killed' \in BOOLEAN
  <2>1. unresponsive' \in Nat /\ silent' \in Nat
    BY <1>2, <1>3, <1>4
  <2>2. (killed \/ unresponsive + 1 = L) \in BOOLEAN
    BY Zenon
  <2>3. killed' \in BOOLEAN
    BY <1>3, <1>4, <2>2, Zenon
  <2>4. QED BY <2>1, <2>3
<1>6. L > 0 => /\ ~killed' => unresponsive' <= silent'
               /\ unresponsive' >= L => killed' /\ silent' > 0
  <2>1. CASE unresponsive' = L /\ killed' = TRUE
    BY <1>2, <1>3, <1>4, <2>1
  <2>2. CASE unresponsive' = unresponsive + 1 /\ unresponsive + 1 > L /\ killed' = killed
    BY <1>2, <1>3, <1>4, <2>2
  <2>3. CASE unresponsive' = unresponsive + 1 /\ killed' = (killed \/ unresponsive + 1 = L)
    <3>1. killed' <=> killed \/ unresponsive + 1 = L
      BY <2>3, <1>5, Zenon
    <3>2. QED BY <1>2, <1>3, <1>4, <2>3, <3>1
  <2>4. QED BY <1>4, <2>1, <2>2, <2>3
<1>7. QED BY <1>1, <1>5, <1>6 DEF HangsCounted, Watched, L, Limit

\* Whoever is no reply leaves the counts.
LEMMA HangsLeft ==
  ASSUME [Next]_vars, ~Reply(TRUE), ~Reply(FALSE), ~IsWebProcessResponsive
  PROVE  /\ UNCHANGED <<unresponsive, silent, killed>>
         /\ asked' # asked => unresponsive' = unresponsive
<1>1. CASE Calls
  BY <1>1, CallsDo DEF Post, Request, Register, Unregister, watchVars
<1>2. CASE Configure \/ Thread \/ Destruct \/ Destructor
  BY <1>2 DEF Configure, Thread, CreateContext, CreateView, Place, RunLoop, Serve, EndLoop,
              Destruct, Destructor, DestructPosts, DestructQuits, Destructed, watchVars
<1>3. CASE Watch
  BY <1>3 DEF Watch, CheckResponsiveness, HangDetectorDispatch, WebProcessTerminated
<1>4. CASE Page
  <2>1. PageOnly
    BY <1>4 DEF Page, UriChanged, DecidePolicy, LoadCancelled, LoadFailed, LoadEnded, LoadFinished,
                Announce
  <2>2. QED BY <2>1 DEF PageOnly, watchVars
<1>5. CASE UNCHANGED vars
  BY <1>5 DEF vars, watchVars
<1>6. QED BY <1>1, <1>2, <1>3, <1>4, <1>5 DEF Next

\* No step counts more than the silent checks that there were.
LEMMA HangsStep == HangsCounted /\ [Next]_vars => HangsCounted'
<1>1. Reply(TRUE) \/ IsWebProcessResponsive => Recovered
  BY DEF Reply, IsWebProcessResponsive
<1>2. QED BY <1>1, HangsLeft, HangsKept, HangsKeptByRecovery, HangsKeptByReply

-----------------------------------------------------------------------------
\* The browser starts with nothing posted, told, loaded or missed.
LEMMA BrowserInit == Init => BrowserInv
<1> SUFFICES ASSUME Init PROVE BrowserInv
  OBVIOUS
<1>1. RequestsInOrder
  <2>1. posted \in Seq(Ops) /\ Moves = {}
    BY DEF Init, Moves
  <2>2. QED BY <2>1 DEF Init, RequestsInOrder, BeforeThePlace, States
<1>2. ToldInOrder
  BY DEF Init, ToldInOrder, ObserversAreRight, States, Watchers, Kinds
<1>3. LoadsInOrder
  <2>1. status = -1 /\ ignoreLoadFinished = FALSE /\ finishing = <<>> /\ loading = "none"
    BY DEF Init
  <2>2. ignoreLoadFinished \in BOOLEAN
    BY <2>1, Zenon
  <2>3. finishing \in Seq(Endings)
    BY <2>1
  <2>4. QED BY <2>1, <2>2, <2>3 DEF LoadsInOrder
<1>4. HangsCounted
  <2>1. unresponsive = 0 /\ silent = 0 /\ killed = FALSE
    BY DEF Init
  <2>2. killed \in BOOLEAN
    BY <2>1, Zenon
  <2>3. Watched /\ Limit > 0 => unresponsive <= silent /\ ~(unresponsive >= Limit)
    BY <2>1, LimitIsNatural
  <2>4. QED BY <2>1, <2>2, <2>3 DEF HangsCounted
<1>5. QED BY <1>1, <1>2, <1>3, <1>4 DEF BrowserInv

\* The four parts of the invariant hold in every state of the browser.
THEOREM BrowserInvariance == Spec => []BrowserInv
<1>1. BrowserInv /\ [Next]_vars => BrowserInv'
  BY RequestsStep, ToldStep, LoadsStep, HangsStep DEF BrowserInv
<1>2. QED BY <1>1, BrowserInit, PTL DEF Spec

\* Whatever the order in which clients ask for states, register and
\* unregister, and whenever the thread gets to it: the last request wins, and
\* the observers were told last what is so.
THEOREM ObserversAreToldTheState == Spec => []StateIsTold
<1>1. BrowserInv => StateIsTold
  BY DEF BrowserInv, RequestsInOrder, ToldInOrder, StateIsTold, LastRequestWins
<1>2. QED BY <1>1, BrowserInvariance, PTL

\* One step signals, or gives the browser up, only after enough silent checks.
LEMMA HangsEscalateInAStep ==
  ASSUME HangsCounted, [Next]_vars, Limit > 0
  PROVE  /\ ~killed /\ killed' =>
              silent' >= Limit \/ (state = "SUSPENDED" /\ silent' > 0)
         /\ asked' # asked /\ unresponsive' # unresponsive => killed /\ silent' > 1
<1>1. CASE Reply(FALSE)
  <2>1. Watched /\ Hanging(unresponsive + 1)
    BY <1>1 DEF Reply
  <2> DEFINE L == Limit
  <2>2. L \in Nat /\ L > 0
    BY <2>1, LimitIsNatural
  <2>3. /\ unresponsive \in Nat /\ silent \in Nat /\ killed \in BOOLEAN
        /\ ~killed => unresponsive <= silent
        /\ unresponsive >= L => killed /\ silent > 0
    BY <2>1 DEF HangsCounted
  <2>4. /\ silent' = silent + 1
        /\ \/ state = "SUSPENDED" /\ asked' = asked
           \/ unresponsive + 1 > L /\ killed' = killed
           \/ /\ killed' = (killed \/ unresponsive + 1 = L)
              /\ asked' # asked => unresponsive + 1 = 2 * L
    BY <2>1, <2>2, <2>3 DEF Hanging, Suspicious
  <2> HIDE DEF L
  <2>5. CASE state = "SUSPENDED" /\ asked' = asked
    BY <2>3, <2>4, <2>5
  <2>6. CASE unresponsive + 1 > L /\ killed' = killed
    BY <2>2, <2>3, <2>4, <2>6
  <2>7. CASE /\ killed' = (killed \/ unresponsive + 1 = L)
             /\ asked' # asked => unresponsive + 1 = 2 * L
    <3>1. ~killed /\ killed' => silent' >= L
      BY <2>2, <2>3, <2>4, <2>7
    <3>2. asked' # asked => killed /\ silent' > 1
      BY <2>2, <2>3, <2>4, <2>7
    <3>3. QED BY <3>1, <3>2 DEF L
  <2>8. QED BY <2>4, <2>5, <2>6, <2>7
<1>2. CASE Reply(TRUE) \/ IsWebProcessResponsive
  <2>1. Recovered
    BY <1>2 DEF Reply, IsWebProcessResponsive
  <2>2. QED BY <2>1 DEF Recovered
<1>3. CASE ~Reply(TRUE) /\ ~Reply(FALSE) /\ ~IsWebProcessResponsive
  BY <1>3, HangsLeft
<1>4. QED BY <1>1, <1>2, <1>3

\* One step announces the load that it completes, and no end that is not its own.
LEMMA LoadsAnnouncedInAStep ==
  ASSUME LoadsInOrder, [Next]_vars
  PROVE  /\ inputs' # inputs /\ loading # "none" /\ loading' = "none" /\ finishing' = <<>>
              => finished' = [url |-> loading, times |-> finished.times + 1]
         /\ finishing # <<>> /\ finishing' = Tail(finishing)
              /\ (Head(finishing) = "ended" \/ loading \in Http) => finished' = finished
<1>1. finishing # <<>> => finishing # Tail(finishing)
  <2>1. finishing \in Seq(Endings)
    BY DEF LoadsInOrder
  <2>2. finishing # <<>> => Len(Tail(finishing)) # Len(finishing)
    BY <2>1
  <2>3. QED BY <2>2
<1>2. CASE Page
  <2>1. CASE LoadFinished
    <3>1. finishing = <<>> /\ Announce(TRUE) /\ loading # "none"
      BY <2>1 DEF LoadFinished
    <3>2. ~ignoreLoadFinished /\ loading = url
      BY <3>1 DEF LoadsInOrder
    <3>3. finished' = [url |-> loading, times |-> finished.times + 1]
      BY <3>1, <3>2 DEF Announce, Suppressed
    <3>4. QED BY <3>1, <3>3
  <2>2. ASSUME NEW complete \in BOOLEAN, LoadEnded(complete)
        PROVE  /\ loading' = loading
               /\ Head(finishing) = "ended" \/ loading \in Http => finished' = finished
    <3>1. /\ finishing # <<>> /\ Head(finishing) \in {"ended", "failed"} /\ Announce(complete)
          /\ complete => loading = "none"
      BY <2>2 DEF LoadEnded
    <3>2. CASE Head(finishing) = "ended"
      <4>1. ignoreLoadFinished
        BY <3>1, <3>2 DEF LoadsInOrder
      <4>2. QED BY <4>1, <3>1, <2>2 DEF Announce, LoadEnded
    <3>3. CASE Head(finishing) = "failed" /\ loading \in Http
      <4>1. loading # "none" /\ ~complete
        BY <3>1, <3>3, URLAssumption
      <4>2. loading = url /\ status = -1
        BY <3>1, <3>3, <4>1 DEF LoadsInOrder
      <4>3. Suppressed(complete)
        BY <3>3, <4>1, <4>2 DEF Suppressed
      <4>4. QED BY <4>3, <3>1, <2>2 DEF Announce, LoadEnded
    <3>4. CASE Head(finishing) = "failed" /\ loading \notin Http
      BY <3>4, <2>2 DEF LoadEnded
    <3>5. QED BY <3>1, <3>2, <3>3, <3>4
  <2>3. CASE \E u \in URLs : UriChanged(u)
    BY <2>3, URLAssumption DEF UriChanged
  <2>4. CASE LoadFailed
    BY <2>4 DEF LoadFailed
  <2>5. CASE DecidePolicy
    BY <2>5 DEF DecidePolicy
  <2>6. CASE LoadCancelled
    BY <2>6 DEF LoadCancelled
  <2>7. QED BY <1>2, <2>1, <2>2, <2>3, <2>4, <2>5, <2>6 DEF Page
<1>3. CASE Place \/ Serve
  <2>1. inputs' = inputs
    BY <1>3 DEF Place, Serve
  <2>2. finished' = finished
    BY <1>3, ThreadLoads, LoadsKeptByLoad DEF pageVars
  <2>3. QED BY <2>1, <2>2
<1>4. CASE ~Place /\ ~Serve /\ ~Page
  BY <1>4, <1>1, PageKept DEF pageVars
<1>5. QED BY <1>2, <1>3, <1>4

\* A load that is complete is announced, whatever loads were given up or failed
\* before, and no end of these is taken for its own.
THEOREM CompleteLoadsAreAnnounced == Spec => LoadsAnnounced
<1>1. BrowserInv /\ [Next]_vars =>
        [/\ inputs' # inputs /\ loading # "none" /\ loading' = "none" /\ finishing' = <<>>
              => finished' = [url |-> loading, times |-> finished.times + 1]
         /\ finishing # <<>> /\ finishing' = Tail(finishing)
              /\ (Head(finishing) = "ended" \/ loading \in Http) => finished' = finished]_vars
  BY LoadsAnnouncedInAStep DEF BrowserInv
<1>2. QED
  BY <1>1, BrowserInvariance, PTL DEF Spec, LoadsAnnounced

\* A process is signalled, and the browser deactivated, after as many silent
\* checks as it takes.
THEOREM HangsAreEscalated == Spec => HangsEscalate
<1>1. BrowserInv /\ [Next]_vars =>
        [Limit > 0 =>
           /\ ~killed /\ killed' =>
                silent' >= Limit \/ (state = "SUSPENDED" /\ silent' > 0)
           /\ asked' # asked /\ unresponsive' # unresponsive => killed /\ silent' > 1]_vars
  BY HangsEscalateInAStep DEF BrowserInv
<1>2. QED
  BY <1>1, BrowserInvariance, PTL DEF Spec, HangsEscalate

-----------------------------------------------------------------------------
(* The cookie jar.  The copy and the cookies that are on their way to it   *)
(* are those of the store, unless a signal that they changed comes after.  *)

FromNetwork == [what : {"changed"}] \cup [what : {"cookies"}, are : Jar!Contents]
ToNetwork   == [op : {"get"}] \cup [op : {"replace"}, with : Jar!Contents]

Payloads ==
  [empty : BOOLEAN, version : {Jar!Version}, checksum : Jar!Contents,
   key : Keys \cup {"none"}, data : Jar!Contents]

ChangedIn(q) == \E i \in 1 .. Len(q) : q[i].what = "changed"

LastIs(q, s) ==
  \A i \in 1 .. Len(q) :
    q[i].what = "cookies" /\ (\A j \in i + 1 .. Len(q) : q[j].what # "changed") => q[i].are = s

JarInv ==
  /\ copy \in Jar!Contents /\ store \in Jar!Contents
  /\ toPost \in Seq({"refresh", "set"})
  /\ toNetwork \in Seq(ToNetwork) /\ fromNetwork \in Seq(FromNetwork)
  /\ key \in Keys \cup {"none"} /\ cloud \subseteq Payloads
  /\ LastIs(fromNetwork, store)
  /\ fresh /\ ~ChangedIn(fromNetwork) => copy = store

\* A signal of a change joins those under way.
LEMMA SignalSent ==
  ASSUME NEW q \in Seq(FromNetwork), NEW s
  PROVE  LET r == Append(q, [what |-> "changed"]) IN
         r \in Seq(FromNetwork) /\ LastIs(r, s) /\ ChangedIn(r)
<1>1. PICK r : r = Append(q, [what |-> "changed"])
  OBVIOUS
<1>2. [what |-> "changed"] \in FromNetwork
  BY DEF FromNetwork
<1>3. r \in Seq(FromNetwork) /\ Len(q) \in Nat /\ Len(r) = Len(q) + 1
      /\ r[Len(r)].what = "changed"
  BY <1>1, <1>2
<1>4. QED BY <1>1, <1>3 DEF LastIs, ChangedIn

\* Cookies that are sent are the last ones, until they change again.
LEMMA CookiesSent ==
  ASSUME NEW q \in Seq(FromNetwork), NEW s \in Jar!Contents, LastIs(q, s)
  PROVE  LET r == Append(q, [what |-> "cookies", are |-> s]) IN
         r \in Seq(FromNetwork) /\ LastIs(r, s) /\ (ChangedIn(r) <=> ChangedIn(q))
<1>1. PICK r : r = Append(q, [what |-> "cookies", are |-> s])
  OBVIOUS
<1>2. [what |-> "cookies", are |-> s] \in FromNetwork
  BY DEF FromNetwork
<1>3. /\ r \in Seq(FromNetwork) /\ Len(q) \in Nat /\ Len(r) = Len(q) + 1
      /\ \A i \in 1 .. Len(q) : r[i] = q[i]
      /\ r[Len(r)].what = "cookies" /\ r[Len(r)].are = s
  BY <1>1, <1>2
<1>4. ChangedIn(r) <=> ChangedIn(q)
  BY <1>3 DEF ChangedIn
<1>5. ASSUME NEW i \in 1 .. Len(r), r[i].what = "cookies",
             \A j \in i + 1 .. Len(r) : r[j].what # "changed"
      PROVE  r[i].are = s
  <2>1. CASE i = Len(r)
    BY <1>3, <2>1
  <2>2. CASE i # Len(r)
    BY <1>3, <1>5, <2>2 DEF LastIs
  <2>3. QED BY <2>1, <2>2
<1>6. QED BY <1>1, <1>3, <1>4, <1>5 DEF LastIs

\* A message that arrives was the oldest of those under way.
LEMMA MessageTaken ==
  ASSUME NEW q \in Seq(FromNetwork), q # <<>>, NEW s, LastIs(q, s)
  PROVE  /\ Tail(q) \in Seq(FromNetwork) /\ Head(q) \in FromNetwork /\ LastIs(Tail(q), s)
         /\ ChangedIn(q) <=> Head(q).what = "changed" \/ ChangedIn(Tail(q))
         /\ Head(q).what = "cookies" /\ ~ChangedIn(Tail(q)) => Head(q).are = s
<1>1. PICK r : r = Tail(q)
  OBVIOUS
<1>2. /\ r \in Seq(FromNetwork) /\ Len(q) \in Nat \ {0} /\ Len(r) = Len(q) - 1
      /\ \A i \in 1 .. Len(r) : r[i] = q[i + 1]
      /\ Head(q) = q[1] /\ Head(q) \in FromNetwork
  BY <1>1
<1>3. \A i \in 1 .. Len(q) : i # 1 => i - 1 \in 1 .. Len(r) /\ q[i] = r[i - 1]
  BY <1>2
<1>4. ChangedIn(q) <=> Head(q).what = "changed" \/ ChangedIn(r)
  <2>1. ChangedIn(r) => ChangedIn(q)
    BY <1>2 DEF ChangedIn
  <2>2. ChangedIn(q) /\ Head(q).what # "changed" => ChangedIn(r)
    BY <1>2, <1>3 DEF ChangedIn
  <2>3. Head(q).what = "changed" => ChangedIn(q)
    BY <1>2 DEF ChangedIn
  <2>4. QED BY <2>1, <2>2, <2>3
<1>5. ASSUME NEW i \in 1 .. Len(r), r[i].what = "cookies",
             \A j \in i + 1 .. Len(r) : r[j].what # "changed"
      PROVE  r[i].are = s
  <2>1. i + 1 \in 1 .. Len(q) /\ q[i + 1] = r[i]
    BY <1>2
  <2>2. \A j \in (i + 1) + 1 .. Len(q) : q[j].what # "changed"
    BY <1>2, <1>3, <1>5
  <2>3. QED BY <1>5, <2>1, <2>2 DEF LastIs
<1>6. ASSUME Head(q).what = "cookies", ~ChangedIn(r) PROVE Head(q).are = s
  <2>1. ASSUME NEW j \in 1 + 1 .. Len(q) PROVE q[j].what # "changed"
    <3>1. j - 1 \in 1 .. Len(r) /\ q[j] = r[j - 1]
      BY <1>2, <1>3
    <3>2. QED BY <1>6, <3>1 DEF ChangedIn
  <2>2. 1 \in 1 .. Len(q)
    BY <1>2
  <2>3. QED BY <1>2, <1>6, <2>1, <2>2 DEF LastIs
<1>7. QED BY <1>1, <1>2, <1>4, <1>5, <1>6 DEF LastIs

\* What a client sets was packed from cookies, or is refused.
LEMMA PayloadsAreCookies ==
  ASSUME JarInv, NEW p \in Jar!Returned, Jar!CanUnpack(p)
  PROVE  Jar!Unpack(p) \in Jar!Contents
<1>1. PICK q \in cloud : p = q \/ p = [q EXCEPT !.data = Jar!Garbage]
                        \/ p = [q EXCEPT !.version = Jar!Version + 1]
  BY DEF Jar!Returned
<1>2. Jar!None \in Jar!Contents
  BY DEF Jar!Contents
<1>3. CASE p.empty
  BY <1>2, <1>3 DEF Jar!Unpack
<1>4. CASE ~p.empty
  <2>1. p.checksum = p.data /\ Jar!Unpack(p) = p.data
    BY <1>4 DEF Jar!CanUnpack, Jar!Unpack
  <2>2. q \in Payloads
    BY DEF JarInv
  <2>3. p.checksum = q.checksum /\ q.checksum \in Jar!Contents
    BY <1>1, <2>2 DEF Payloads
  <2>4. QED BY <2>1, <2>3
<1>5. QED BY <1>3, <1>4

\* No step leaves a copy fresh that is stale, with no signal under way.
LEMMA JarStep == JarInv /\ [Jar!Next]_jarVars => JarInv'
<1> SUFFICES ASSUME JarInv, [Jar!Next]_jarVars PROVE JarInv'
  OBVIOUS
<1>1. CASE UNCHANGED jarVars
  BY <1>1 DEF jarVars, JarInv
<1>2. CASE Jar!SubSystemsChanged \/ Jar!GetRefreshed \/ Jar!GetTimedOut
  BY <1>2 DEF JarInv, Jar!SubSystemsChanged, Jar!GetRefreshed, Jar!GetTimedOut
<1>3. CASE Jar!GetFresh \/ Jar!GetPacked
  <2>1. cloud' = Jar!Answered
        /\ UNCHANGED <<copy, fresh, toPost, toNetwork, fromNetwork, store>>
    BY <1>3 DEF Jar!GetFresh, Jar!GetPacked
  <2>2. Jar!Pack(copy) \in Payloads
    BY DEF JarInv, Payloads, Jar!Pack
  <2>3. cloud' \subseteq Payloads /\ key' \in Keys \cup {"none"}
    BY <1>3, <2>1, <2>2 DEF JarInv, Jar!Answered, Jar!GetFresh, Jar!GetPacked
  <2>4. QED BY <2>1, <2>3 DEF JarInv
<1>4. CASE Jar!GetStale
  BY <1>4 DEF JarInv, Jar!GetStale
<1>5. CASE \E p \in Jar!Returned : Jar!Set(p)
  <2>1. PICK p \in Jar!Returned : Jar!Set(p)
    BY <1>5
  <2>2. copy' \in Jar!Contents
    BY <2>1, PayloadsAreCookies DEF Jar!Set
  <2>3. QED BY <2>1, <2>2 DEF JarInv, Jar!Set
<1>6. CASE Jar!Refresh \/ Jar!SetCookies
  <2>1. PICK m \in ToNetwork : toNetwork' = Append(toNetwork, m)
    BY <1>6 DEF JarInv, ToNetwork, Jar!Refresh, Jar!SetCookies
  <2>2. toPost' = Tail(toPost) /\ toPost # <<>>
        /\ UNCHANGED <<key, copy, fresh, fromNetwork, store, cloud>>
    BY <1>6 DEF Jar!Refresh, Jar!SetCookies
  <2>3. toPost' \in Seq({"refresh", "set"}) /\ toNetwork' \in Seq(ToNetwork)
    BY <2>1, <2>2 DEF JarInv
  <2>4. QED BY <2>2, <2>3 DEF JarInv
<1>7. CASE Jar!Network
  <2>1. /\ toNetwork # <<>> /\ toNetwork' = Tail(toNetwork) /\ Head(toNetwork) \in ToNetwork
        /\ toNetwork' \in Seq(ToNetwork) /\ UNCHANGED <<key, copy, fresh, toPost, cloud>>
    BY <1>7 DEF Jar!Network, JarInv
  <2>2. CASE Head(toNetwork).op = "get"
    <3>1. fromNetwork' = Append(fromNetwork, [what |-> "cookies", are |-> store])
          /\ store' = store
      BY <1>7, <2>2 DEF Jar!Network
    <3>2. QED BY <2>1, <3>1, CookiesSent DEF JarInv
  <2>3. CASE Head(toNetwork).op # "get" /\ Head(toNetwork).with # store
    <3>1. /\ fromNetwork' = Append(fromNetwork, [what |-> "changed"])
          /\ store' = Head(toNetwork).with
      BY <1>7, <2>3 DEF Jar!Network
    <3>2. Head(toNetwork).with \in Jar!Contents
      BY <2>1, <2>3 DEF ToNetwork
    <3>3. QED BY <2>1, <3>1, <3>2, SignalSent DEF JarInv
  <2>4. CASE Head(toNetwork).op # "get" /\ Head(toNetwork).with = store
    <3>1. UNCHANGED <<fromNetwork, store>>
      BY <1>7, <2>4 DEF Jar!Network
    <3>2. QED BY <2>1, <3>1 DEF JarInv
  <2>5. QED BY <2>2, <2>3, <2>4
<1>8. CASE \E c \in Jar!Contents : Jar!PageSets(c)
  <2>1. PICK c \in Jar!Contents : Jar!PageSets(c)
    BY <1>8
  <2>2. /\ fromNetwork' = Append(fromNetwork, [what |-> "changed"]) /\ store' = c
        /\ UNCHANGED <<key, copy, fresh, toPost, toNetwork, cloud>>
    BY <2>1 DEF Jar!PageSets
  <2>3. QED BY <2>2, SignalSent DEF JarInv
<1>9. CASE Jar!CookiesChanged
  <2>1. /\ fromNetwork # <<>> /\ fromNetwork' = Tail(fromNetwork) /\ ~fresh'
        /\ UNCHANGED <<key, copy, toPost, toNetwork, store, cloud>>
    BY <1>9 DEF Jar!CookiesChanged, Jar!MarkedAsStale
  <2>2. QED BY <2>1, MessageTaken DEF JarInv
<1>10. CASE Jar!Refreshed
  <2>1. /\ fromNetwork # <<>> /\ fromNetwork' = Tail(fromNetwork)
        /\ Head(fromNetwork).what = "cookies" /\ copy' = Head(fromNetwork).are
        /\ UNCHANGED <<key, toPost, toNetwork, store, cloud>>
    BY <1>10 DEF Jar!Refreshed
  <2>2. /\ fromNetwork' \in Seq(FromNetwork) /\ LastIs(fromNetwork', store)
        /\ Head(fromNetwork) \in FromNetwork
        /\ ~ChangedIn(fromNetwork') => copy' = store
    BY <2>1, MessageTaken DEF JarInv
  <2>3. copy' \in Jar!Contents
    BY <2>1, <2>2 DEF FromNetwork
  <2>4. QED BY <2>1, <2>2, <2>3 DEF JarInv
<1>11. QED
  BY <1>1, <1>2, <1>3, <1>4, <1>5, <1>6, <1>7, <1>8, <1>9, <1>10 DEF Jar!Next

-----------------------------------------------------------------------------
(* The web extension.  There is one page: who has the controller of AAMP   *)
(* is the one that unloads it.                                             *)

ExtensionInv ==
  /\ headers = wanted
  /\ alive \subseteq Pages /\ controllers \subseteq alive
  /\ controllers # {} => aamp

\* No step of page or browser loses the headers given last.
LEMMA ExtensionStep == ExtensionInv /\ [Extension!Next]_extensionVars => ExtensionInv'
<1> SUFFICES ASSUME ExtensionInv, [Extension!Next]_extensionVars PROVE ExtensionInv'
  OBVIOUS
<1>1. CASE UNCHANGED extensionVars
  BY <1>1 DEF extensionVars, ExtensionInv
<1>2. ASSUME NEW p \in Pages, Extension!PageCreated(p) PROVE ExtensionInv'
  BY <1>2 DEF ExtensionInv, Extension!PageCreated
<1>3. ASSUME NEW p \in Pages, Extension!ProvisionalLoad(p) PROVE ExtensionInv'
  <2>1. controllers' = {}
    BY <1>3, PageAssumption DEF ExtensionInv, Extension!ProvisionalLoad, Extension!Unloaded
  <2>2. QED BY <1>3, <2>1 DEF ExtensionInv, Extension!ProvisionalLoad
<1>4. ASSUME NEW p \in Pages, NEW b \in BOOLEAN, Extension!WindowObjectCleared(p, b)
      PROVE  ExtensionInv'
  <2>1. Extension!UnloadedFirst(p) = {}
    BY <1>4, PageAssumption
    DEF ExtensionInv, Extension!UnloadedFirst, Extension!Unloaded, Extension!WindowObjectCleared
  <2>2. QED BY <1>4, <2>1 DEF ExtensionInv, Extension!WindowObjectCleared
<1>5. ASSUME NEW p \in Pages, NEW m, Extension!Send(p, m) \/ Extension!BridgeQuery(p)
      PROVE  ExtensionInv'
  BY <1>5 DEF ExtensionInv, Extension!Send, Extension!BridgeQuery
<1>6. CASE Extension!UserMessageReceived
  BY <1>6 DEF ExtensionInv, Extension!UserMessageReceived, Extension!SetRequestHeaders
<1>7. CASE Extension!QueryTold
  BY <1>7 DEF ExtensionInv, Extension!QueryTold
<1>8. QED BY <1>1, <1>2, <1>3, <1>4, <1>5, <1>6, <1>7 DEF Extension!Next

-----------------------------------------------------------------------------
\* The copy of the cookies is fresh when it says so, or will hear otherwise;
\* and the requests of the page get the headers that the browser gave it.
THEOREM CookiesAndHeaders == MCSpec => []SmallPartsOfThePage
<1>1. MCInit => JarInv /\ ExtensionInv
  <2>1. ASSUME Jar!Init PROVE JarInv
    BY <2>1 DEF JarInv, Jar!Init, Jar!Contents, LastIs, ChangedIn
  <2>2. ASSUME Extension!Init PROVE ExtensionInv
    BY <2>2 DEF ExtensionInv, Extension!Init
  <2>3. QED BY <2>1, <2>2 DEF MCInit
<1>2. ASSUME JarInv, ExtensionInv,
             [MCNext]_<<vars, jarVars, extensionVars, controlVars, outVars, meterVars, group>>
      PROVE  (JarInv /\ ExtensionInv)'
  <2>1. [Jar!Next]_jarVars /\ [Extension!Next]_extensionVars
    BY <1>2 DEF MCNext
  <2>2. QED BY <1>2, <2>1, JarStep, ExtensionStep
<1>3. JarInv /\ ExtensionInv => SmallPartsOfThePage
  BY DEF JarInv, ExtensionInv, SmallPartsOfThePage, Jar!JarIsFresh, Jar!Changes, ChangedIn,
         Extension!HeadersOfThePage
<1>4. QED BY <1>1, <1>2, <1>3, PTL DEF MCSpec

-----------------------------------------------------------------------------
(* PerformanceMetrics.  An observable is of the kind that its plugin       *)
(* allows, which says what it holds and where it is registered; the last   *)
(* launch that is logged is the one that the logger knows.                 *)

Hosts == {Host[link] : link \in LaunchURLs \ {"about:blank"}}

Logger ==
  [snapshot : LaunchURLs \cup {"none"}, did : BOOLEAN, last : Hosts \cup {"none"}]

MetricsTypes ==
  /\ handler \in {"none", "callsign", "classname"}
  /\ listening \in BOOLEAN /\ up \in [Plugins -> BOOLEAN]
  /\ listening <=> handler # "none"

Observing(p) ==
  /\ observable[p] # "none" <=> listening /\ Metrics!Watched(p) /\ up[p]
  /\ observable[p] # "none" =>
       /\ observable[p] = Metrics!Kind(p)
       /\ registered[p] = Metrics!Registrations(p)
       /\ Metrics!Holds(p) \subseteq held[p]
       /\ held[p] \subseteq Metrics!Holds(p) \cup {"controller"}
  /\ observable[p] = "none" => registered[p] = {} /\ held[p] \subseteq {"controller"}

Launched(p) ==
  /\ ~logger[p].did => launches[p] = <<>>
  /\ logger[p].did => launches[p] # <<>> /\ launches[p][Len(launches[p])] = logger[p].last
  /\ \A i \in 1 .. Len(launches[p]) - 1 : launches[p][i] # launches[p][i + 1]

LaunchesInOrder ==
  /\ logger \in [Plugins -> Logger] /\ launches \in [Plugins -> Seq(Hosts)]
  /\ \A p \in Plugins : Launched(p)

MetricsInv ==
  /\ MetricsTypes
  /\ \A p \in Plugins : Observing(p)
  /\ LaunchesInOrder

\* An observable is of one of the four kinds.
LEMMA KindIs == \A p : Metrics!Kind(p) \in {"basic", "state", "browser", "webbrowser"}
BY DEF Metrics!Kind

\* An observable is registered with nothing but what it holds, and releases
\* all that it holds, with the exception of the controller.
LEMMA HeldIsReleased ==
  ASSUME NEW p
  PROVE  /\ Metrics!Registrations(p) \subseteq Metrics!Holds(p)
         /\ observable[p] = Metrics!Kind(p) =>
              Metrics!Holds(p) \ Metrics!Releases(p) \subseteq {"controller"}
<1>1. Metrics!BasicHolds(p) \subseteq Metrics!BasicReleases
  BY DEF Metrics!BasicHolds, Metrics!BasicReleases, Metrics!SysLogHolds, Metrics!TraceHolds,
         Metrics!SysLogReleases, Metrics!TraceReleases
<1>2. Metrics!StateHolds(p) \subseteq Metrics!StateReleases(p) \cup {"controller"}
  BY <1>1 DEF Metrics!StateHolds, Metrics!StateReleases, Metrics!States
<1>3. CASE Metrics!Kind(p) = "basic"
  BY <1>1, <1>3 DEF Metrics!Registrations, Metrics!Holds, Metrics!Releases
<1>4. CASE Metrics!Kind(p) = "state"
  BY <1>2, <1>4 DEF Metrics!Registrations, Metrics!Holds, Metrics!Releases, Metrics!StateHolds
<1>5. CASE Metrics!Kind(p) = "browser"
  <2>1. Metrics!BrowserHolds(p) \subseteq Metrics!BrowserReleases(p) \cup {"controller"}
    BY <1>2 DEF Metrics!BrowserHolds, Metrics!BrowserReleases
  <2>2. Metrics!Registrations(p) = {"browser"} \cup Metrics!States(p)
        /\ Metrics!Holds(p) = (Faces[p] \cap {"controller"}) \cup Metrics!BrowserHolds(p)
    BY <1>5 DEF Metrics!Registrations, Metrics!Holds
  <2>3. observable[p] = Metrics!Kind(p) => Metrics!Releases(p) = Metrics!BrowserReleases(p)
    BY <1>5 DEF Metrics!Releases
  <2>4. {"browser"} \cup Metrics!States(p) \subseteq Metrics!BrowserHolds(p)
    BY DEF Metrics!BrowserHolds, Metrics!StateHolds
  <2>5. QED BY <2>1, <2>2, <2>3, <2>4
<1>6. CASE Metrics!Kind(p) = "webbrowser"
  <2>1. Metrics!WebBrowserHolds(p) \subseteq Metrics!WebBrowserReleases(p) \cup {"controller"}
    BY <1>2 DEF Metrics!WebBrowserHolds, Metrics!WebBrowserReleases
  <2>2. Metrics!Registrations(p) = {"webbrowser"} \cup Metrics!States(p)
        /\ Metrics!Holds(p) = (Faces[p] \cap {"controller"}) \cup Metrics!WebBrowserHolds(p)
    BY <1>6 DEF Metrics!Registrations, Metrics!Holds
  <2>3. observable[p] = Metrics!Kind(p) => Metrics!Releases(p) = Metrics!WebBrowserReleases(p)
    BY <1>6 DEF Metrics!Releases
  <2>4. {"webbrowser"} \cup Metrics!States(p) \subseteq Metrics!WebBrowserHolds(p)
    BY DEF Metrics!WebBrowserHolds, Metrics!StateHolds
  <2>5. QED BY <2>1, <2>2, <2>3, <2>4
<1>7. QED BY <1>3, <1>4, <1>5, <1>6, KindIs

\* Whether a plugin is watched, and what an observable is, depends on the
\* handler and the build only.
LEMMA ObservingKept ==
  ASSUME NEW p, Observing(p),
         UNCHANGED <<build, listening, observable[p], held[p], registered[p]>>,
         (Metrics!Watched(p) /\ up[p])' <=> Metrics!Watched(p) /\ up[p]
  PROVE  Observing(p)'
<1>1. Metrics!Kind(p)' = Metrics!Kind(p)
  BY DEF Metrics!Kind
<1>2. Metrics!Registrations(p)' = Metrics!Registrations(p)
  BY <1>1 DEF Metrics!Registrations, Metrics!States
<1>3. Metrics!Holds(p)' = Metrics!Holds(p)
  BY <1>1 DEF Metrics!Holds, Metrics!WebBrowserHolds, Metrics!BrowserHolds, Metrics!StateHolds,
              Metrics!States, Metrics!BasicHolds, Metrics!SysLogHolds, Metrics!TraceHolds
<1>4. QED BY <1>1, <1>2, <1>3 DEF Observing

\* What Observe and Disable make of a plugin.
LEMMA ObservedInOrder ==
  ASSUME NEW P \in SUBSET Plugins, Metrics!Observe(P), build' = build, NEW p \in P,
         Observing(p), observable[p] = "none", (listening /\ Metrics!Watched(p) /\ up[p])'
  PROVE  Observing(p)'
<1>1. /\ observable'[p] = Metrics!Kind(p) /\ registered'[p] = Metrics!Registrations(p)
      /\ held'[p] = held[p] \cup Metrics!Holds(p) /\ held[p] \subseteq {"controller"}
  BY DEF Metrics!Observe, Observing
<1>2. /\ Metrics!Kind(p)' = Metrics!Kind(p)
      /\ Metrics!Registrations(p)' = Metrics!Registrations(p)
      /\ Metrics!Holds(p)' = Metrics!Holds(p)
  <2>1. Metrics!Kind(p)' = Metrics!Kind(p)
    BY DEF Metrics!Kind
  <2>2. Metrics!Registrations(p)' = Metrics!Registrations(p)
    BY <2>1 DEF Metrics!Registrations, Metrics!States
  <2>3. Metrics!Holds(p)' = Metrics!Holds(p)
    BY <2>1 DEF Metrics!Holds, Metrics!WebBrowserHolds, Metrics!BrowserHolds, Metrics!StateHolds,
                Metrics!States, Metrics!BasicHolds, Metrics!SysLogHolds, Metrics!TraceHolds
  <2>4. QED BY <2>1, <2>2, <2>3
<1>3. Metrics!Kind(p) # "none"
  BY KindIs
<1>4. QED BY <1>1, <1>2, <1>3 DEF Observing

\* A plugin that is observed no more has nothing registered and gives back what
\* it held, but for the controller that nobody releases.
LEMMA DisabledInOrder ==
  ASSUME NEW P \in SUBSET Plugins, Metrics!Disable(P), NEW p \in P,
         Observing(p), observable[p] # "none", ~(listening /\ Metrics!Watched(p) /\ up[p])'
  PROVE  Observing(p)'
<1>1. /\ observable'[p] = "none" /\ registered'[p] = {}
      /\ held'[p] = held[p] \ Metrics!Releases(p)
  BY DEF Metrics!Disable
<1>2. held'[p] \subseteq {"controller"}
  BY <1>1, HeldIsReleased DEF Observing
<1>3. QED BY <1>1, <1>2 DEF Observing

\* A plugin is observed exactly while it is up and watched by the handler.
LEMMA ObservingStep ==
  MetricsInv /\ [Metrics!Next]_meterVars => (MetricsTypes /\ \A p \in Plugins : Observing(p))'
<1> SUFFICES ASSUME MetricsInv, [Metrics!Next]_meterVars
             PROVE  (MetricsTypes /\ \A p \in Plugins : Observing(p))'
  OBVIOUS
<1>t. MetricsTypes /\ \A p \in Plugins : Observing(p)
  BY DEF MetricsInv
<1>1. CASE UNCHANGED meterVars \/ Metrics!InitializeFails
      \/ \E p \in Plugins, link \in LaunchURLs :
           Metrics!URLChange(p, link) \/ \E good \in BOOLEAN : Metrics!LoadFinished(p, link, good)
  <2>1. UNCHANGED <<build, handler, listening, up, observable, held, registered>>
    BY <1>1 DEF meterVars, Metrics!InitializeFails, Metrics!Unobserved, Metrics!URLChange,
                Metrics!LoadFinished
  <2>2. \A p \in Plugins : Metrics!Watched(p)' = Metrics!Watched(p)
    BY <2>1 DEF Metrics!Watched
  <2>3. QED BY <1>t, <2>1, <2>2, ObservingKept DEF MetricsTypes
<1>2. ASSUME NEW choice \in {"callsign", "classname"}, Metrics!Initialize(choice)
      PROVE  (MetricsTypes /\ \A p \in Plugins : Observing(p))'
  <2> DEFINE P == {p \in Plugins : /\ up[p]
                                  /\ IF choice = "callsign" THEN p = Named ELSE p \in OfClass}
  <2>1. /\ handler = "none" /\ handler' = choice /\ listening' = TRUE /\ Metrics!Observe(P)
        /\ UNCHANGED <<build, up>>
    BY <1>2 DEF Metrics!Initialize
  <2>2. \A p \in Plugins : observable[p] = "none"
    BY <1>t, <2>1 DEF MetricsTypes, Observing
  <2>3. \A p \in Plugins : p \in P <=> (listening /\ Metrics!Watched(p) /\ up[p])'
    BY <2>1 DEF Metrics!Watched
  <2>4. ASSUME NEW p \in Plugins PROVE Observing(p)'
    <3>1. CASE p \in P
      BY <1>t, <2>1, <2>2, <2>3, <3>1, ObservedInOrder
    <3>2. CASE p \notin P
      <4>1. observable'[p] = "none" /\ UNCHANGED <<held[p], registered[p]>>
        BY <2>1, <2>2, <3>2 DEF Metrics!Observe
      <4>2. QED BY <1>t, <2>2, <2>3, <3>2, <4>1 DEF Observing
    <3>3. QED BY <3>1, <3>2
  <2>5. MetricsTypes'
    BY <1>t, <2>1 DEF MetricsTypes
  <2>6. QED BY <2>4, <2>5
<1>3. CASE Metrics!Deinitialize
  <2> DEFINE P == {p \in Plugins : observable[p] # "none"}
  <2>1. /\ handler' = "none" /\ listening' = FALSE /\ Metrics!Disable(P)
        /\ UNCHANGED <<build, up>>
    BY <1>3 DEF Metrics!Deinitialize
  <2>2. ASSUME NEW p \in Plugins PROVE Observing(p)'
    <3>1. CASE p \in P
      BY <1>t, <2>1, <3>1, DisabledInOrder
    <3>2. CASE p \notin P
      <4>1. observable'[p] = "none" /\ UNCHANGED <<held[p], registered[p]>>
        BY <2>1, <3>2 DEF Metrics!Disable
      <4>2. QED BY <1>t, <2>1, <3>2, <4>1 DEF Observing
    <3>3. QED BY <3>1, <3>2
  <2>3. MetricsTypes'
    BY <1>t, <2>1 DEF MetricsTypes
  <2>4. QED BY <2>2, <2>3
<1>4. ASSUME NEW q \in Plugins, Metrics!PluginActivated(q)
      PROVE  (MetricsTypes /\ \A p \in Plugins : Observing(p))'
  <2>1. /\ ~up[q] /\ up' = [up EXCEPT ![q] = TRUE] /\ UNCHANGED <<build, handler, listening>>
        /\ IF listening /\ Metrics!Watched(q) THEN Metrics!Observe({q}) ELSE Metrics!Unobserved
    BY <1>4 DEF Metrics!PluginActivated
  <2>2. MetricsTypes' /\ \A p \in Plugins : up'[p] <=> up[p] \/ p = q
    BY <1>t, <2>1 DEF MetricsTypes
  <2>3. \A p \in Plugins : Metrics!Watched(p)' = Metrics!Watched(p)
    BY <2>1 DEF Metrics!Watched
  <2>4. observable[q] = "none"
    BY <1>t, <2>1 DEF Observing
  <2>5. ASSUME NEW p \in Plugins PROVE Observing(p)'
    <3>1. CASE p = q /\ listening /\ Metrics!Watched(q)
      <4>1. Metrics!Observe({q}) /\ (listening /\ Metrics!Watched(p) /\ up[p])'
        BY <2>1, <2>2, <2>3, <3>1
      <4>2. QED BY <1>t, <2>1, <2>4, <3>1, <4>1, ObservedInOrder
    <3>2. CASE p = q /\ ~(listening /\ Metrics!Watched(q))
      <4>1. UNCHANGED <<observable[p], held[p], registered[p]>>
        BY <2>1, <3>2 DEF Metrics!Unobserved
      <4>2. QED BY <1>t, <2>1, <2>3, <2>4, <3>2, <4>1 DEF Observing
    <3>3. CASE p # q
      <4>1. UNCHANGED <<observable[p], held[p], registered[p]>>
        <5>1. CASE listening /\ Metrics!Watched(q)
          <6>1. Metrics!Observe({q})
            BY <2>1, <5>1
          <6>2. p \in Plugins \ {q}
            BY <3>3
          <6>3. QED BY <6>1, <6>2 DEF Metrics!Observe
        <5>2. CASE ~(listening /\ Metrics!Watched(q))
          BY <2>1, <5>2 DEF Metrics!Unobserved
        <5>3. QED BY <5>1, <5>2
      <4>2. QED BY <1>t, <2>1, <2>2, <2>3, <3>3, <4>1, ObservingKept
    <3>4. QED BY <3>1, <3>2, <3>3
  <2>6. QED BY <2>2, <2>5
<1>5. ASSUME NEW q \in Plugins, Metrics!PluginDeactivated(q)
      PROVE  (MetricsTypes /\ \A p \in Plugins : Observing(p))'
  <2>1. /\ up[q] /\ up' = [up EXCEPT ![q] = FALSE] /\ UNCHANGED <<build, handler, listening>>
        /\ IF listening /\ Metrics!Watched(q) /\ observable[q] # "none"
             THEN Metrics!Disable({q}) ELSE Metrics!Unobserved
    BY <1>5 DEF Metrics!PluginDeactivated
  <2>2. MetricsTypes' /\ \A p \in Plugins : up'[p] <=> up[p] /\ p # q
    BY <1>t, <2>1 DEF MetricsTypes
  <2>3. \A p \in Plugins : Metrics!Watched(p)' = Metrics!Watched(p)
    BY <2>1 DEF Metrics!Watched
  <2>4. ASSUME NEW p \in Plugins PROVE Observing(p)'
    <3>1. CASE p = q /\ observable[q] # "none"
      <4>1. Metrics!Disable({q}) /\ ~(listening /\ Metrics!Watched(p) /\ up[p])'
        BY <1>t, <2>1, <2>2, <3>1 DEF Observing
      <4>2. QED BY <1>t, <3>1, <4>1, DisabledInOrder
    <3>2. CASE p = q /\ observable[q] = "none"
      <4>1. UNCHANGED <<observable[p], held[p], registered[p]>>
        BY <2>1, <3>2 DEF Metrics!Unobserved
      <4>2. QED BY <1>t, <2>2, <3>2, <4>1 DEF Observing
    <3>3. CASE p # q
      <4>1. Metrics!Disable({q}) => /\ UNCHANGED <<observable[p], registered[p]>>
                                    /\ held'[p] = held[p] \ {}
        BY <3>3 DEF Metrics!Disable
      <4>2. UNCHANGED <<observable[p], held[p], registered[p]>>
        BY <2>1, <4>1 DEF Metrics!Unobserved
      <4>3. QED BY <1>t, <2>1, <2>2, <2>3, <3>3, <4>2, ObservingKept
    <3>4. QED BY <3>1, <3>2, <3>3
  <2>5. QED BY <2>2, <2>4
<1>6. QED BY <1>1, <1>2, <1>3, <1>4, <1>5 DEF Metrics!Next

\* A launch that is logged is another than the one before.
LEMMA LaunchLogged ==
  ASSUME NEW p \in Plugins, NEW link \in LaunchURLs, NEW good \in BOOLEAN, LaunchesInOrder,
         Metrics!LoadFinished(p, link, good)
  PROVE  LaunchesInOrder'
<1> DEFINE did == logger[p].did /\ Host[link] = logger[p].last
           log == build = "syslog" /\ link # "about:blank" /\ ~did
<1>1. CASE log
  <2>1. /\ logger' = [logger EXCEPT ![p] = [@ EXCEPT !.did = TRUE, !.last = Host[link]]]
        /\ launches' = [launches EXCEPT ![p] = Append(@, Host[link])]
    BY <1>1 DEF Metrics!LoadFinished, Metrics!Log
  <2>2. Host[link] \in Hosts /\ logger[p] \in Logger /\ launches[p] \in Seq(Hosts)
    BY <1>1 DEF Hosts, LaunchesInOrder
  <2>3. PICK h \in Hosts : h = Host[link]
    BY <2>2
  <2>4. PICK s \in Seq(Hosts) : s = launches[p]
    BY <2>2
  <2>5. PICK t : t \in Seq(Hosts) /\ s = launches[p] /\ t = Append(s, h)
    <3>1. Append(s, h) \in Seq(Hosts)
      OBVIOUS
    <3>2. QED BY <2>4, <3>1
  <2>6. PICK l : l = [logger[p] EXCEPT !.did = TRUE, !.last = h]
    OBVIOUS
  <2>7. l \in Logger /\ l.did /\ l.last = h
    BY <2>2, <2>6 DEF Logger
  <2>8. /\ logger' = [logger EXCEPT ![p] = l] /\ launches' = [launches EXCEPT ![p] = t]
    BY <2>1, <2>3, <2>5, <2>6
  <2>9. /\ logger' \in [Plugins -> Logger] /\ launches' \in [Plugins -> Seq(Hosts)]
        /\ logger'[p] = l /\ launches'[p] = t
        /\ \A q \in Plugins \ {p} : logger'[q] = logger[q] /\ launches'[q] = launches[q]
    <3>1. t \in Seq(Hosts)
      BY <2>5
    <3>2. logger \in [Plugins -> Logger] /\ launches \in [Plugins -> Seq(Hosts)]
      BY DEF LaunchesInOrder
    <3>3. QED BY <2>7, <2>8, <3>1, <3>2
  <2>10. /\ Len(s) \in Nat /\ Len(t) = Len(s) + 1 /\ t[Len(t)] = h
        /\ \A i \in 1 .. Len(s) : t[i] = s[i]
    BY <2>5
  <2>11. s # <<>> => s[Len(s)] # h
    BY <1>1, <2>3, <2>5 DEF LaunchesInOrder, Launched
  <2>12. \A i \in 1 .. Len(s) - 1 : s[i] # s[i + 1]
    BY <2>5 DEF LaunchesInOrder, Launched
  <2>13. ASSUME NEW i \in 1 .. Len(t) - 1 PROVE t[i] # t[i + 1]
    <3>1. CASE i = Len(s)
      <4>1. s # <<>>
        BY <2>5, <2>10, <3>1
      <4>2. QED BY <2>10, <2>11, <3>1, <4>1
    <3>2. CASE i # Len(s)
      BY <2>10, <2>12, <3>2
    <3>3. QED BY <3>1, <3>2
  <2>14. t # <<>>
    BY <2>5, <2>10
  <2>15. ASSUME NEW q \in Plugins PROVE Launched(q)'
    <3>1. CASE q = p
      BY <2>7, <2>9, <2>10, <2>13, <2>14, <3>1 DEF Launched
    <3>2. CASE q # p
      BY <2>9, <3>2 DEF LaunchesInOrder, Launched
    <3>3. QED BY <3>1, <3>2
  <2>16. QED BY <2>9, <2>15 DEF LaunchesInOrder
<1>2. CASE ~log
  <2>1. UNCHANGED <<logger, launches>>
    BY <1>2 DEF Metrics!LoadFinished
  <2>2. QED BY <2>1 DEF LaunchesInOrder, Launched
<1>3. QED BY <1>1, <1>2

\* A logger that is disabled starts over.
LEMMA LaunchesForgotten ==
  ASSUME NEW P \in SUBSET Plugins, LaunchesInOrder, Metrics!Disable(P)
  PROVE  LaunchesInOrder'
<1>1. Metrics!FreshLogger \in Logger /\ ~Metrics!FreshLogger.did
  BY DEF Metrics!FreshLogger, Logger
<1>2. /\ logger' = [p \in Plugins |-> IF p \in P THEN Metrics!FreshLogger ELSE logger[p]]
      /\ launches' = [p \in Plugins |-> IF p \in P THEN << >> ELSE launches[p]]
  BY DEF Metrics!Disable
<1>3. logger' \in [Plugins -> Logger] /\ launches' \in [Plugins -> Seq(Hosts)]
  BY <1>1, <1>2 DEF LaunchesInOrder
<1>4. ASSUME NEW p \in Plugins PROVE Launched(p)'
  <2>1. CASE p \in P
    BY <1>1, <1>2, <2>1 DEF Launched
  <2>2. CASE p \notin P
    <3>1. logger'[p] = logger[p] /\ launches'[p] = launches[p]
      BY <1>2, <2>2
    <3>2. QED BY <3>1 DEF LaunchesInOrder, Launched
  <2>3. QED BY <2>1, <2>2
<1>5. QED BY <1>3, <1>4 DEF LaunchesInOrder

\* Each step logs at most one launch, and none that was logged last.
LEMMA LaunchesStep == MetricsInv /\ [Metrics!Next]_meterVars => LaunchesInOrder'
<1> SUFFICES ASSUME LaunchesInOrder, [Metrics!Next]_meterVars PROVE LaunchesInOrder'
  BY DEF MetricsInv
<1>1. ASSUME UNCHANGED <<logger, launches>> PROVE LaunchesInOrder'
  BY <1>1 DEF LaunchesInOrder, Launched
<1>2. CASE UNCHANGED meterVars \/ Metrics!InitializeFails
           \/ \E choice \in {"callsign", "classname"} : Metrics!Initialize(choice)
  BY <1>1, <1>2 DEF meterVars, Metrics!InitializeFails, Metrics!Unobserved, Metrics!Initialize,
                    Metrics!Observe
<1>3. CASE Metrics!Deinitialize
  <2>1. {p \in Plugins : observable[p] # "none"} \in SUBSET Plugins
    OBVIOUS
  <2>2. QED BY <1>3, <2>1, LaunchesForgotten DEF Metrics!Deinitialize
<1>4. ASSUME NEW p \in Plugins, Metrics!PluginActivated(p) \/ Metrics!PluginDeactivated(p)
      PROVE  LaunchesInOrder'
  <2>1. Metrics!Disable({p}) \/ UNCHANGED <<logger, launches>>
    BY <1>4 DEF Metrics!PluginActivated, Metrics!PluginDeactivated, Metrics!Observe,
                Metrics!Unobserved
  <2>2. QED BY <1>1, <2>1, LaunchesForgotten
<1>5. ASSUME NEW p \in Plugins, NEW link \in LaunchURLs, Metrics!URLChange(p, link)
      PROVE  LaunchesInOrder'
  <2>1. logger' = [logger EXCEPT ![p].snapshot = link] /\ launches' = launches
    BY <1>5 DEF Metrics!URLChange
  <2>2. /\ logger' \in [Plugins -> Logger]
        /\ \A q \in Plugins : logger'[q].did = logger[q].did /\ logger'[q].last = logger[q].last
    BY <2>1 DEF LaunchesInOrder, Logger
  <2>3. QED BY <2>1, <2>2 DEF LaunchesInOrder, Launched
<1>6. QED BY <1>2, <1>3, <1>4, <1>5, LaunchLogged DEF Metrics!Next

-----------------------------------------------------------------------------
\* PerformanceMetrics observes what it has to and nothing else, gives back
\* what it holds, and logs a launch once, in whatever order the plugins come
\* and go and the pages are loaded.
THEOREM MetricsAreOfTheObserved == MCSpec => []LaunchesAreMeasured
<1>1. MCInit => MetricsInv
  <2> SUFFICES ASSUME Metrics!Init PROVE MetricsInv
    BY DEF MCInit
  <2>1. MetricsTypes
    BY DEF MetricsTypes, Metrics!Init
  <2>2. \A p \in Plugins : Observing(p)
    BY DEF Observing, Metrics!Init
  <2>3. LaunchesInOrder
    <3>1. Metrics!FreshLogger \in Logger /\ ~Metrics!FreshLogger.did
      BY DEF Metrics!FreshLogger, Logger
    <3>2. QED BY <3>1 DEF LaunchesInOrder, Launched, Metrics!Init
  <2>4. QED BY <2>1, <2>2, <2>3 DEF MetricsInv
<1>2. ASSUME MetricsInv,
             [MCNext]_<<vars, jarVars, extensionVars, controlVars, outVars, meterVars, group>>
      PROVE  MetricsInv'
  <2>1. [Metrics!Next]_meterVars
    BY <1>2 DEF MCNext
  <2>2. QED BY <1>2, <2>1, ObservingStep, LaunchesStep DEF MetricsInv
<1>3. MetricsInv => LaunchesAreMeasured
  <2> SUFFICES ASSUME MetricsInv PROVE LaunchesAreMeasured
    OBVIOUS
  <2>1. \A p \in Plugins : registered[p] \subseteq held[p]
    BY HeldIsReleased DEF MetricsInv, Observing
  <2>2. QED
    BY <2>1 DEF MetricsInv, Observing, LaunchesInOrder, Launched, LaunchesAreMeasured,
                Metrics!LaunchesAreMeasured, Metrics!ObservesWhileActive, Metrics!LaunchesLoggedOnce
<1>4. QED BY <1>1, <1>2, <1>3, PTL DEF MCSpec

-----------------------------------------------------------------------------
(* MessageControl.  Of each connection: where the observer, the job and    *)
(* the client are with it goes together, and fits what became of it; the   *)
(* worker is gone before the outputs are.                                  *)

ControlTypes ==
  /\ phase \in {"none", "up", "asked", "waking", "waiting", "quiet", "deaf", "deinitialized",
                "cleared", "clientless"}
  /\ conn \in [Conns -> {"none", "up", "closed", "over"}]
  /\ observing \in [Conns -> {"none", "attaching", "observing", "detaching"}]
  /\ job \in {"idle", "queued", "running", "again"}
  /\ batch \in [attaching : SUBSET Conns, detaching : SUBSET Conns]
  /\ instances \subseteq Conns /\ cleaning \subseteq Conns /\ attached \subseteq Conns

JobInOrder ==
  /\ job \in {"idle", "queued"} => batch = Control!Nobody
  /\ \A c \in Conns : observing[c] \in {"attaching", "detaching"} => job \in {"queued", "again"}
  /\ phase = "none" => /\ job = "idle" /\ instances = {} /\ cleaning = {} /\ attached = {}
                       /\ \A c \in Conns : observing[c] = "none"

\* What the observer was told of c.
Told(c) ==
  /\ conn[c] = "none" => observing[c] = "none" /\ c \notin instances /\ c \notin attached
  /\ conn[c] = "closed" => c \in Controlled
  /\ Control!Registered =>
       /\ conn[c] = "up" => observing[c] \in {"attaching", "observing"}
       /\ conn[c] = "closed" => observing[c] # "detaching"
       /\ conn[c] = "over" => observing[c] \in {"none", "detaching"}
       /\ c \in attached => observing[c] = "observing" \/ conn[c] = "over"

\* The destructor has closed the files.
Dying == phase \in {"cleared", "clientless"}

\* How far the client has come with c.
Followed(c) ==
  /\ observing[c] \in {"observing", "detaching"} =>
       /\ Dying \/ c \in instances \cup batch.attaching
       /\ c \notin batch.detaching
  /\ observing[c] = "attaching" =>
       c \notin instances \cup attached \cup batch.attaching \cup batch.detaching
  /\ observing[c] = "none" =>
       c \notin batch.attaching /\ (c \in instances => c \in batch.detaching)
  /\ c \in attached /\ observing[c] = "none" =>
       c \in batch.detaching \/ c \in cleaning \/ c \notin files

\* The files of those that live stay.
FilesKept(c) ==
  /\ observing[c] = "detaching" \/ c \in batch.detaching \/ c \in cleaning => conn[c] = "over"
  /\ conn[c] \in {"up", "closed"} => c \in files

OutputsKept ==
  /\ phase \in {"up", "asked", "waking", "waiting", "quiet", "deaf"} => exporter = TRUE
  /\ printer # "none" => phase \in {"up", "asked", "waking", "waiting"}
  /\ printer = "sending" => left \subseteq director \cup {"exporter"}

ClientInv ==
  /\ ControlTypes /\ JobInOrder
  /\ \A c \in Conns : Told(c) /\ Followed(c) /\ FilesKept(c)

\* A step that does not touch a connection.
LEMMA ConnectionKept ==
  ASSUME NEW c \in Conns, Told(c), Followed(c), FilesKept(c),
         conn'[c] = conn[c], observing'[c] = observing[c],
         c \in instances' <=> c \in instances, c \in attached' <=> c \in attached,
         c \in batch'.attaching <=> c \in batch.attaching,
         c \in batch'.detaching <=> c \in batch.detaching,
         c \in cleaning' <=> c \in cleaning, c \in files' <=> c \in files,
         Control!Registered' => Control!Registered, ~Dying' => ~Dying
  PROVE  Told(c)' /\ Followed(c)' /\ FilesKept(c)'
<1>1. Told(c)'
  BY DEF Told
<1>2. Followed(c)'
  BY DEF Followed
<1>3. FilesKept(c)'
  BY DEF FilesKept
<1>4. QED BY <1>1, <1>2, <1>3

\* A step of Thunder or of the worker.
LEMMA ClientKept ==
  ASSUME ClientInv, UNCHANGED <<conn, observing, job, batch, instances, cleaning, files, attached>>,
         Control!Registered' => Control!Registered, phase' = phase \/ phase' # "none",
         phase' \in {"none", "up", "asked", "waking", "waiting", "quiet", "deaf", "deinitialized",
                     "cleared", "clientless"},
         ~Dying' => ~Dying
  PROVE  ClientInv'
<1>1. ControlTypes'
  BY DEF ClientInv, ControlTypes
<1>2. JobInOrder'
  BY DEF ClientInv, JobInOrder
<1>3. \A c \in Conns : Told(c)' /\ Followed(c)' /\ FilesKept(c)'
  BY ConnectionKept DEF ClientInv
<1>4. QED BY <1>1, <1>2, <1>3 DEF ClientInv

\* A job that is submitted is queued, or runs once more.
LEMMA SubmittedIs ==
  ASSUME job \in {"idle", "queued", "running", "again"}
  PROVE  /\ Control!Submitted \in {"queued", "again"}
         /\ Control!Submitted = "queued" => job \in {"idle", "queued"}
BY DEF Control!Submitted

\* Activated, of connections that the observer does not know.
LEMMA ActivatedIs ==
  ASSUME ControlTypes, NEW C \in SUBSET Conns, Control!Activated(C),
         \A c \in C : observing[c] = "none"
  PROVE  /\ observing' \in [Conns -> {"none", "attaching", "observing", "detaching"}]
         /\ \A c \in Conns : observing'[c] = IF c \in C THEN "attaching" ELSE observing[c]
         /\ job' \in {"idle", "queued", "running", "again"}
         /\ job' = job \/ job' \in {"queued", "again"}
         /\ C # {} => job' \in {"queued", "again"}
         /\ job' \in {"idle", "queued"} => job \in {"idle", "queued"}
<1>1. observing' = [c \in Conns |->
         IF c \notin C THEN observing[c]
         ELSE CASE observing[c] = "none" -> "attaching"
                [] observing[c] = "detaching" -> "observing"
                [] OTHER -> observing[c]]
  BY DEF Control!Activated
<1>2. \A c \in Conns : observing'[c] = IF c \in C THEN "attaching" ELSE observing[c]
  BY <1>1
<1>3. job' = IF C = {} THEN job ELSE Control!Submitted
  BY DEF Control!Activated
<1>4. observing' \in [Conns -> {"none", "attaching", "observing", "detaching"}]
  <2>1. \A c \in Conns : observing'[c] \in {"none", "attaching", "observing", "detaching"}
    BY <1>2 DEF ControlTypes
  <2>2. QED BY <1>1, <2>1
<1>5. QED BY <1>2, <1>3, <1>4, SubmittedIs DEF ControlTypes

\* What a connection becomes that is dropped before or after it was attached.
LEMMA DropIs ==
  ASSUME ControlTypes, NEW c \in Conns, Control!Drop(c)
  PROVE  /\ observing' \in [Conns -> {"none", "attaching", "observing", "detaching"}]
         /\ \A d \in Conns \ {c} : observing'[d] = observing[d]
         /\ observing'[c] = IF observing[c] = "attaching" THEN "none"
                            ELSE IF observing[c] = "observing" THEN "detaching" ELSE observing[c]
         /\ job' \in {"queued", "again"}
         /\ job' = "queued" => job \in {"idle", "queued"}
<1>1. observing' = [observing EXCEPT ![c] =
         CASE observing[c] = "attaching" -> "none" [] observing[c] = "observing" -> "detaching"
           [] OTHER -> observing[c]]
  BY DEF Control!Drop
<1>2. PICK o : o = IF observing[c] = "attaching" THEN "none"
                   ELSE IF observing[c] = "observing" THEN "detaching" ELSE observing[c]
  OBVIOUS
<1>3. observing' = [observing EXCEPT ![c] = o]
  BY <1>1, <1>2
<1>4. o \in {"none", "attaching", "observing", "detaching"}
  BY <1>2 DEF ControlTypes
<1>5. QED BY <1>2, <1>3, <1>4, SubmittedIs DEF ControlTypes, Control!Drop

-----------------------------------------------------------------------------
\* The plugin starts with the connections that are up, and a job for them.
LEMMA ClientKeptByInitialize ==
  ASSUME ClientInv, NEW config, Control!Initialize(config)
  PROVE  ClientInv'
<1> DEFINE C == {c \in Conns : conn[c] = "up"}
<1>1. /\ phase = "none" /\ phase' = "up" /\ Control!Activated(C)
      /\ UNCHANGED <<conn, batch, instances, cleaning, files, attached>>
  BY DEF Control!Initialize, Control!clientVars, Control!processVars
<1>2. /\ job = "idle" /\ instances = {} /\ cleaning = {} /\ attached = {} /\ batch = Control!Nobody
      /\ \A c \in Conns : observing[c] = "none"
  BY <1>1 DEF ClientInv, JobInOrder
<1>3. /\ observing' \in [Conns -> {"none", "attaching", "observing", "detaching"}]
      /\ \A c \in Conns : observing'[c] = IF c \in C THEN "attaching" ELSE observing[c]
      /\ job' \in {"idle", "queued", "running", "again"}
      /\ job' = job \/ job' \in {"queued", "again"}
      /\ C # {} => job' \in {"queued", "again"}
  BY <1>1, <1>2, ActivatedIs DEF ClientInv
<1>4. ControlTypes'
  BY <1>1, <1>3 DEF ClientInv, ControlTypes
<1>5. JobInOrder'
  BY <1>1, <1>2, <1>3 DEF JobInOrder, Control!Nobody
<1>6. ASSUME NEW c \in Conns PROVE Told(c)' /\ Followed(c)' /\ FilesKept(c)'
  <2>1. c \notin instances' \cup cleaning' \cup attached'
                    \cup batch'.attaching \cup batch'.detaching
    BY <1>1, <1>2 DEF Control!Nobody
  <2>2. /\ conn'[c] = conn[c] /\ (c \in files' <=> c \in files)
        /\ observing'[c] = IF conn[c] = "up" THEN "attaching" ELSE "none"
    BY <1>1, <1>2, <1>3
  <2>3. conn[c] \in {"none", "up", "closed", "over"}
    BY DEF ClientInv, ControlTypes
  <2>4. Told(c) /\ Followed(c) /\ FilesKept(c)
    BY DEF ClientInv
  <2>5. Told(c)'
    BY <2>1, <2>2, <2>3, <2>4 DEF Told
  <2>6. Followed(c)'
    BY <2>1, <2>2 DEF Followed
  <2>7. FilesKept(c)'
    BY <2>1, <2>2, <2>4 DEF FilesKept
  <2>8. QED BY <2>5, <2>6, <2>7
<1>7. QED BY <1>4, <1>5, <1>6 DEF ClientInv

\* A process that connects is told to the observer, and a job is on its way.
LEMMA ClientKeptByOpened ==
  ASSUME ClientInv, NEW c \in Conns, Control!Opened(c)
  PROVE  ClientInv'
<1>1. /\ conn[c] = "none" /\ conn' = [conn EXCEPT ![c] = "up"] /\ files' = files \cup {c}
      /\ IF Control!Registered THEN Control!Activated({c}) ELSE UNCHANGED <<observing, job>>
      /\ UNCHANGED <<phase, batch, instances, cleaning, attached>>
  BY DEF Control!Opened, Control!Untold, Control!observerVars, Control!thunderVars
<1>2. /\ Told(c) /\ Followed(c) /\ FilesKept(c)
      /\ observing[c] = "none" /\ c \notin instances \cup attached
  BY <1>1 DEF ClientInv, Told
<1>3. c \notin batch.attaching /\ c \notin batch.detaching /\ c \notin cleaning
  BY <1>1, <1>2 DEF Followed, FilesKept
<1>4. /\ observing' \in [Conns -> {"none", "attaching", "observing", "detaching"}]
      /\ \A d \in Conns \ {c} : observing'[d] = observing[d]
      /\ Control!Registered => observing'[c] = "attaching" /\ job' \in {"queued", "again"}
      /\ ~Control!Registered => observing'[c] = "none" /\ job' = job
      /\ job' \in {"idle", "queued", "running", "again"}
      /\ job' = job \/ job' \in {"queued", "again"}
      /\ job' \in {"idle", "queued"} => job \in {"idle", "queued"}
  <2>1. CASE Control!Registered
    BY <1>1, <1>2, <2>1, ActivatedIs DEF ClientInv
  <2>2. CASE ~Control!Registered
    BY <1>1, <1>2, <2>2 DEF ClientInv, ControlTypes
  <2>3. QED BY <2>1, <2>2
<1>5. /\ conn' \in [Conns -> {"none", "up", "closed", "over"}] /\ conn'[c] = "up"
      /\ \A d \in Conns \ {c} : conn'[d] = conn[d]
  BY <1>1 DEF ClientInv, ControlTypes
<1>6. ControlTypes'
  BY <1>1, <1>4, <1>5 DEF ClientInv, ControlTypes
<1>7. JobInOrder'
  <2>1. phase = "none" => ~Control!Registered
    BY DEF Control!Registered
  <2>2. JobInOrder
    BY DEF ClientInv
  <2>3. QED BY <1>1, <1>2, <1>4, <2>1, <2>2 DEF JobInOrder, Control!Nobody
<1>8. Control!Registered' <=> Control!Registered
  BY <1>1 DEF Control!Registered
<1>9. Told(c)' /\ Followed(c)' /\ FilesKept(c)'
  <2>1. Told(c)'
    BY <1>1, <1>2, <1>4, <1>5, <1>8 DEF Told
  <2>2. Followed(c)'
    BY <1>1, <1>2, <1>3, <1>4 DEF Followed
  <2>3. FilesKept(c)'
    BY <1>1, <1>3, <1>4, <1>5 DEF FilesKept
  <2>4. QED BY <2>1, <2>2, <2>3
<1>10. ASSUME NEW d \in Conns, d # c PROVE Told(d)' /\ Followed(d)' /\ FilesKept(d)'
  BY <1>1, <1>4, <1>5, <1>8, <1>10, ConnectionKept DEF ClientInv, Dying
<1>11. QED BY <1>6, <1>7, <1>9, <1>10 DEF ClientInv

\* A connection is over, or its channel is closed.
LEMMA ClientKeptByClosed ==
  ASSUME ClientInv, NEW c \in Conns, Control!Deactivated(c) \/ Control!Terminated(c)
  PROVE  ClientInv'
<1>1. /\ conn[c] \in {"up", "closed"}
      /\ \/ /\ conn' = [conn EXCEPT ![c] = "over"]
            /\ IF Control!Registered THEN Control!Drop(c) ELSE UNCHANGED <<observing, job>>
         \/ /\ conn' = [conn EXCEPT ![c] = "closed"] /\ c \in Controlled /\ conn[c] = "up"
            /\ UNCHANGED <<observing, job>>
      /\ UNCHANGED <<phase, batch, instances, cleaning, files, attached>>
  BY DEF Control!Deactivated, Control!Terminated, Control!Untold, Control!observerVars,
         Control!thunderVars, Control!clientVars
<1>2. Told(c) /\ Followed(c) /\ FilesKept(c) /\ ControlTypes /\ JobInOrder
  BY DEF ClientInv
<1>3. PICK x \in {"closed", "over"} : /\ conn' = [conn EXCEPT ![c] = x]
                                      /\ x = "closed" => c \in Controlled /\ conn[c] = "up"
                                                         /\ UNCHANGED <<observing, job>>
                                      /\ x = "over" => IF Control!Registered THEN Control!Drop(c)
                                                       ELSE UNCHANGED <<observing, job>>
  BY <1>1
<1>4. /\ conn' \in [Conns -> {"none", "up", "closed", "over"}] /\ conn'[c] = x
      /\ \A d \in Conns \ {c} : conn'[d] = conn[d]
  BY <1>2, <1>3 DEF ControlTypes
<1>5. /\ observing' \in [Conns -> {"none", "attaching", "observing", "detaching"}]
      /\ \A d \in Conns \ {c} : observing'[d] = observing[d]
      /\ observing'[c] = observing[c]
         \/ /\ Control!Registered /\ x = "over" /\ job' \in {"queued", "again"}
            /\ \/ observing[c] = "attaching" /\ observing'[c] = "none"
               \/ observing[c] = "observing" /\ observing'[c] = "detaching"
      /\ Control!Registered /\ x = "over" => observing'[c] \in {"none", "detaching"}
      /\ job' = job \/ (Control!Registered /\ job' \in {"queued", "again"})
      /\ job' \in {"idle", "queued"} => job \in {"idle", "queued"}
  <2>1. CASE x = "over" /\ Control!Registered
    <3>1. observing[c] \in {"none", "attaching", "observing", "detaching"}
      BY <1>2 DEF ControlTypes
    <3>2. QED BY <1>2, <1>3, <2>1, <3>1, DropIs
  <2>2. CASE x = "closed" \/ ~Control!Registered
    BY <1>2, <1>3, <2>2 DEF ControlTypes
  <2>3. QED BY <2>1, <2>2
<1>6. ControlTypes'
  BY <1>1, <1>2, <1>4, <1>5 DEF ControlTypes
<1>7. JobInOrder'
  <2>1. phase = "none" => ~Control!Registered
    BY DEF Control!Registered
  <2>2. \A d \in Conns :
          observing'[d] \in {"attaching", "detaching"} => job' \in {"queued", "again"}
    BY <1>2, <1>5 DEF JobInOrder
  <2>3. phase' = "none" => UNCHANGED <<observing, job>>
    BY <1>1, <1>3, <2>1
  <2>4. QED BY <1>1, <1>2, <1>5, <2>2, <2>3 DEF JobInOrder
<1>8. Control!Registered' <=> Control!Registered
  BY <1>1 DEF Control!Registered
<1>9. Told(c)' /\ Followed(c)' /\ FilesKept(c)'
  <2>1. Told(c)'
    BY <1>1, <1>2, <1>3, <1>4, <1>5, <1>8 DEF Told
  <2>2. Followed(c)'
    BY <1>1, <1>2, <1>5 DEF Followed, Dying
  <2>3. FilesKept(c)'
    BY <1>1, <1>2, <1>4, <1>5 DEF FilesKept
  <2>4. QED BY <2>1, <2>2, <2>3
<1>10. ASSUME NEW d \in Conns, d # c PROVE Told(d)' /\ Followed(d)' /\ FilesKept(d)'
  BY <1>1, <1>4, <1>5, <1>8, <1>10, ConnectionKept DEF ClientInv, Dying
<1>11. QED BY <1>6, <1>7, <1>9, <1>10 DEF ClientInv

\* The job takes over what has to be attached and detached.
LEMMA ClientKeptByDispatch ==
  ASSUME ClientInv, Control!Dispatch
  PROVE  ClientInv'
<1>1. /\ job = "queued" /\ job' = "running"
      /\ batch' = [attaching |-> {c \in Conns : observing[c] = "attaching"},
                   detaching |-> {c \in Conns : observing[c] = "detaching"}]
      /\ UNCHANGED <<phase, conn, instances, cleaning, files, attached>>
  BY DEF Control!Dispatch, Control!thunderVars, Control!processVars
<1>2. observing' = [c \in Conns |-> CASE observing[c] = "attaching" -> "observing"
                                      [] observing[c] = "detaching" -> "none"
                                      [] OTHER -> observing[c]]
  BY DEF Control!Dispatch
<1>3. ControlTypes /\ JobInOrder /\ batch = Control!Nobody
  BY <1>1 DEF ClientInv, JobInOrder
<1>4. \A c \in Conns : /\ observing[c] \in {"none", "attaching", "observing", "detaching"}
                       /\ observing[c] = "attaching" => observing'[c] = "observing"
                       /\ observing[c] = "detaching" => observing'[c] = "none"
                       /\ observing[c] \in {"none", "observing"} => observing'[c] = observing[c]
  BY <1>2, <1>3 DEF ControlTypes
<1>5. observing' \in [Conns -> {"none", "attaching", "observing", "detaching"}]
      /\ \A c \in Conns : observing'[c] \notin {"attaching", "detaching"}
  <2>1. \A c \in Conns : observing'[c] \in {"none", "observing"}
    BY <1>4
  <2>2. QED BY <1>2, <2>1
<1>6. ControlTypes'
  BY <1>1, <1>3, <1>5 DEF ControlTypes
<1>7. JobInOrder'
  BY <1>1, <1>3, <1>5 DEF JobInOrder
<1>8. ASSUME NEW c \in Conns PROVE Told(c)' /\ Followed(c)' /\ FilesKept(c)'
  <2>1. Told(c) /\ Followed(c) /\ FilesKept(c)
    BY DEF ClientInv
  <2>2. /\ c \notin batch.attaching /\ c \notin batch.detaching
        /\ c \in batch'.attaching <=> observing[c] = "attaching"
        /\ c \in batch'.detaching <=> observing[c] = "detaching"
    BY <1>1, <1>3 DEF Control!Nobody
  <2>3. Control!Registered' <=> Control!Registered
    BY <1>1 DEF Control!Registered
  <2>4. Told(c)'
    BY <1>1, <1>4, <2>1, <2>3 DEF Told, Followed
  <2>5. Followed(c)'
    BY <1>1, <1>4, <2>1, <2>2 DEF Followed, Dying
  <2>6. FilesKept(c)'
    BY <1>1, <1>4, <2>1, <2>2 DEF FilesKept
  <2>7. QED BY <2>4, <2>5, <2>6
<1>9. QED BY <1>6, <1>7, <1>8 DEF ClientInv

\* A job that was submitted while it ran runs again.
LEMMA ClientKeptByDispatched ==
  ASSUME ClientInv, Control!Dispatched
  PROVE  ClientInv'
<1>1. /\ batch = Control!Nobody /\ job \in {"running", "again"}
      /\ job' = IF job = "again" THEN "queued" ELSE "idle"
      /\ UNCHANGED <<phase, conn, observing, batch, instances, cleaning, files, attached>>
  BY DEF Control!Dispatched, Control!thunderVars, Control!clientVars, Control!processVars
<1>2. ControlTypes' /\ JobInOrder'
  BY <1>1 DEF ClientInv, ControlTypes, JobInOrder, Control!Nobody
<1>3. \A c \in Conns : Told(c)' /\ Followed(c)' /\ FilesKept(c)'
  BY <1>1, ConnectionKept DEF ClientInv, Control!Registered, Dying
<1>4. QED BY <1>2, <1>3 DEF ClientInv

\* The job opens the files of a connection of its batch.
LEMMA ClientKeptByAttach ==
  ASSUME ClientInv, NEW c \in Conns, Control!Attach(c)
  PROVE  ClientInv'
<1>1. /\ c \in batch.attaching /\ batch' = [batch EXCEPT !.attaching = @ \ {c}]
      /\ instances' = instances \cup {c} /\ attached' = attached \cup {c}
      /\ UNCHANGED <<phase, conn, observing, job>>
  BY DEF Control!Attach, Control!thunderVars, Control!observerVars, Control!processVars
<1>2. PICK stuck \in SUBSET (cleaning \cap files) :
        cleaning' = stuck /\ files' = files \ (cleaning \ stuck)
  BY DEF Control!Attach, Control!Cleanup
<1>3. ControlTypes /\ JobInOrder
  BY DEF ClientInv
<1>4. /\ batch' \in [attaching : SUBSET Conns, detaching : SUBSET Conns]
      /\ batch'.attaching = batch.attaching \ {c} /\ batch'.detaching = batch.detaching
  BY <1>1, <1>3 DEF ControlTypes
<1>5. ControlTypes'
  BY <1>1, <1>2, <1>3, <1>4 DEF ControlTypes
<1>6. JobInOrder'
  <2>1. batch # Control!Nobody
    BY <1>1 DEF Control!Nobody
  <2>2. job \notin {"idle", "queued"} /\ phase # "none"
    BY <1>3, <2>1 DEF JobInOrder
  <2>3. QED BY <1>1, <1>3, <2>2 DEF JobInOrder
<1>7. Control!Registered' <=> Control!Registered
  BY <1>1 DEF Control!Registered
<1>8. ASSUME NEW d \in Conns PROVE Told(d)' /\ Followed(d)' /\ FilesKept(d)'
  <2>1. Told(d) /\ Followed(d) /\ FilesKept(d)
    BY DEF ClientInv
  <2>2. observing[c] \in {"observing", "detaching"}
    <3>1. observing[c] \in {"none", "attaching", "observing", "detaching"} /\ Followed(c)
      BY <1>3 DEF ClientInv, ControlTypes
    <3>2. QED BY <1>1, <3>1 DEF Followed
  <2>3. /\ d \in instances' <=> d \in instances \/ d = c
        /\ d \in attached' <=> d \in attached \/ d = c
        /\ d \in cleaning' => d \in cleaning /\ d \in files'
        /\ d \in files' => d \in files /\ (d \in cleaning => d \in cleaning')
        /\ d \in files /\ d \notin cleaning => d \in files'
    BY <1>1, <1>2
  <2>4. /\ conn[c] # "none"
        /\ Control!Registered => observing[c] = "observing" \/ conn[c] = "over"
    <3>1. Told(c) /\ conn[c] \in {"none", "up", "closed", "over"}
      BY <1>3 DEF ClientInv, ControlTypes
    <3>2. QED BY <2>2, <3>1 DEF Told
  <2>5. Told(d)'
    <3>1. CASE d = c
      BY <1>1, <1>7, <2>1, <2>2, <2>4, <3>1 DEF Told
    <3>2. CASE d # c
      BY <1>1, <1>7, <2>1, <2>3, <3>2 DEF Told
    <3>3. QED BY <3>1, <3>2
  <2>6. Followed(d)'
    BY <1>1, <1>4, <2>1, <2>2, <2>3 DEF Followed, Dying
  <2>7. FilesKept(d)'
    BY <1>1, <1>4, <2>1, <2>3 DEF FilesKept
  <2>8. QED BY <2>5, <2>6, <2>7
<1>9. QED BY <1>5, <1>6, <1>8 DEF ClientInv

\* The job closes the files of a connection of its batch.
LEMMA ClientKeptByDetach ==
  ASSUME ClientInv, NEW c \in Conns, Control!Detach(c)
  PROVE  ClientInv'
<1>1. /\ c \in batch.detaching /\ batch' = [batch EXCEPT !.detaching = @ \ {c}]
      /\ instances' = instances \ {c}
      /\ UNCHANGED <<phase, conn, observing, job, attached>>
  BY DEF Control!Detach, Control!thunderVars, Control!observerVars, Control!processVars
<1>2. PICK stuck \in SUBSET ((cleaning \cup {c}) \cap files) :
        cleaning' = stuck /\ files' = files \ ((cleaning \cup {c}) \ stuck)
  BY DEF Control!Detach, Control!Cleanup
<1>3. ControlTypes /\ JobInOrder
  BY DEF ClientInv
<1>4. /\ batch' \in [attaching : SUBSET Conns, detaching : SUBSET Conns]
      /\ batch'.attaching = batch.attaching /\ batch'.detaching = batch.detaching \ {c}
  BY <1>1, <1>3 DEF ControlTypes
<1>5. ControlTypes'
  BY <1>1, <1>2, <1>3, <1>4 DEF ControlTypes
<1>6. JobInOrder'
  <2>1. batch # Control!Nobody
    BY <1>1 DEF Control!Nobody
  <2>2. job \notin {"idle", "queued"} /\ phase # "none"
    BY <1>3, <2>1 DEF JobInOrder
  <2>3. QED BY <1>1, <1>3, <2>2 DEF JobInOrder
<1>7. Control!Registered' <=> Control!Registered
  BY <1>1 DEF Control!Registered
<1>8. ASSUME NEW d \in Conns PROVE Told(d)' /\ Followed(d)' /\ FilesKept(d)'
  <2>1. Told(d) /\ Followed(d) /\ FilesKept(d)
    BY DEF ClientInv
  <2>2. observing[c] = "none" /\ conn[c] = "over"
    <3>1. /\ observing[c] \in {"none", "attaching", "observing", "detaching"}
          /\ Followed(c) /\ FilesKept(c)
      BY <1>3 DEF ClientInv, ControlTypes
    <3>2. QED BY <1>1, <3>1 DEF Followed, FilesKept
  <2>3. /\ d \in instances' <=> d \in instances /\ d # c
        /\ d \in cleaning' => (d \in cleaning \/ d = c) /\ d \in files'
        /\ d \in files' => d \in files /\ (d \in cleaning \/ d = c => d \in cleaning')
        /\ d \in files /\ d \notin cleaning /\ d # c => d \in files'
    BY <1>1, <1>2
  <2>4. Told(d)'
    BY <1>1, <1>7, <2>1, <2>3 DEF Told
  <2>5. Followed(d)'
    BY <1>1, <1>4, <2>1, <2>2, <2>3 DEF Followed, Dying
  <2>6. FilesKept(d)'
    BY <1>1, <1>4, <2>1, <2>2, <2>3 DEF FilesKept
  <2>7. QED BY <2>4, <2>5, <2>6
<1>9. QED BY <1>5, <1>6, <1>8 DEF ClientInv

\* The end of the plugin revokes the job, and forgets all connections.
LEMMA ClientKeptByDestroy ==
  ASSUME ClientInv, Control!Destroy
  PROVE  ClientInv'
<1>1. /\ phase' = "none" /\ job \in {"idle", "queued"} /\ job' = "idle"
      /\ observing' = [c \in Conns |-> "none"]
      /\ instances' = {} /\ cleaning' = {} /\ attached' = {}
      /\ UNCHANGED <<conn, batch, files>>
  BY DEF Control!Destroy, Control!processVars
<1>2. batch = Control!Nobody
  BY <1>1 DEF ClientInv, JobInOrder
<1>3. ControlTypes'
  BY <1>1 DEF ClientInv, ControlTypes
<1>4. JobInOrder'
  BY <1>1, <1>2 DEF JobInOrder, Control!Nobody
<1>5. ASSUME NEW c \in Conns PROVE Told(c)' /\ Followed(c)' /\ FilesKept(c)'
  <2>1. Told(c) /\ FilesKept(c) /\ ~Control!Registered'
    BY <1>1 DEF ClientInv, Control!Registered
  <2>2. batch'.attaching = {} /\ batch'.detaching = {}
    BY <1>1, <1>2 DEF Control!Nobody
  <2>3. Told(c)'
    BY <1>1, <2>1 DEF Told
  <2>4. Followed(c)'
    BY <1>1, <2>2 DEF Followed
  <2>5. FilesKept(c)'
    BY <1>1, <2>1, <2>2 DEF FilesKept
  <2>6. QED BY <2>3, <2>4, <2>5
<1>6. QED BY <1>3, <1>4, <1>5 DEF ClientInv

\* The client closes its files: nobody asks after them any more.
LEMMA ClientKeptByClear ==
  ASSUME ClientInv, Control!ClearInstances
  PROVE  ClientInv'
<1>1. /\ phase' \in {"cleared", "clientless"} /\ instances' = {}
      /\ UNCHANGED <<conn, observing, job, batch, cleaning, files, attached>>
      /\ ~Control!Registered' /\ Dying'
  BY DEF Control!ClearInstances, Control!Registered, Control!observerVars, Control!processVars, Dying
<1>2. ControlTypes' /\ JobInOrder'
  BY <1>1 DEF ClientInv, ControlTypes, JobInOrder
<1>3. ASSUME NEW c \in Conns PROVE Told(c)' /\ Followed(c)' /\ FilesKept(c)'
  <2>1. Told(c) /\ Followed(c) /\ FilesKept(c)
    BY DEF ClientInv
  <2>2. Told(c)'
    BY <1>1, <2>1 DEF Told
  <2>3. Followed(c)'
    BY <1>1, <2>1 DEF Followed
  <2>4. FilesKept(c)'
    BY <1>1, <2>1 DEF FilesKept
  <2>5. QED BY <2>2, <2>3, <2>4
<1>4. QED BY <1>2, <1>3 DEF ClientInv

\* No step leaves a connection neither followed nor on the way to be.
LEMMA ClientStep == ClientInv /\ [Control!Next]_controlVars => ClientInv'
<1> SUFFICES ASSUME ClientInv, [Control!Next]_controlVars PROVE ClientInv'
  OBVIOUS
<1>p. phase \in {"none", "up", "asked", "waking", "waiting", "quiet", "deaf", "deinitialized",
                 "cleared", "clientless"}
  BY DEF ClientInv, ControlTypes
<1>1. CASE Control!Work \/ UNCHANGED controlVars
           \/ \E c \in Conns : Control!Write(c)
  <2>1. UNCHANGED <<phase, conn, observing, job, batch, instances, cleaning, files, attached>>
    BY <1>1 DEF controlVars, Control!Work, Control!Woken, Control!Popped, Control!Pop,
                Control!Message, Control!Write, Control!thunderVars, Control!observerVars,
                Control!clientVars, Control!processVars
  <2>2. QED BY <1>p, <2>1, ClientKept DEF Control!Registered, Dying
<1>2. CASE Control!Deinitialize \/ Control!BlockAndRing \/ Control!Wait \/ Control!Unregister
           \/ Control!Teardown
  <2>1. UNCHANGED <<conn, observing, job, batch, instances, cleaning, files, attached>>
    BY <1>2 DEF Control!Deinitialize, Control!BlockAndRing, Control!Wait, Control!Unregister,
                Control!Teardown, Control!Unchanged, Control!observerVars,
                Control!clientVars, Control!processVars
  <2>2. /\ phase' \in {"asked", "waking", "waiting", "quiet", "deaf", "deinitialized"}
        /\ Control!Registered' => Control!Registered
        /\ ~Dying
    BY <1>2 DEF Control!Deinitialize, Control!BlockAndRing, Control!Wait, Control!Unregister,
                Control!Teardown, Control!Registered, Dying
  <2>3. QED BY <2>1, <2>2, ClientKept
<1>3. QED
  BY <1>1, <1>2, ClientKeptByInitialize, ClientKeptByOpened, ClientKeptByClosed,
     ClientKeptByDispatch, ClientKeptByDispatched, ClientKeptByAttach, ClientKeptByDetach,
     ClientKeptByClear, ClientKeptByDestroy
  DEF Control!Next, Control!Stop, Control!Job

\* The worker is only deleted, and the outputs after it, when it has stopped.
LEMMA OutputsStep == OutputsKept /\ [Control!Next]_controlVars => OutputsKept'
<1> SUFFICES ASSUME OutputsKept, [Control!Next]_controlVars PROVE OutputsKept'
  OBVIOUS
<1>1. ASSUME UNCHANGED <<phase, exporter, director, printer, left>> PROVE OutputsKept'
  BY <1>1 DEF OutputsKept
<1>2. CASE Control!Job \/ UNCHANGED controlVars
           \/ \E c \in Conns : Control!Opened(c) \/ Control!Deactivated(c)
                               \/ Control!Terminated(c) \/ Control!Write(c)
  BY <1>1, <1>2 DEF controlVars, Control!Job, Control!Dispatch, Control!Dispatched,
                    Control!Attach, Control!Detach, Control!Opened, Control!Deactivated,
                    Control!Terminated, Control!Write, Control!thunderVars, Control!workerVars
<1>3. CASE Control!Work
  <2>1. UNCHANGED <<phase, exporter, director>> /\ printer # "none"
    BY <1>3 DEF Control!Work, Control!Woken, Control!Popped, Control!Pop, Control!Message,
                Control!thunderVars
  <2>2. printer' = "sending" => left' \subseteq director \cup {"exporter"}
    BY <1>3 DEF OutputsKept, Control!Work, Control!Woken, Control!Popped, Control!Pop,
                Control!Message
  <2>3. QED BY <2>1, <2>2 DEF OutputsKept
<1>4. CASE \E config \in Configs : Control!Initialize(config)
  BY <1>4 DEF OutputsKept, Control!Initialize
<1>5. CASE Control!Stop
  <2>1. CASE Control!Deinitialize \/ Control!BlockAndRing
    BY <2>1 DEF OutputsKept, Control!Deinitialize, Control!BlockAndRing, Control!Unchanged,
                Control!workerVars
  <2>2. CASE Control!Wait \/ Control!Unregister \/ Control!Teardown \/ Control!ClearInstances
               \/ Control!Destroy
    BY <2>2 DEF OutputsKept, Control!Wait, Control!Unregister, Control!Teardown,
                Control!ClearInstances, Control!Destroy, Control!Unchanged, Control!workerVars
  <2>3. QED BY <1>5, <2>1, <2>2 DEF Control!Stop
<1>6. QED BY <1>2, <1>3, <1>4, <1>5 DEF Control!Next

-----------------------------------------------------------------------------
\* Once the job has caught up the client has the files of those that live and
\* no others open, in whatever order connections came and went while it ran;
\* and the worker never finds an output gone.
THEOREM TheWorkerFindsItsOutputs == MCSpec => []OutputsInOrder
<1>1. MCInit => ClientInv /\ OutputsKept
  <2> SUFFICES ASSUME Control!Init PROVE ClientInv /\ OutputsKept
    BY DEF MCInit
  <2>1. ControlTypes /\ JobInOrder /\ OutputsKept
    BY DEF Control!Init, ControlTypes, JobInOrder, OutputsKept, Control!Nobody
  <2>2. ASSUME NEW c \in Conns PROVE Told(c) /\ Followed(c) /\ FilesKept(c)
    BY DEF Control!Init, Told, Followed, FilesKept, Control!Registered, Control!Nobody
  <2>3. QED BY <2>1, <2>2 DEF ClientInv
<1>2. ASSUME ClientInv, OutputsKept,
             [MCNext]_<<vars, jarVars, extensionVars, controlVars, outVars, meterVars, group>>
      PROVE  (ClientInv /\ OutputsKept)'
  <2>1. [Control!Next]_controlVars
    BY <1>2 DEF MCNext
  <2>2. QED BY <1>2, <2>1, ClientStep, OutputsStep
<1>3. ASSUME ClientInv, OutputsKept PROVE OutputsInOrder
  <2>1. ASSUME NEW c \in Conns
        PROVE  /\ phase = "up" /\ job = "idle" =>
                    /\ conn[c] = "up" \/ (c \in attached /\ c \in Control!Living) => c \in instances
                    /\ c \in instances => c \in Control!Living
                    /\ c \in attached /\ c \in files /\ c \notin Control!Living => c \in cleaning
               /\ c \in Control!Living => c \in files
    <3>1. /\ Told(c) /\ Followed(c) /\ FilesKept(c)
          /\ conn[c] \in {"none", "up", "closed", "over"}
          /\ observing[c] \in {"none", "attaching", "observing", "detaching"}
      BY <1>3 DEF ClientInv, ControlTypes
    <3>2. c \in Control!Living <=> conn[c] = "up" \/ (c \in Controlled /\ conn[c] = "closed")
      BY DEF Control!Living
    <3>3. c \in Control!Living => c \in files
      BY <3>1, <3>2 DEF FilesKept
    <3>4. ASSUME phase = "up", job = "idle"
          PROVE  /\ Control!Registered /\ observing[c] \in {"none", "observing"}
                 /\ c \notin batch.attaching /\ c \notin batch.detaching /\ ~Dying
      BY <1>3, <3>1, <3>4 DEF ClientInv, JobInOrder, Control!Nobody, Control!Registered, Dying
    <3>5. QED BY <3>1, <3>2, <3>3, <3>4 DEF Told, Followed
  <2>2. instances \subseteq Conns /\ attached \subseteq Conns /\ Control!Living \subseteq Conns
    BY <1>3 DEF ClientInv, ControlTypes, Control!Living
  <2>3. Control!ClientFollows
    BY <2>1, <2>2 DEF Control!ClientFollows
  <2>4. Control!OutputsDuringMessage
    BY <1>3 DEF OutputsKept, Control!OutputsDuringMessage
  <2>5. QED BY <2>3, <2>4 DEF OutputsInOrder, Control!OutputsInOrder
<1>4. QED BY <1>1, <1>2, <1>3, PTL DEF MCSpec

-----------------------------------------------------------------------------
(* The web socket of MessageControl.  What a channel was last told is what *)
(* its bits say, and so is every list that was made of them.               *)

FilePair == {"FileName", "LineNumber"}

ChannelsInv ==
  /\ DOMAIN reply = DOMAIN options
  /\ \A c \in DOMAIN options : reply[c] = {o \in Outs!OptionNames : Outs!IsOn(options[c], o)}
  /\ \A entry \in snapshot : entry.fields = Outs!Provided(kind) \cap entry.told

\* The bits of an option, one by one.
LEMMA BitsAre ==
  /\ Outs!OptionNames = {"FileName", "LineNumber", "ClassName", "Module", "Category", "Callsign",
                         "IncludingDate", "ProcessId", "ProcessName", "Paused"}
  /\ Outs!Bits["FileName"] = {0} /\ Outs!Bits["LineNumber"] = {0, 1}
  /\ Outs!Bits["ClassName"] = {2} /\ Outs!Bits["Module"] = {3} /\ Outs!Bits["Category"] = {4}
  /\ Outs!Bits["Callsign"] = {5} /\ Outs!Bits["IncludingDate"] = {6}
  /\ Outs!Bits["ProcessId"] = {7} /\ Outs!Bits["ProcessName"] = {8} /\ Outs!Bits["Paused"] = {11}
BY DEF Outs!OptionNames, Outs!Bits

\* A channel provides options that there are.
LEMMA ProvidedAreOptions == \A k : Outs!Provided(k) \subseteq Outs!OptionNames
BY BitsAre DEF Outs!Provided

\* An option that is not named leaves all bits, one that is named the others'.
LEMMA TurnedIs ==
  ASSUME NEW bits, NEW o, NEW command, NEW k
  PROVE  k \in Outs!Turned(bits, o, command) <=>
           IF k \in Outs!Bits[o] /\ o \in command.on \cup command.off THEN o \in command.on
           ELSE k \in bits
BY DEF Outs!Turned, Outs!Switch

\* A bit that one option has follows this option; those that two have are left
\* alone by a command that names neither of them.
LEMMA CommandedIs ==
  ASSUME NEW bits, NEW command
  PROVE  /\ \A o \in Outs!OptionNames \ FilePair : \A k \in Outs!Bits[o] :
              k \in Outs!Commanded(bits, command) <=>
                IF o \in command.on \cup command.off THEN o \in command.on ELSE k \in bits
         /\ (command.on \cup command.off) \cap FilePair = {} =>
              \A k \in {0, 1} : k \in Outs!Commanded(bits, command) <=> k \in bits
<1> DEFINE T(b, o) == Outs!Turned(b, o, command)
           IsNamed(o) == o \in command.on \cup command.off
<1>1. PICK b1 : b1 = T(bits, "FileName")
  OBVIOUS
<1>2. PICK b2 : b2 = T(b1, "LineNumber")
  OBVIOUS
<1>3. PICK b3 : b3 = T(b2, "ClassName")
  OBVIOUS
<1>4. PICK b4 : b4 = T(b3, "Category")
  OBVIOUS
<1>5. PICK b5 : b5 = T(b4, "Module")
  OBVIOUS
<1>6. PICK b6 : b6 = T(b5, "Callsign")
  OBVIOUS
<1>7. PICK b7 : b7 = T(b6, "ProcessId")
  OBVIOUS
<1>8. PICK b8 : b8 = T(b7, "ProcessName")
  OBVIOUS
<1>9. PICK b9 : b9 = T(b8, "IncludingDate")
  OBVIOUS
<1>10. PICK b10 : b10 = T(b9, "Paused")
  OBVIOUS
<1>11. Outs!Commanded(bits, command) = b10
  BY <1>1, <1>2, <1>3, <1>4, <1>5, <1>6, <1>7, <1>8, <1>9, <1>10 DEF Outs!Commanded
<1> HIDE DEF T
<1>12. \A b, o, k : k \in T(b, o) <=>
         IF k \in Outs!Bits[o] /\ IsNamed(o) THEN o \in command.on ELSE k \in b
  BY TurnedIs DEF T
<1> HIDE DEF IsNamed
<1>13. \A k : k \in b10 <=>
         IF k = 11 /\ IsNamed("Paused") THEN "Paused" \in command.on
         ELSE IF k = 6 /\ IsNamed("IncludingDate") THEN "IncludingDate" \in command.on
         ELSE IF k = 8 /\ IsNamed("ProcessName") THEN "ProcessName" \in command.on
         ELSE IF k = 7 /\ IsNamed("ProcessId") THEN "ProcessId" \in command.on
         ELSE k \in b6
  BY <1>7, <1>8, <1>9, <1>10, <1>12, BitsAre
<1>14. \A k : k \in b6 <=>
         IF k = 5 /\ IsNamed("Callsign") THEN "Callsign" \in command.on
         ELSE IF k = 3 /\ IsNamed("Module") THEN "Module" \in command.on
         ELSE IF k = 4 /\ IsNamed("Category") THEN "Category" \in command.on
         ELSE IF k = 2 /\ IsNamed("ClassName") THEN "ClassName" \in command.on
         ELSE k \in b2
  BY <1>3, <1>4, <1>5, <1>6, <1>12, BitsAre
<1>15. \A k : k \in b2 <=>
         IF k \in {0, 1} /\ IsNamed("LineNumber") THEN "LineNumber" \in command.on
         ELSE IF k = 0 /\ IsNamed("FileName") THEN "FileName" \in command.on
         ELSE k \in bits
  BY <1>1, <1>2, <1>12, BitsAre
<1>16. ASSUME NEW o \in Outs!OptionNames \ FilePair, NEW k \in Outs!Bits[o]
       PROVE  k \in b10 <=> IF IsNamed(o) THEN o \in command.on ELSE k \in bits
  <2>1. o \in {"ClassName", "Module", "Category", "Callsign", "IncludingDate", "ProcessId",
               "ProcessName", "Paused"}
    BY <1>16, BitsAre DEF FilePair
  <2>2. CASE o \in {"ClassName", "Module", "Category", "Callsign"}
    BY <1>13, <1>14, <1>15, <1>16, <2>2, BitsAre
  <2>3. CASE o \in {"IncludingDate", "ProcessId", "ProcessName", "Paused"}
    BY <1>13, <1>14, <1>15, <1>16, <2>3, BitsAre
  <2>4. QED BY <2>1, <2>2, <2>3
<1>17. ASSUME ~IsNamed("FileName"), ~IsNamed("LineNumber"), NEW k \in {0, 1}
       PROVE  k \in b10 <=> k \in bits
  BY <1>13, <1>14, <1>15, <1>17
<1>18. QED BY <1>11, <1>16, <1>17 DEF FilePair, IsNamed

\* No step gives a channel what it did not ask for.
LEMMA ChannelsStep == ChannelsInv /\ [Outs!Next]_outVars => ChannelsInv'
<1> SUFFICES ASSUME ChannelsInv, [Outs!Next]_outVars PROVE ChannelsInv'
  OBVIOUS
<1>1. CASE UNCHANGED outVars \/ Outs!Initialize \/ Outs!Datagrams
  <2>1. UNCHANGED <<options, reply, snapshot, kind>>
    BY <1>1 DEF outVars, Outs!Initialize, Outs!Datagrams, Outs!UpdateChannel, Outs!Output,
                Outs!SendData, Outs!exportVars
  <2>2. QED BY <2>1 DEF ChannelsInv
<1>2. CASE Outs!Deinitialize
  BY <1>2 DEF ChannelsInv, Outs!Deinitialize
<1>3. ASSUME NEW id, Outs!Attach(id) PROVE ChannelsInv'
  <2>1. Outs!OptionNames \ {"Paused"} = {o \in Outs!OptionNames : Outs!IsOn(Outs!AllOptions, o)}
    BY BitsAre DEF Outs!IsOn, Outs!AllOptions
  <2>2. QED BY <1>3, <2>1 DEF ChannelsInv, Outs!Attach
<1>4. ASSUME NEW id, Outs!Detach(id) PROVE ChannelsInv'
  BY <1>4 DEF ChannelsInv, Outs!Detach
<1>5. ASSUME NEW id, NEW command, Outs!Received(id, command) PROVE ChannelsInv'
  <2>1. /\ id \in DOMAIN options /\ DOMAIN options' = DOMAIN options /\ DOMAIN reply' = DOMAIN reply
        /\ reply'[id] = {o \in Outs!OptionNames : Outs!IsOn(options'[id], o)}
        /\ \A c \in DOMAIN options \ {id} : options'[c] = options[c] /\ reply'[c] = reply[c]
        /\ UNCHANGED <<snapshot, kind>>
    BY <1>5 DEF ChannelsInv, Outs!Received
  <2>2. QED BY <2>1 DEF ChannelsInv
<1>6. ASSUME NEW k, Outs!Message(k) PROVE ChannelsInv'
  <2>1. ASSUME NEW entry \in snapshot' PROVE entry.fields = Outs!Provided(k) \cap entry.told
    <3>1. PICK c \in DOMAIN options :
            entry = [id |-> c, fields |-> Outs!Convert(options[c], k), told |-> reply[c]]
      BY <1>6, <2>1 DEF Outs!Message
    <3>2. reply[c] = {o \in Outs!OptionNames : Outs!IsOn(options[c], o)}
      BY DEF ChannelsInv
    <3>3. Outs!Convert(options[c], k) = Outs!Provided(k) \cap reply[c]
      BY <3>2, ProvidedAreOptions DEF Outs!Convert
    <3>4. QED BY <3>1, <3>3
  <2>2. kind' = k /\ UNCHANGED <<options, reply>>
    BY <1>6 DEF Outs!Message
  <2>3. QED BY <2>1, <2>2 DEF ChannelsInv
<1>7. ASSUME NEW entry \in snapshot, Outs!Submit(entry) PROVE ChannelsInv'
  BY <1>7 DEF ChannelsInv, Outs!Submit
<1>8. QED
  BY <1>1, <1>2, <1>3, <1>4, <1>5, <1>6, <1>7 DEF Outs!Next, Outs!Export, Outs!Command

-----------------------------------------------------------------------------
\* A command turns the options that it mentions, and no other.
LEMMA CommandsOfOptions ==
  ASSUME NEW command \in Outs!Commands
  PROVE  command.on \cup command.off \subseteq Outs!OptionNames /\ command.on \cap command.off = {}
<1>1. PICK m \in Mentions : \E on \in SUBSET m : command = [on |-> on, off |-> m \ on]
  BY DEF Outs!Commands
<1>2. m \subseteq Outs!OptionNames
  BY BitsAre DEF Mentions
<1>3. QED BY <1>1, <1>2

\* A channel gets the options that it asked for, and what it was told is what
\* the messages after it tell.
THEOREM ChannelsAreHeard == MCSpec => []ChannelsGetWhatTheyAsk
<1>1. MCInit => ChannelsInv
  BY DEF MCInit, Outs!Init, ChannelsInv
<1>2. ASSUME ChannelsInv,
             [MCNext]_<<vars, jarVars, extensionVars, controlVars, outVars, meterVars, group>>
      PROVE  ChannelsInv'
  <2>1. [Outs!Next]_outVars
    BY <1>2 DEF MCNext, Outs!Next, Outs!Datagrams, Outs!Export
  <2>2. QED BY <1>2, <2>1, ChannelsStep
<1>3. ASSUME ChannelsInv PROVE ChannelsGetWhatTheyAsk
  <2>1. Outs!RepliesMatchExports
    BY <1>3 DEF ChannelsInv, Outs!RepliesMatchExports
  <2>2. ASSUME NEW id \in DOMAIN options, NEW command \in Outs!Commands
        PROVE  LET pair  == {"FileName", "LineNumber"}
                   named == command.on \cup command.off
                   may   == IF named \cap pair = {} THEN named ELSE named \cup pair
                   after == {o \in Outs!OptionNames :
                               Outs!IsOn(Outs!Commanded(options[id], command), o)}
               IN  /\ after \ may = reply[id] \ may
                   /\ command.on \ pair \subseteq after
                   /\ (command.off \ pair) \cap after = {}
    <3> DEFINE bits == options[id]
               now == Outs!Commanded(bits, command)
               named == command.on \cup command.off
    <3>1. reply[id] = {o \in Outs!OptionNames : Outs!IsOn(bits, o)}
      BY <1>3 DEF ChannelsInv
    <3>2. /\ \A o \in Outs!OptionNames \ FilePair : \A k \in Outs!Bits[o] :
               k \in now <=> IF o \in named THEN o \in command.on ELSE k \in bits
          /\ named \cap FilePair = {} => \A k \in {0, 1} : k \in now <=> k \in bits
      BY CommandedIs
    <3> HIDE DEF now, bits
    <3>3. \A o \in Outs!OptionNames \ FilePair : \E k : Outs!Bits[o] = {k}
      BY BitsAre DEF FilePair
    <3>4. \A o \in Outs!OptionNames \ FilePair :
            Outs!IsOn(now, o) <=> IF o \in named THEN o \in command.on ELSE Outs!IsOn(bits, o)
      BY <3>2, <3>3 DEF Outs!IsOn
    <3>5. named \cap FilePair = {} =>
            \A o \in FilePair : Outs!IsOn(now, o) <=> Outs!IsOn(bits, o)
      BY <3>2, BitsAre DEF Outs!IsOn, FilePair
    <3>6. named \subseteq Outs!OptionNames /\ command.on \cap command.off = {}
      BY CommandsOfOptions
    <3>7. QED BY <3>1, <3>4, <3>5, <3>6 DEF FilePair, now, bits
  <2>3. Outs!CommandsAreLocal
    BY <2>2 DEF Outs!CommandsAreLocal
  <2>4. QED BY <2>1, <2>3 DEF ChannelsGetWhatTheyAsk, Outs!ChannelsGetWhatTheyAsk
<1>4. QED BY <1>1, <1>2, <1>3, PTL DEF MCSpec
=============================================================================
