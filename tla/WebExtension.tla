---------------------------- MODULE WebExtension ----------------------------
(***************************************************************************)
(* The web extension: what the browser puts into the process that renders  *)
(* its pages.  It adds the headers that the browser was given to every     *)
(* request of a page, injects its script objects whenever a main frame     *)
(* gets a new window, and carries the messages of the bridge.              *)
(*                                                                         *)
(* External: WebKit, which makes and destroys pages, at addresses that it  *)
(* uses again, and sends messages to a page in order.  The browser has one *)
(* view, for which there is at most one page at a time.                    *)
(***************************************************************************)
EXTENDS Naturals, Sequences

CONSTANTS Pages,        \* addresses of WebKitWebPage objects
          HeaderLists,  \* lists of headers other than the empty one
          MaxMessages   \* bound: messages under way

VARIABLES
  alive,        \* pages
  headers,      \* s_pageHeaders: address -> list, "none" if there is no entry
  wanted,       \* history: address -> the list that the browser gave this page
  objects,      \* page -> script objects that its window has
  aamp,         \* has-aamp, of the script world
  controllers,  \* pages whose window has a controller of AAMP
  toPage,       \* messages of the browser: [page, name, parameter]
  queries       \* messages of the page that the browser was not told of yet

extensionVars == <<alive, headers, wanted, objects, aamp, controllers, toPage, queries>>

Init ==
  /\ alive = {} /\ headers = [p \in Pages |-> "none"] /\ wanted = headers
  /\ objects = [p \in Pages |-> {}] /\ aamp = FALSE /\ controllers = {}
  /\ toPage = <<>> /\ queries = 0

\* The script objects of windowObjectClearedCallback, in a build with all of
\* its options.
Milestone     == {"automation"}
NotifyThunder == {"wpe"}
SecurityAgent == {"thunder"}
IIdentifier   == {"IIdentifier"}
BridgeObject  == {"ServiceManager"}

Objects ==
  Milestone \cup NotifyThunder \cup SecurityAgent \cup IIdentifier \cup BridgeObject

\* pageCreatedCallback.
PageCreated(p) ==
  /\ p \notin alive /\ alive' = alive \cup {p}
  /\ UNCHANGED <<headers, wanted, objects, aamp, controllers, toPage, queries>>

\* UnloadJSBindings, for a main frame: whoever has the controller.
Unloaded(p) == IF aamp THEN controllers \ {p} ELSE controllers

\* didStartProvisionalLoadForFrame.
ProvisionalLoad(p) ==
  /\ p \in alive
  /\ controllers' = Unloaded(p) /\ aamp' = FALSE
  /\ UNCHANGED <<alive, headers, wanted, objects, toPage, queries>>

\* LoadJSBindings unloads first.
UnloadedFirst(p) == Unloaded(p)

\* windowObjectClearedCallback: the window of a main frame is new; some sites
\* do not get the bindings of AAMP (CanInjectJSBindings).
WindowObjectCleared(p, canInject) ==
  /\ p \in alive
  /\ objects' = [objects EXCEPT ![p] = Objects]
  /\ aamp' = canInject
  /\ controllers' = UnloadedFirst(p) \cup (IF canInject THEN {p} ELSE {})
  /\ UNCHANGED <<alive, headers, wanted, toPage, queries>>

\* HeaderList, and the replies and events of the bridge.
Send(p, m) ==
  /\ p \in alive /\ Len(toPage) < MaxMessages
  /\ toPage' = Append(toPage, [page |-> p, message |-> m])
  /\ UNCHANGED <<alive, headers, wanted, objects, aamp, controllers, queries>>

\* SetRequestHeaders: an empty list removes the entry, one that cannot be
\* parsed changes nothing.
SetRequestHeaders(p, h) == [headers EXCEPT ![p] = h]

\* userMessageReceivedCallback.
UserMessageReceived ==
  /\ toPage # <<>> /\ toPage' = Tail(toPage)
  /\ LET p == Head(toPage).page
         m == Head(toPage).message
     IN IF m \in HeaderLists \cup {"none"} /\ p \in alive
        THEN headers' = SetRequestHeaders(p, m) /\ wanted' = [wanted EXCEPT ![p] = m]
        ELSE UNCHANGED <<headers, wanted>>
  /\ UNCHANGED <<alive, objects, aamp, controllers, queries>>

\* OnBridgeQuery, of a page whose window has the bridge.
BridgeQuery(p) ==
  /\ p \in alive /\ "ServiceManager" \in objects[p] /\ queries < MaxMessages
  /\ queries' = queries + 1
  /\ UNCHANGED <<alive, headers, wanted, objects, aamp, controllers, toPage>>

\* The browser's userMessageReceivedCallback, OnBridgeQuery.
QueryTold ==
  /\ queries > 0 /\ queries' = queries - 1
  /\ UNCHANGED <<alive, headers, wanted, objects, aamp, controllers, toPage>>

Next ==
  \/ \E p \in Pages :
       \/ PageCreated(p) \/ ProvisionalLoad(p) \/ BridgeQuery(p)
       \/ WindowObjectCleared(p, TRUE) \/ WindowObjectCleared(p, FALSE)
       \/ \E m \in HeaderLists \cup {"none", "reply", "event", "unparsable"} : Send(p, m)
  \/ UserMessageReceived \/ QueryTold

\* ApplyRequestHeaders: the headers that a request of p gets are the ones that
\* the browser gave p last; and a window with a controller of AAMP says so, or
\* nothing would unload it (LoadJSBindings, UnloadJSBindings).
HeadersOfThePage ==
  /\ \A p \in alive : headers[p] = wanted[p]
  /\ controllers # {} => aamp
=============================================================================
