---------------------- MODULE RustBridgeImplementation ----------------------
(***************************************************************************)
(* The other half of RustBridge: finding the library, making its plugin,   *)
(* passing requests in and answers out.  The library calls back through a  *)
(* plain function, wpe_send_to, from the moment its plugin is being made.  *)
(* The table of RustBridge is a set here; module Bridge has its time-outs. *)
(***************************************************************************)
EXTENDS Naturals, FiniteSets

CONSTANTS Framework,     \* directories that the framework names, in order 1, 2, ...
          Environment,   \* directories of LD_LIBRARY_PATH, tried after those
          Methods,       \* what the library can do
          Ids            \* bound: requests, none of them 0

VARIABLES
  place,       \* directory -> what is there under the name of the library
  at,          \* where Configure is, or what has become of the object
  next,        \* the directory to try
  result,      \* result of Configure, so far
  library,     \* _library: the directory it is from, 0 if none
  functions,   \* the directory that _fn_* are from, 0 if they are null
  rust,        \* _plugin: "wild" at first, then "null" or "alive"
  callback,    \* _callback is not null
  held,        \* references to it that the object owns
  registered,  \* method names registered with JSON-RPC
  inside,      \* requests that the plugin is busy with
  received,    \* requests that have reached the plugin
  pending,     \* _pendingRequests of RustBridge
  replies      \* request -> what its client was told

connector == <<place, next, library, functions, rust>>
frontVars == <<registered, pending, replies>>
rustVars == <<connector, at, result, callback, held, inside, received, frontVars>>

Places == 1 .. Framework + Environment

\* "refuses" has all the functions, but makes no plugin.
Kinds == {"none", "broken", "incomplete", "refuses", "whole"}

Init ==
  /\ place \in [Places -> Kinds]
  /\ at = "new" /\ next = 1 /\ result = "none" /\ library = 0 /\ functions = 0 /\ rust = "wild"
  /\ callback = FALSE /\ held = 0
  /\ registered = {} /\ inside = {} /\ received = {} /\ pending = {} /\ replies = [i \in Ids |-> "none"]

-----------------------------------------------------------------------------
(* Configure.                                                              *)

Configure ==
  /\ at = "new" /\ \E given \in BOOLEAN :
       IF given
       THEN at' = "loading" /\ callback' = TRUE /\ UNCHANGED result
       ELSE at' = "refused" /\ result' = "ERROR_INCOMPLETE_CONFIG" /\ UNCHANGED callback
  /\ UNCHANGED <<connector, held, inside, received, frontVars>>

LoadResult(p) ==
  CASE place[p] = "none" -> "ERROR_NOT_EXIST"
    [] place[p] = "broken" -> "ERROR_OPENING_FAILED"
    [] place[p] = "incomplete" -> "ERROR_UNAVAILABLE"
    [] OTHER -> "ERROR_NONE"

Complete(p) == LoadResult(p) = "ERROR_NONE"

LoadLibrary ==
  /\ at = "loading" /\ next \in Places /\ result' = LoadResult(next)
  /\ IF Complete(next)
     THEN library' = next /\ functions' = next /\ at' = "creating" /\ UNCHANGED next
     ELSE /\ next' = next + 1
          /\ functions' = IF place[next] = "incomplete" THEN 0 ELSE functions
          /\ UNCHANGED <<library, at>>
  /\ UNCHANGED <<place, rust, callback, held, inside, received, frontVars>>

\* The callback is forgotten; no reference was taken.
Refused == at' = "refused" /\ callback' = FALSE

NotFound ==
  /\ at = "loading" /\ next \notin Places /\ Refused
  /\ result' = IF Places = {} THEN "ERROR_NOT_EXIST" ELSE result
  /\ UNCHANGED <<connector, held, inside, received, frontVars>>

\* RustBridge::InternalMessage registers the methods that the library lists.
InternalMessage == callback /\ registered' = Methods

\* While its plugin is being made the library sends the list of its methods.
Creates ==
  /\ at = "creating"
  /\ IF place[library] = "refuses"
     THEN rust' = "null" /\ result' = "ERROR_BAD_REQUEST" /\ Refused /\ UNCHANGED registered
     ELSE InternalMessage /\ at' = "created" /\ UNCHANGED <<rust, result, callback>>
  /\ UNCHANGED <<place, next, library, functions, held, inside, received, pending, replies>>

Created ==
  /\ at = "created" /\ rust' = "alive" /\ at' = "configured" /\ held' = 1
  /\ UNCHANGED <<place, next, library, functions, result, callback, inside, received, frontVars>>

-----------------------------------------------------------------------------
(* Requests and answers.                                                   *)

Request(i) == inside' = inside \cup {i} /\ received' = received \cup {i}

\* RustBridge::Invoke knows what the library has registered.
Invoke(i) ==
  /\ at = "configured" /\ i \notin received /\ replies[i] = "none"
  /\ \E method \in Methods \cup {"unknown"} :
       IF method \in registered
       THEN pending' = pending \cup {i} /\ Request(i) /\ UNCHANGED replies
       ELSE replies' = [replies EXCEPT ![i] = "ERROR_BAD_REQUEST"] /\ UNCHANGED <<pending, inside, received>>
  /\ UNCHANGED <<connector, at, result, callback, held, registered>>

Texts == {"result", "empty", "error"}

\* What wpe_send_to makes of it, and RustResponse of that.  The words of an
\* error are lost on the way.
Told(text) == CASE text = "empty" -> "null" [] text = "error" -> "code" [] OTHER -> text

RustResponse(i, text) ==
  IF i \in pending
  THEN replies' = [replies EXCEPT ![i] = Told(text)] /\ pending' = pending \ {i}
  ELSE UNCHANGED <<pending, replies>>

\* The plugin answers during the request or later, more than once, or under
\* id 0, which cannot be an event: it is nobody's answer.
SendTo(i) ==
  /\ rust = "alive" /\ at = "configured" /\ i \in received \cup {0} /\ callback
  /\ \E text \in Texts : RustResponse(i, text)
  /\ UNCHANGED <<connector, at, result, callback, held, registered, inside, received>>

\* on_message ends, or panics: the difference is printed, and not told.
Return(i) ==
  /\ at = "configured" /\ i \in inside /\ inside' = inside \ {i}
  /\ UNCHANGED <<connector, at, result, callback, held, received, frontVars>>

-----------------------------------------------------------------------------
(* The last reference is released.                                         *)

\* A library is there, but no plugin; or a request is inside the plugin.
UnsafeToDestroy == (library # 0 /\ rust # "alive") \/ inside # {}

ReleasesCallback == held' = IF callback THEN held - 1 ELSE held

Destroy ==
  /\ at \in {"configured", "refused"}
  /\ IF UnsafeToDestroy
     THEN at' = "crashed" /\ UNCHANGED <<library, functions, rust, callback, held>>
     ELSE /\ at' = "gone" /\ library' = 0 /\ functions' = 0 /\ callback' = FALSE
          /\ rust' = (IF library # 0 THEN "dropped" ELSE rust) /\ ReleasesCallback
  /\ UNCHANGED <<place, next, result, inside, received, frontVars>>

Next ==
  \/ Configure \/ LoadLibrary \/ NotFound \/ Creates \/ Created \/ Destroy
  \/ \E i \in Ids : Invoke(i) \/ SendTo(i) \/ Return(i)
  \/ SendTo(0)

-----------------------------------------------------------------------------
(* Properties.                                                             *)

\* The plugin that serves is from the first directory that has a complete
\* library; its methods are known before it is asked, the callback is there
\* for as long as it may answer.  No failure keeps the callback or a part of
\* a library, and the end gives back each reference that was taken.
LibraryServes ==
  /\ library # 0 => /\ functions = library /\ Complete(library)
                    /\ \A p \in 1 .. library - 1 : ~Complete(p)
  /\ rust = "alive" => library # 0 /\ registered = Methods /\ callback /\ held = 1
  /\ callback => held = 1 \/ at \in {"loading", "creating", "created"}
  /\ at \in {"refused", "gone"} => held = 0 /\ ~callback
  /\ at = "configured" => result = "ERROR_NONE"
  /\ at = "refused" => result # "ERROR_NONE"

-----------------------------------------------------------------------------
(* Known not to hold, and not checked.                                     *)

\* Asserted by Deinitialize, _plugin is not null: a library that makes no
\* plugin stays loaded, and is asked to destroy it.
DestroysWhatItMade == at # "crashed"
=============================================================================
