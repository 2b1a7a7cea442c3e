----------------------------- MODULE CookieJar -----------------------------
(***************************************************************************)
(* The cloud cookie jar of the browser: the browser's copy of the cookies  *)
(* that WebKit's network process holds, which a client reads and replaces  *)
(* as an encrypted, compressed and checksummed payload.  The copy is stale *)
(* until it is refreshed, and again when the cookies change.               *)
(*                                                                         *)
(* External: the network process, which serves what it is sent and sends   *)
(* its answers and signals in order; the vault with the key.               *)
(***************************************************************************)
EXTENDS Naturals, Sequences

CONSTANTS Cookies,      \* contents of a jar other than none
          Keys,         \* keys that the vault may hold
          MaxCalls,     \* bound: calls and changes of the cookies
          MaxWay        \* bound: messages under way in a queue

None    == "none"       \* no cookies
Garbage == "garbage"    \* what a payload that was damaged on its way decrypts to
Version == 1            \* PAYLOAD_VERSION

VARIABLES
  key,          \* of the cipher; "none" without CRYPTOGRAPHY
  copy, fresh,  \* _cookies, _refreshed
  posted,       \* lambdas that the main loop will run
  toNetwork, fromNetwork,
  store,        \* the cookies, in the network process
  getter,       \* the client that reads: "idle" or "waiting"
  cloud,        \* payloads that clients keep
  notified,     \* observers know of every change
  jarCalls

jarVars == <<key, copy, fresh, posted, toNetwork, fromNetwork, store, getter, cloud,
             notified, jarCalls>>

Contents == Cookies \cup {None}

Init ==
  /\ key \in Keys \cup {"none"} /\ copy = None /\ fresh = FALSE
  /\ posted = <<>> /\ toNetwork = <<>> /\ fromNetwork = <<>> /\ store \in Contents
  /\ getter = "idle" /\ cloud = {} /\ notified = TRUE /\ jarCalls = 0

JarCall == jarCalls < MaxCalls /\ jarCalls' = jarCalls + 1

-----------------------------------------------------------------------------
(* Payloads.                                                               *)

\* Cipher: without a key nothing is encrypted or decrypted.
CanCipher == key # "none"

\* Pack: no cookies need no cipher.
CanPack(c) == c = None \/ CanCipher

\* An empty payload leaves the version and the checksum as they are: nobody
\* looks at them.
Pack(c) == [empty |-> c = None, version |-> Version, checksum |-> c, key |-> key, data |-> c]

\* Unpack: a payload of another version or key, or one that does not match its
\* checksum, is refused and leaves the jar as it was.
CanUnpack(p) ==
  p.empty \/ (/\ p.version = Version
              /\ CanCipher /\ p.key = key
              /\ p.checksum = p.data)

Unpack(p) == IF p.empty THEN None ELSE p.data

\* Payloads as they come back from where they were kept.
Returned ==
  cloud \cup {[p EXCEPT !.data = Garbage] : p \in {q \in cloud : ~q.empty}}
        \cup {[p EXCEPT !.version = Version + 1] : p \in {q \in cloud : ~q.empty}}

-----------------------------------------------------------------------------
\* SubSystemsChanged, Configure: CRYPTOGRAPHY comes or goes.
SubSystemsChanged ==
  /\ JarCall /\ \E k \in Keys \cup {"none"} : k # key /\ key' = k
  /\ UNCHANGED <<copy, fresh, posted, toNetwork, fromNetwork, store, getter, cloud, notified>>

Answered == IF CanPack(copy) THEN cloud \cup {Pack(copy)} ELSE cloud

\* The getter of CookieJar: what is fresh is given at once, ...
GetFresh ==
  /\ JarCall /\ getter = "idle" /\ fresh
  /\ cloud' = Answered
  /\ UNCHANGED <<key, copy, fresh, posted, toNetwork, fromNetwork, store, getter, notified>>

\* ... and for the rest it waits.
GetStale ==
  /\ JarCall /\ getter = "idle" /\ ~fresh /\ Len(posted) < MaxWay
  /\ getter' = "waiting"
  /\ posted' = Append(posted, "refresh")
  /\ UNCHANGED <<key, copy, fresh, toNetwork, fromNetwork, store, cloud, notified>>

\* WaitForRefresh: the jar may be stale again when it is packed.
GetRefreshed ==
  /\ getter = "waiting" /\ fresh /\ getter' = "packing"
  /\ UNCHANGED <<key, copy, fresh, posted, toNetwork, fromNetwork, store, cloud, notified, jarCalls>>

GetPacked ==
  /\ getter = "packing" /\ getter' = "idle" /\ cloud' = Answered
  /\ UNCHANGED <<key, copy, fresh, posted, toNetwork, fromNetwork, store, notified, jarCalls>>

\* ERROR_TIMEDOUT.
GetTimedOut ==
  /\ getter = "waiting" /\ ~fresh /\ getter' = "idle"
  /\ UNCHANGED <<key, copy, fresh, posted, toNetwork, fromNetwork, store, cloud, notified, jarCalls>>

\* The setter of CookieJar.
Set(p) ==
  /\ JarCall /\ CanUnpack(p) /\ Len(posted) < MaxWay
  /\ copy' = Unpack(p) /\ fresh' = FALSE
  /\ posted' = Append(posted, "set")
  /\ UNCHANGED <<key, toNetwork, fromNetwork, store, getter, cloud, notified>>

\* RefreshCookieJar: asks for all cookies.
Refresh ==
  /\ posted # <<>> /\ Head(posted) = "refresh" /\ Len(toNetwork) < MaxWay
  /\ posted' = Tail(posted)
  /\ toNetwork' = Append(toNetwork, [op |-> "get"])
  /\ UNCHANGED <<key, copy, fresh, fromNetwork, store, getter, cloud, notified, jarCalls>>

\* The lambda of the setter, SetCookies: it sends what the jar holds by then.
SetCookies ==
  /\ posted # <<>> /\ Head(posted) = "set" /\ Len(toNetwork) < MaxWay
  /\ posted' = Tail(posted)
  /\ toNetwork' = Append(toNetwork, [op |-> "replace", with |-> copy])
  /\ UNCHANGED <<key, copy, fresh, fromNetwork, store, getter, cloud, notified, jarCalls>>

Network ==
  /\ toNetwork # <<>> /\ Len(fromNetwork) < MaxWay
  /\ toNetwork' = Tail(toNetwork)
  /\ LET m == Head(toNetwork) IN
       IF m.op = "get"
       THEN fromNetwork' = Append(fromNetwork, [what |-> "cookies", are |-> store])
            /\ UNCHANGED <<store, notified>>
       ELSE IF m.with # store
       THEN store' = m.with /\ notified' = FALSE
            /\ fromNetwork' = Append(fromNetwork, [what |-> "changed"])
       ELSE UNCHANGED <<store, fromNetwork, notified>>
  /\ UNCHANGED <<key, copy, fresh, posted, getter, cloud, jarCalls>>

\* A page sets a cookie.
PageSets(c) ==
  /\ JarCall /\ c # store /\ Len(fromNetwork) < MaxWay
  /\ store' = c /\ notified' = FALSE
  /\ fromNetwork' = Append(fromNetwork, [what |-> "changed"])
  /\ UNCHANGED <<key, copy, fresh, posted, toNetwork, getter, cloud>>

Changes == \E i \in 1 .. Len(fromNetwork) : fromNetwork[i].what = "changed"

\* Mutant: the observers are told, the copy stays fresh.
NotMarked == fresh

\* MarkAsStale.
MarkedAsStale == FALSE

\* NotifyCookieJarChanged: the signal "changed".
CookiesChanged ==
  /\ fromNetwork # <<>> /\ Head(fromNetwork).what = "changed"
  /\ fromNetwork' = Tail(fromNetwork)
  /\ fresh' = MarkedAsStale
  /\ notified' = ~ \E i \in 2 .. Len(fromNetwork) : fromNetwork[i].what = "changed"
  /\ UNCHANGED <<key, copy, posted, toNetwork, store, getter, cloud, jarCalls>>

\* The end of RefreshCookieJar.
Refreshed ==
  /\ fromNetwork # <<>> /\ Head(fromNetwork).what = "cookies"
  /\ copy' = Head(fromNetwork).are /\ fresh' = TRUE
  /\ fromNetwork' = Tail(fromNetwork)
  /\ UNCHANGED <<key, posted, toNetwork, store, getter, cloud, notified, jarCalls>>

Next ==
  \/ SubSystemsChanged
  \/ GetFresh \/ GetStale \/ GetRefreshed \/ GetPacked \/ GetTimedOut
  \/ \E p \in Returned : Set(p)
  \/ Refresh \/ SetCookies \/ Network \/ \E c \in Contents : PageSets(c)
  \/ CookiesChanged \/ Refreshed

-----------------------------------------------------------------------------
\* A copy that calls itself fresh is what the network process holds, unless a
\* signal that says otherwise is on its way; and no cookies are ever set that
\* no page and no client made (Unpack, MarkAsStale, SetCookies).
JarIsFresh ==
  /\ fresh /\ ~Changes => copy = store
  /\ copy \in Contents /\ store \in Contents
=============================================================================
