----------------------------- MODULE Messenger -----------------------------
(***************************************************************************)
(* Messenger: users in virtual rooms.  The plugin (Messenger) keeps the    *)
(* tokens it has given to JSON-RPC clients and a mirror of the room names; *)
(* its RoomMaintainer keeps the rooms and their members (RoomImpl), and    *)
(* calls back into the plugin and the members.                             *)
(*                                                                         *)
(* Each of the two has its own lock, and each calls the other with its     *)
(* lock held: a step ends where a thread has to wait for a lock, or has    *)
(* released one.  The lock of a RoomImpl is a leaf and is not modelled.    *)
(*                                                                         *)
(* External: the clients and their channels; and the list of a room, which *)
(* unlinks a member when its last reference is released, before its        *)
(* destructor runs.                                                        *)
(***************************************************************************)
EXTENDS Integers, FiniteSets

CONSTANTS Threads, Rooms, Users, Channels,
          None,      \* no thread
          MaxJoins   \* bound: calls of Join, each with a token of its own

ASSUME NoneAssumption  == None \notin Threads
ASSUME JoinsAssumption == MaxJoins \in Nat

VARIABLES
  \* Messenger
  roomIds,      \* _roomIds: tokens
  roomNames,    \* _rooms
  adminLock,    \* _adminLock: the thread that holds it
  \* RoomMaintainer
  rooms,        \* _rooms: names
  members,      \* tokens of the RoomImpls in the lists of the rooms
  callbacks,    \* tokens of RoomImpls that have a _callback
  roomLock,     \* _adminLock: the thread that holds it
  \* threads and clients
  at,           \* where each thread is
  info,         \* token -> what it was asked for
  open,         \* open channels
  closed,       \* channels that are gone, and Closed() not called yet
  told          \* history: token -> users its subscriber has been told of

msgVars  == <<roomIds, roomNames>>
roomVars == <<rooms, members, callbacks, told>>
outside  == <<open, closed>>
vars     == <<msgVars, adminLock, roomVars, roomLock, at, info, outside>>

Tokens == DOMAIN info
Idle   == [pc |-> "idle", token |-> 0]

Init ==
  /\ roomIds = {} /\ roomNames = {} /\ adminLock = None
  /\ rooms = {} /\ members = {} /\ callbacks = {} /\ roomLock = None
  /\ at = [t \in Threads |-> Idle] /\ info = <<>>
  /\ open = Channels /\ closed = {}
  /\ told = [k \in 1 .. MaxJoins |-> {}]

Room(k) == info[k].room
User(k) == info[k].user
MembersOf(r) == {k \in members : Room(k) = r}

Goes(t, there, k) == at' = [at EXCEPT ![t] = [pc |-> there, token |-> k]]
Done(t)           == at' = [at EXCEPT ![t] = Idle]
Leaving           == {at[t].token : t \in {u \in Threads : at[u].pc \in {"exit", "exit all"}}}

\* Members of a room with a callback are told who came or left.
TellJoined(r, k) == [j \in DOMAIN told |->
  IF j \in callbacks \cap MembersOf(r) THEN told[j] \cup {User(k)} ELSE told[j]]
\* Mutant: nobody is told.
TellNobody(r, k) == [told EXCEPT ![k] = {}]

TellLeft(r, k) == [j \in DOMAIN told |->
  IF j = k THEN {} ELSE
  IF j \in callbacks \cap MembersOf(r) THEN told[j] \ {User(k)} ELSE told[j]]

-----------------------------------------------------------------------------
(* Join.                                                                   *)

\* A client that is connected asks; its channel may close before it is done.
JoinStarts(t, c, r, u) ==
  LET k == Cardinality(Tokens) + 1 IN
  /\ at[t] = Idle /\ c \in open /\ k <= MaxJoins
  /\ info' = [j \in Tokens \cup {k} |->
               IF j = k THEN [room |-> r, user |-> u, channel |-> c] ELSE info[j]]
  /\ Goes(t, "join", k)
  /\ UNCHANGED <<msgVars, adminLock, roomVars, roomLock, outside>>

Taken(k) == \E j \in MembersOf(Room(k)) : User(j) = User(k)

\* The room exists: enter it, or be refused.
JoinExisting(t) ==
  LET k == at[t].token IN
  /\ at[t].pc = "join" /\ roomLock = None /\ Room(k) \in rooms
  /\ IF Taken(k)
       THEN Done(t) /\ UNCHANGED <<members, told>>
       ELSE /\ members' = members \cup {k} /\ told' = TellJoined(Room(k), k)
            /\ Goes(t, "record", k)
  /\ UNCHANGED <<msgVars, adminLock, rooms, callbacks, roomLock, info, outside>>

\* It does not: create it, and tell the plugin with the lock held...
JoinCreates(t) ==
  LET k == at[t].token IN
  /\ at[t].pc = "join" /\ roomLock = None /\ Room(k) \notin rooms
  /\ rooms' = rooms \cup {Room(k)} /\ roomLock' = t
  /\ Goes(t, "created", k)
  /\ UNCHANGED <<msgVars, adminLock, members, callbacks, told, info, outside>>

\* ...Created(), and the first member enters.
Created(t) ==
  LET k == at[t].token IN
  /\ at[t].pc = "created" /\ adminLock = None
  /\ roomNames' = roomNames \cup {Room(k)}
  /\ members' = members \cup {k} /\ told' = TellJoined(Room(k), k)
  /\ roomLock' = None /\ Goes(t, "record", k)
  /\ UNCHANGED <<roomIds, adminLock, rooms, callbacks, info, outside>>

\* The plugin takes its own lock to note the token of the new member.
JoinRecords(t) ==
  LET k == at[t].token IN
  /\ at[t].pc = "record" /\ adminLock = None
  /\ roomIds' = roomIds \cup {k} /\ Done(t)
  /\ UNCHANGED <<roomNames, adminLock, roomVars, roomLock, info, outside>>

-----------------------------------------------------------------------------
(* Leave, and Closed for all the tokens of a channel: the plugin's lock is *)
(* held all the time.                                                      *)

\* Releasing the member unlinks it; its destructor calls Exit.
LeaveStarts(t, k) ==
  /\ at[t] = Idle /\ adminLock = None /\ k \in roomIds
  /\ adminLock' = t /\ members' = members \ {k} /\ Goes(t, "exit", k)
  /\ UNCHANGED <<msgVars, rooms, callbacks, told, roomLock, info, outside>>

\* Mutant: the leaving member is still counted.
LastOfTwo(k) == Cardinality(MembersOf(Room(k))) = 1

LastOne(k) == MembersOf(Room(k)) = {}

RoomNamesAfter(k) == IF LastOne(k) THEN roomNames \ {Room(k)} ELSE roomNames

CallbacksAfter(k) == callbacks \ {k}

\* Exit(): those that stay are told, an empty room goes.
Exit(t, k) ==
  /\ roomLock = None
  /\ told' = TellLeft(Room(k), k) /\ callbacks' = CallbacksAfter(k)
  /\ rooms' = IF LastOne(k) THEN rooms \ {Room(k)} ELSE rooms
  /\ roomNames' = RoomNamesAfter(k)
  /\ UNCHANGED <<members, roomLock, info, outside>>

TokenErased(k) == roomIds \ {k}

LeaveExits(t) ==
  /\ at[t].pc = "exit" /\ Exit(t, at[t].token)
  /\ roomIds' = TokenErased(at[t].token)
  /\ adminLock' = None /\ Done(t)

ChannelCloses(c) ==
  /\ c \in open /\ open' = open \ {c} /\ closed' = closed \cup {c}
  /\ UNCHANGED <<msgVars, adminLock, roomVars, roomLock, at, info>>

\* The next token of the channel, or the end.
ClosedNext(t, c) ==
  LET mine == {k \in roomIds : info[k].channel = c} IN
  /\ \/ mine = {} /\ adminLock' = None /\ Done(t) /\ UNCHANGED members
     \/ \E k \in mine : /\ adminLock' = t /\ members' = members \ {k}
                        /\ Goes(t, "exit all", k)
  /\ UNCHANGED <<msgVars, rooms, callbacks, told, roomLock, info, open>>

\* The connection server calls Closed once for a channel that is gone.
ClosedStarts(t, c) ==
  /\ at[t] = Idle /\ adminLock = None /\ c \in closed
  /\ closed' = closed \ {c} /\ ClosedNext(t, c)

ClosedExits(t) ==
  /\ at[t].pc = "exit all" /\ Exit(t, at[t].token)
  /\ roomIds' = TokenErased(at[t].token)
  /\ Goes(t, "next", at[t].token) /\ UNCHANGED adminLock

ClosedGoesOn(t) ==
  /\ at[t].pc = "next" /\ ClosedNext(t, info[at[t].token].channel)
  /\ UNCHANGED closed

-----------------------------------------------------------------------------
(* Send and the subscription to user updates.                              *)

SendStarts(t, k) ==
  /\ at[t] = Idle /\ adminLock = None /\ k \in roomIds
  /\ adminLock' = t /\ Goes(t, "send", k)
  /\ UNCHANGED <<msgVars, roomVars, roomLock, info, outside>>

\* Every member gets the message, the sender too.
Sends(t) ==
  /\ at[t].pc = "send" /\ roomLock = None
  /\ adminLock' = None /\ Done(t)
  /\ UNCHANGED <<msgVars, roomVars, roomLock, info, outside>>

\* SetCallback(cb) under the lock of the plugin...
Subscribe(t, k) ==
  /\ at[t] = Idle /\ adminLock = None /\ k \in roomIds
  /\ adminLock' = t /\ callbacks' = callbacks \cup {k} /\ Goes(t, "notify", k)
  /\ UNCHANGED <<msgVars, rooms, members, told, roomLock, info, outside>>

Present(k) == {User(j) : j \in MembersOf(Room(k))}

\* ...then Notify() under that of the rooms.
Notify(t) ==
  LET k == at[t].token IN
  /\ at[t].pc = "notify" /\ roomLock = None
  /\ told' = [told EXCEPT ![k] = @ \cup Present(k)]
  /\ adminLock' = None /\ Done(t)
  /\ UNCHANGED <<msgVars, rooms, members, callbacks, roomLock, info, outside>>

Unsubscribe(t, k) ==
  /\ at[t] = Idle /\ adminLock = None /\ k \in roomIds \cap callbacks
  /\ callbacks' = callbacks \ {k} /\ told' = [told EXCEPT ![k] = {}]
  /\ UNCHANGED <<msgVars, adminLock, rooms, members, roomLock, at, info, outside>>

-----------------------------------------------------------------------------
Continues(t) == \/ JoinExisting(t) \/ JoinCreates(t) \/ Created(t) \/ JoinRecords(t)
              \/ LeaveExits(t) \/ ClosedExits(t) \/ ClosedGoesOn(t)
              \/ Sends(t) \/ Notify(t)

Calls(t) == \/ \E c \in Channels, r \in Rooms, u \in Users : JoinStarts(t, c, r, u)
            \/ \E k \in Tokens : \/ LeaveStarts(t, k) \/ SendStarts(t, k)
                                 \/ Subscribe(t, k) \/ Unsubscribe(t, k)

Closes(t) == \E c \in Channels : ClosedStarts(t, c)

Next == \/ \E t \in Threads : Calls(t) \/ Closes(t) \/ Continues(t)
        \/ \E c \in Channels : ChannelCloses(c)

\* Calls that have begun go on when they get their locks, which are handed
\* out without starving anybody; closed channels are reported.
Fairness == /\ \A t \in Threads : SF_vars(Continues(t))
            /\ WF_vars(\E t \in Threads : Closes(t))

Spec == Init /\ [][Next]_vars /\ Fairness

-----------------------------------------------------------------------------
(* Properties                                                              *)

\* State of the plugin, its rooms and its clients; only members that live have
\* a callback.
TypeOK ==
  /\ Tokens \subseteq 1 .. MaxJoins
  /\ \A k \in Tokens : info[k] \in [room : Rooms, user : Users, channel : Channels]
  /\ roomIds \subseteq Tokens /\ members \subseteq Tokens /\ callbacks \subseteq members \cup Leaving
  /\ rooms \subseteq Rooms /\ roomNames \subseteq Rooms
  /\ {adminLock, roomLock} \subseteq Threads \cup {None}
  /\ \A t \in Threads : at[t].pc # "idle" => at[t].token \in Tokens
  /\ told \in [1 .. MaxJoins -> SUBSET Users] /\ open \cup closed \subseteq Channels

\* Outside a creation the plugin's room names are those of the rooms, so that
\* Created() and Destroyed() find what they assert, and clients that register
\* for room updates are told what is there.
NamesMirrorRooms ==
  IF \E t \in Threads : at[t].pc = "created"
    THEN \E t \in Threads : /\ at[t].pc = "created"
                            /\ Room(at[t].token) \notin roomNames
                            /\ rooms = roomNames \cup {Room(at[t].token)}
    ELSE rooms = roomNames

\* "The rooms are dynamically created and destroyed based on user attendance":
\* a room exists as long as somebody is in it, or about to be in or out.
RoomsByAttendance ==
  /\ \A k \in members : Room(k) \in rooms
  /\ \A r \in rooms : \/ MembersOf(r) # {}
                      \/ \E k \in Leaving : Room(k) = r
                      \/ \E t \in Threads : at[t].pc = "created" /\ Room(at[t].token) = r

\* A user is in a room once, although the checks of two joins and a leave of
\* the same user overlap.
UserOncePerRoom ==
  \A j, k \in members : Room(j) = Room(k) /\ User(j) = User(k) => j = k

\* Every token refers to a member that lives, so that Send() and Leave() do
\* not use one that is gone, and every member has a token or is about to get
\* it, so that somebody can make it leave.
TokensAreMembers ==
  /\ \A k \in roomIds : k \in members \/ k \in Leaving
  /\ \A k \in members : k \in roomIds
                        \/ \E t \in Threads : at[t].pc = "record" /\ at[t].token = k

\* Whoever a subscriber has been told of, and not told that they left, is in
\* the room or on the way out.
NoGhosts ==
  \A k \in callbacks : \A u \in told[k] :
    \E j \in members \cup Leaving : Room(j) = Room(k) /\ User(j) = u

\* Claimed by the documentation of leave, "The room ID becomes invalid after
\* this call": a leave that has begun ends.
LeaveEnds == \A t \in Threads : at[t].pc = "exit" ~> at[t].pc # "exit"

\* Rooms, names, users and tokens agree.
MembersInOrder ==
  /\ TypeOK /\ NamesMirrorRooms /\ RoomsByAttendance
  /\ UserOncePerRoom /\ TokensAreMembers

-----------------------------------------------------------------------------
(* Known not to hold, and not checked.                                     *)

Quiet == (\A t \in Threads : at[t] = Idle) /\ closed = {}

\* When nothing is going on, subscribers have been told who is in the room: a
\* user who leaves and comes back is reported to have joined, then to have left.
SubscribersKnow == Quiet => \A k \in callbacks : told[k] = Present(k)

\* When nothing is going on, only connected clients are in rooms: a channel
\* may be reported closed before the join of its client is recorded.
OnlyConnected == Quiet => \A k \in members : info[k].channel \in open
=============================================================================
