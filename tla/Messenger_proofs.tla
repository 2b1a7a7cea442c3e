------------------------- MODULE Messenger_proofs --------------------------
(***************************************************************************)
(* The rooms of the Messenger, for any number of threads, rooms, users,    *)
(* channels and calls: the plugin and its room maintainer agree whenever   *)
(* no creation is under way, and the tokens are those of the members.      *)
(*                                                                         *)
(* What a property of the module says of the calls that are under way is   *)
(* said here of the sets of their tokens (Joining, Creating, Recording,    *)
(* Leaving, Notified), which a step of a call changes by one token:        *)
(* CallMoves.  The invariant has two layers: where a thread is tells which *)
(* locks it holds (ThreadInv), and the rooms are told by the sets of       *)
(* tokens (RoomInv).                                                       *)
(***************************************************************************)
EXTENDS Messenger, FiniteSetTheorems, TLAPS

WithAdminLock == {"exit", "exit all", "next", "send", "notify"}
Pcs           == WithAdminLock \cup {"idle", "join", "created", "record"}

\* The tokens of the calls that have come to one of the places S.
TokensAt(threads, S) == {threads[t].token : t \in {u \in Threads : threads[u].pc \in S}}
Joining   == TokensAt(at, {"join"})
Creating  == TokensAt(at, {"created"})
Recording == TokensAt(at, {"record"})
Notified  == TokensAt(at, {"notify"})

-----------------------------------------------------------------------------
(* The threads: where they are tells which lock they hold, and no two      *)
(* calls of Join have the same token.                                      *)

ThreadsOK ==
  /\ at \in [Threads -> [pc : Pcs, token : Nat]]
  /\ \A t \in Threads : at[t].pc = "idle" <=> at[t] = Idle

LocksHeld ==
  \A t \in Threads : /\ at[t].pc \in WithAdminLock <=> adminLock = t
                     /\ at[t].pc = "created" <=> roomLock = t

OneJoinEach ==
  \A t, u \in Threads :
    /\ at[t].pc \in {"join", "created", "record"}
    /\ at[u].pc \in {"join", "created", "record"}
    /\ at[t].token = at[u].token
    => t = u

TokensInARow == \E n \in 0 .. MaxJoins : Tokens = 1 .. n

ThreadInv == /\ TypeOK /\ ThreadsOK /\ LocksHeld /\ OneJoinEach /\ TokensInARow

-----------------------------------------------------------------------------
(* The rooms, told by what the calls under way are about to do.            *)

\* Where a call has come to tells where its token is.
TokensOfCalls ==
  /\ (Joining \cup Creating) \cap (members \cup roomIds) = {}
  /\ Recording \subseteq members \ roomIds
  /\ Leaving \subseteq roomIds \ members
  /\ Notified \subseteq callbacks
  /\ roomIds \subseteq members \cup Leaving
  /\ members \subseteq roomIds \cup Recording

\* The names the plugin does not have yet are those of the room being created.
NamesOfRooms ==
  /\ rooms = roomNames \cup {Room(k) : k \in Creating}
  /\ \A k \in Creating : Room(k) \notin roomNames

\* Nobody enters a room before the one who creates it.
RoomsAttended ==
  /\ \A k \in members : Room(k) \in rooms
  /\ \A r \in rooms : \E k \in members \cup Leaving \cup Creating : Room(k) = r
  /\ \A k \in Creating : \A j \in members : Room(j) # Room(k)

ToldSubscribersOnly == \A k \in 1 .. MaxJoins : k \notin callbacks => told[k] = {}

RoomInv == /\ TokensOfCalls /\ NamesOfRooms /\ RoomsAttended /\ UserOncePerRoom
           /\ NoGhosts /\ ToldSubscribersOnly

IInv == ThreadInv /\ RoomInv

-----------------------------------------------------------------------------
\* A thread that goes on, or is done, leaves the others where they are.
LEMMA GoesOn ==
  ASSUME ThreadsOK, NEW t \in Threads, NEW there \in Pcs \ {"idle"}, NEW k \in Nat,
         Goes(t, there, k)
  PROVE  /\ ThreadsOK'
         /\ at'[t].pc = there /\ at'[t].token = k
         /\ \A u \in Threads : u # t => at'[u] = at[u]
BY DEF ThreadsOK, Goes, Idle

\* A thread that is done is idle, and the others are where they were.
LEMMA IsDone ==
  ASSUME ThreadsOK, NEW t \in Threads, Done(t)
  PROVE  /\ ThreadsOK'
         /\ at'[t] = Idle /\ at'[t].pc = "idle"
         /\ \A u \in Threads : u # t => at'[u] = at[u]
BY DEF ThreadsOK, Done, Idle, Pcs

\* When one thread moves, its token is the only one that does.
LEMMA TokenMoves ==
  ASSUME NEW a, NEW b, NEW S, NEW t \in Threads,
         \A u \in Threads : u # t => b[u] = a[u],
         a[t].pc \in S => \A u \in Threads :
           a[u].pc \in S /\ a[u].token = a[t].token => u = t
  PROVE  TokensAt(b, S) =
           (TokensAt(a, S) \ (IF a[t].pc \in S THEN {a[t].token} ELSE {}))
             \cup (IF b[t].pc \in S THEN {b[t].token} ELSE {})
<1> DEFINE others == {a[u].token : u \in {v \in Threads : v # t /\ a[v].pc \in S}}
<1>1. TokensAt(a, S) = others \cup (IF a[t].pc \in S THEN {a[t].token} ELSE {})
  BY DEF TokensAt
<1>2. TokensAt(b, S) = others \cup (IF b[t].pc \in S THEN {b[t].token} ELSE {})
  <2>1. others = {b[u].token : u \in {v \in Threads : v # t /\ b[v].pc \in S}}
    OBVIOUS
  <2> HIDE DEF others
  <2>2. QED BY <2>1 DEF TokensAt
<1>3. a[t].pc \in S => a[t].token \notin others
  OBVIOUS
<1> HIDE DEF others
<1>4. QED BY <1>1, <1>2, <1>3

\* A step of a thread takes its token out of the set of the place it leaves,
\* and into that of the place it comes to.
LEMMA CallMoves ==
  ASSUME ThreadInv, NEW t \in Threads,
         \A u \in Threads : u # t => at'[u] = at[u]
  PROVE  /\ Joining' = (Joining \ (IF at[t].pc = "join" THEN {at[t].token} ELSE {}))
                         \cup (IF at'[t].pc = "join" THEN {at'[t].token} ELSE {})
         /\ Creating' = (Creating \ (IF at[t].pc = "created" THEN {at[t].token} ELSE {}))
                          \cup (IF at'[t].pc = "created" THEN {at'[t].token} ELSE {})
         /\ Recording' = (Recording \ (IF at[t].pc = "record" THEN {at[t].token} ELSE {}))
                           \cup (IF at'[t].pc = "record" THEN {at'[t].token} ELSE {})
         /\ Notified' = (Notified \ (IF at[t].pc = "notify" THEN {at[t].token} ELSE {}))
                          \cup (IF at'[t].pc = "notify" THEN {at'[t].token} ELSE {})
         /\ Leaving' = (Leaving \ (IF at[t].pc \in {"exit", "exit all"} THEN {at[t].token} ELSE {}))
                         \cup (IF at'[t].pc \in {"exit", "exit all"} THEN {at'[t].token} ELSE {})
<1>1. ASSUME NEW S, S \subseteq {"join", "created", "record"} \/ S \subseteq WithAdminLock,
             at[t].pc \in S,
             NEW u \in Threads, at[u].pc \in S, at[u].token = at[t].token
      PROVE  u = t
  BY <1>1 DEF ThreadInv, OneJoinEach, LocksHeld
<1>2. ASSUME NEW S, S \subseteq {"join", "created", "record"} \/ S \subseteq WithAdminLock
      PROVE  TokensAt(at', S) =
               (TokensAt(at, S) \ (IF at[t].pc \in S THEN {at[t].token} ELSE {}))
                 \cup (IF at'[t].pc \in S THEN {at'[t].token} ELSE {})
  BY <1>1, <1>2, TokenMoves
<1>3. Leaving = TokensAt(at, {"exit", "exit all"}) /\ Leaving' = TokensAt(at', {"exit", "exit all"})
  BY DEF Leaving, TokensAt
<1>4. {"notify"} \subseteq WithAdminLock /\ {"exit", "exit all"} \subseteq WithAdminLock
  BY DEF WithAdminLock
<1>5. Joining' = TokensAt(at', {"join"}) /\ Creating' = TokensAt(at', {"created"})
      /\ Recording' = TokensAt(at', {"record"}) /\ Notified' = TokensAt(at', {"notify"})
  BY DEF Joining, Creating, Recording, Notified, TokensAt
<1>6. QED
  BY <1>2, <1>3, <1>4, <1>5 DEF Joining, Creating, Recording, Notified

\* Only the thread that moves takes or releases a lock.
LEMMA LocksMove ==
  ASSUME LocksHeld, NEW t \in Threads,
         \A u \in Threads : u # t =>
           /\ at'[u] = at[u]
           /\ adminLock' = u <=> adminLock = u
           /\ roomLock' = u <=> roomLock = u,
         at'[t].pc \in WithAdminLock <=> adminLock' = t,
         at'[t].pc = "created" <=> roomLock' = t
  PROVE  LocksHeld'
BY DEF LocksHeld

\* The tokens of the calls are tokens.
LEMMA CallsHaveTokens ==
  ASSUME ThreadInv
  PROVE  /\ Joining \cup Creating \cup Recording \cup Notified \cup Leaving \subseteq Tokens
         /\ members \cup roomIds \cup callbacks \subseteq Tokens
         /\ Tokens \subseteq 1 .. MaxJoins /\ Tokens \subseteq Nat
<1>1. \A t \in Threads : at[t].pc # "idle" => at[t].token \in Tokens
  BY DEF ThreadInv, TypeOK
<1>2. Joining \cup Creating \cup Recording \cup Notified \cup Leaving \subseteq Tokens
  BY <1>1 DEF Joining, Creating, Recording, Notified, Leaving, TokensAt
<1>3. 1 .. MaxJoins \subseteq Nat
  BY JoinsAssumption
<1>4. QED BY <1>2, <1>3 DEF ThreadInv, TypeOK

\* Who is alone with a lock.
LEMMA HolderIsAlone ==
  ASSUME ThreadInv
  PROVE  /\ roomLock = None => Creating = {}
         /\ adminLock = None => Leaving = {} /\ Notified = {}
         /\ \A t \in Threads : at[t].pc = "created" => Creating = {at[t].token}
         /\ \A t \in Threads : at[t].pc \in {"exit", "exit all"} => Leaving = {at[t].token}
         /\ \A t \in Threads : at[t].pc \in WithAdminLock \ {"exit", "exit all"} => Leaving = {}
<1>1. \A t \in Threads : /\ at[t].pc \in WithAdminLock => adminLock = t
                         /\ at[t].pc = "created" => roomLock = t
  BY DEF ThreadInv, LocksHeld
<1>2. None \notin Threads
  BY NoneAssumption
<1>3. {"exit", "exit all", "notify"} \subseteq WithAdminLock
  BY DEF WithAdminLock
<1>4. (roomLock = None => Creating = {})
      /\ \A t \in Threads : at[t].pc = "created" => Creating = {at[t].token}
  BY <1>1, <1>2 DEF Creating, TokensAt
<1>5. adminLock = None => Leaving = {} /\ Notified = {}
  BY <1>1, <1>2, <1>3 DEF Leaving, Notified, TokensAt
<1>6. \A t \in Threads : at[t].pc \in {"exit", "exit all"} => Leaving = {at[t].token}
  BY <1>1, <1>3 DEF Leaving
<1>7. \A t \in Threads : at[t].pc \in WithAdminLock \ {"exit", "exit all"} => Leaving = {}
  BY <1>1, <1>3 DEF Leaving
<1>8. QED BY <1>4, <1>5, <1>6, <1>7

\* A new token is new.
LEMMA NewToken ==
  ASSUME TokensInARow
  PROVE  /\ Cardinality(Tokens) \in Nat
         /\ Cardinality(Tokens) + 1 \notin Tokens
         /\ Tokens = 1 .. Cardinality(Tokens)
<1>1. PICK n \in 0 .. MaxJoins : Tokens = 1 .. n
  BY DEF TokensInARow
<1>2. n \in Nat
  BY JoinsAssumption
<1>3. Cardinality(1 .. n) = n
  BY <1>2, FS_Interval
<1>4. QED BY <1>1, <1>2, <1>3

\* There are neither rooms nor calls.
LEMMA InitInvariant == Init => IInv
<1> SUFFICES ASSUME Init PROVE IInv
  OBVIOUS
<1>1. Tokens = {} /\ 1 .. 0 = {}
  BY DEF Init, Tokens
<1>2. ThreadsOK
  BY DEF Init, ThreadsOK, Pcs, Idle
<1>3. LocksHeld /\ OneJoinEach
  BY NoneAssumption DEF Init, LocksHeld, OneJoinEach, WithAdminLock, Idle
<1>4. TokensInARow
  BY <1>1, JoinsAssumption DEF TokensInARow
<1>5. Joining = {} /\ Creating = {} /\ Recording = {} /\ Notified = {} /\ Leaving = {}
  BY DEF Init, Joining, Creating, Recording, Notified, Leaving, TokensAt, Idle
<1>6. TypeOK
  BY <1>1 DEF Init, TypeOK, Idle
<1>7. TokensOfCalls /\ NamesOfRooms /\ RoomsAttended /\ ToldSubscribersOnly
  BY <1>5 DEF Init, TokensOfCalls, NamesOfRooms, RoomsAttended, ToldSubscribersOnly
<1>8. UserOncePerRoom /\ NoGhosts
  BY DEF Init, UserOncePerRoom, NoGhosts
<1>9. QED BY <1>2, <1>3, <1>4, <1>6, <1>7, <1>8 DEF IInv, ThreadInv, RoomInv

-----------------------------------------------------------------------------
(* Join.                                                                   *)

\* A join gets a token of its own.
LEMMA JoinStartsInvariant ==
  ASSUME IInv, NEW t \in Threads, NEW c \in Channels, NEW r \in Rooms, NEW u \in Users,
         JoinStarts(t, c, r, u)
  PROVE  IInv'
<1> DEFINE k == Cardinality(Tokens) + 1
<1> USE DEF IInv
<1>1. /\ k \in Nat \ {0} /\ k <= MaxJoins /\ k \notin Tokens /\ Tokens = 1 .. k - 1
  BY NewToken DEF JoinStarts, ThreadInv
<1>2. /\ at[t] = Idle /\ at[t].pc = "idle" /\ Goes(t, "join", k)
      /\ info' = [j \in Tokens \cup {k} |->
                   IF j = k THEN [room |-> r, user |-> u, channel |-> c] ELSE info[j]]
      /\ UNCHANGED <<roomIds, roomNames, adminLock, rooms, members, callbacks, told,
                     roomLock, open, closed>>
  BY DEF JoinStarts, msgVars, roomVars, outside, Idle
<1> HIDE DEF k
<1>3. /\ ThreadsOK' /\ at'[t].pc = "join" /\ at'[t].token = k
      /\ \A v \in Threads : v # t => at'[v] = at[v]
  BY <1>1, <1>2, GoesOn DEF Pcs, WithAdminLock, ThreadInv
<1>4. /\ Joining' = Joining \cup {k}
      /\ UNCHANGED <<Creating, Recording, Notified, Leaving>>
  BY <1>2, <1>3, CallMoves
<1>5. /\ Tokens' = Tokens \cup {k} /\ Tokens' = 1 .. k
      /\ \A j \in Tokens : info'[j] = info[j]
      /\ info'[k] = [room |-> r, user |-> u, channel |-> c]
  BY <1>1, <1>2 DEF Tokens
<1>6. /\ Joining \cup Creating \cup Recording \cup Notified \cup Leaving \subseteq Tokens
      /\ members \cup roomIds \cup callbacks \subseteq Tokens
  BY CallsHaveTokens
<1>7. TypeOK'
  <2>1. Tokens' \subseteq 1 .. MaxJoins
    BY <1>1, <1>5, JoinsAssumption
  <2>2. \A j \in Tokens' : info'[j] \in [room : Rooms, user : Users, channel : Channels]
    BY <1>5 DEF TypeOK, ThreadInv
  <2>3. \A v \in Threads : at'[v].pc # "idle" => at'[v].token \in Tokens'
    BY <1>3, <1>5 DEF TypeOK, ThreadInv
  <2>4. QED BY <1>2, <1>4, <1>5, <2>1, <2>2, <2>3 DEF TypeOK, ThreadInv
<1>8. LocksHeld'
  <2>1. adminLock # t /\ roomLock # t
    BY <1>2 DEF LocksHeld, WithAdminLock, ThreadInv
  <2>2. at'[t].pc \notin WithAdminLock \cup {"created"}
    BY <1>3 DEF WithAdminLock
  <2>3. QED BY <1>2, <1>3, <2>1, <2>2, LocksMove DEF ThreadInv
<1>9. OneJoinEach'
  <2>1. \A v \in Threads : at[v].pc # "idle" => at[v].token # k
    BY <1>1 DEF ThreadInv, TypeOK
  <2>2. \A v \in Threads : v # t /\ at'[v].pc # "idle" => at'[v].token # k
    BY <1>3, <2>1
  <2>3. OneJoinEach
    BY DEF ThreadInv
  <2>4. SUFFICES ASSUME NEW v \in Threads, NEW w \in Threads,
                        at'[v].pc \in {"join", "created", "record"},
                        at'[w].pc \in {"join", "created", "record"},
                        at'[v].token = at'[w].token
                 PROVE  v = w
    BY DEF OneJoinEach
  <2>5. CASE v = t \/ w = t
    BY <1>3, <2>2, <2>4, <2>5
  <2>6. CASE v # t /\ w # t
    BY <1>3, <2>3, <2>4, <2>6 DEF OneJoinEach
  <2>7. QED BY <2>5, <2>6
<1>10. TokensInARow'
  <2>1. k \in 0 .. MaxJoins
    BY <1>1, JoinsAssumption
  <2>2. QED BY <1>5, <2>1 DEF TokensInARow
<1>11. TokensOfCalls'
  BY <1>1, <1>2, <1>4, <1>6 DEF TokensOfCalls, RoomInv
<1>12. NamesOfRooms' /\ RoomsAttended'
  <2>1. \A j \in Tokens : Room(j)' = Room(j)
    BY <1>5 DEF Room
  <2>2. {Room(j)' : j \in Creating} = {Room(j) : j \in Creating}
    BY <1>6, <2>1
  <2>3. NamesOfRooms'
    BY <1>2, <1>4, <1>6, <2>1, <2>2 DEF NamesOfRooms, RoomInv
  <2>4. RoomsAttended'
    BY <1>2, <1>4, <1>6, <2>1 DEF RoomsAttended, RoomInv
  <2>5. QED BY <2>3, <2>4
<1>13. UserOncePerRoom' /\ NoGhosts' /\ ToldSubscribersOnly'
  BY <1>2, <1>4, <1>5, <1>6
  DEF UserOncePerRoom, NoGhosts, ToldSubscribersOnly, RoomInv, Room, User
<1>14. QED
  BY <1>3, <1>7, <1>8, <1>9, <1>10, <1>11, <1>12, <1>13 DEF ThreadInv, RoomInv

\* A step of a call: info and the clients outside stay as they are.
LEMMA ThreadInvStep ==
  ASSUME ThreadInv, NEW t \in Threads, ThreadsOK', LocksHeld',
         \A u \in Threads : u # t => at'[u] = at[u],
         at'[t].pc # "idle" => at'[t].token \in Tokens,
         at'[t].pc \in {"join", "created", "record"} =>
           at[t].pc \in {"join", "created", "record"} /\ at'[t].token = at[t].token,
         UNCHANGED <<info, open>>, closed' \subseteq closed,
         roomIds' \subseteq Tokens, members' \subseteq Tokens,
         callbacks' \subseteq members' \cup Leaving',
         rooms' \subseteq Rooms, roomNames' \subseteq Rooms,
         {adminLock', roomLock'} \subseteq Threads \cup {None},
         told' \in [1 .. MaxJoins -> SUBSET Users]
  PROVE  ThreadInv'
<1>1. Tokens' = Tokens
  BY DEF Tokens
<1>2. \A u \in Threads : at'[u].pc # "idle" => at'[u].token \in Tokens
  BY DEF ThreadInv, TypeOK
<1>3. TypeOK'
  BY <1>1, <1>2 DEF ThreadInv, TypeOK
<1>4. OneJoinEach'
  BY DEF ThreadInv, OneJoinEach
<1>5. TokensInARow'
  BY <1>1 DEF ThreadInv, TokensInARow
<1>6. QED BY <1>3, <1>4, <1>5 DEF ThreadInv

\* Whom a member that came or left is announced to.
LEMMA ToldType ==
  ASSUME ThreadInv, NEW k \in Tokens
  PROVE  /\ TellJoined(Room(k), k) \in [1 .. MaxJoins -> SUBSET Users]
         /\ TellLeft(Room(k), k) \in [1 .. MaxJoins -> SUBSET Users]
         /\ \A j \in 1 .. MaxJoins :
              /\ TellJoined(Room(k), k)[j] =
                   IF j \in callbacks /\ j \in members /\ Room(j) = Room(k)
                     THEN told[j] \cup {User(k)} ELSE told[j]
              /\ TellLeft(Room(k), k)[j] =
                   IF j = k THEN {}
                   ELSE IF j \in callbacks /\ j \in members /\ Room(j) = Room(k)
                     THEN told[j] \ {User(k)} ELSE told[j]
<1>1. told \in [1 .. MaxJoins -> SUBSET Users] /\ User(k) \in Users
  BY DEF ThreadInv, TypeOK, User
<1>2. QED BY <1>1 DEF TellJoined, TellLeft, MembersOf

\* A member that enters a room it was not in is in it once, and whoever has a
\* callback there is told of it.
LEMMA Enters ==
  ASSUME IInv, NEW k \in Tokens, k \notin members \cup roomIds \cup Leaving,
         \A j \in members : Room(j) = Room(k) => User(j) # User(k),
         members' = members \cup {k}, told' = TellJoined(Room(k), k),
         UNCHANGED <<callbacks, info>>, Leaving' = Leaving
  PROVE  UserOncePerRoom' /\ NoGhosts' /\ ToldSubscribersOnly'
<1> USE DEF IInv, RoomInv
<1>1. \A j \in 1 .. MaxJoins :
        told'[j] = IF j \in callbacks /\ j \in members /\ Room(j) = Room(k)
                     THEN told[j] \cup {User(k)} ELSE told[j]
  BY ToldType
<1>2. callbacks \subseteq 1 .. MaxJoins
  BY CallsHaveTokens
<1>3. UserOncePerRoom'
  BY DEF UserOncePerRoom, Room, User
<1>4. NoGhosts'
  <2>1. /\ callbacks' = callbacks /\ members' \cup Leaving' = members \cup Leaving \cup {k}
        /\ \A j : Room(j)' = Room(j) /\ User(j)' = User(j)
    BY DEF Room, User
  <2>2. ASSUME NEW j \in callbacks, NEW u \in told'[j]
        PROVE  \E i \in members \cup Leaving \cup {k} : Room(i) = Room(j) /\ User(i) = u
    <3>1. CASE u \in told[j]
      BY <3>1 DEF NoGhosts
    <3>2. CASE u \notin told[j]
      BY <1>1, <1>2, <3>2
    <3>3. QED BY <3>1, <3>2
  <2>3. QED BY <2>1, <2>2 DEF NoGhosts
<1>5. ToldSubscribersOnly'
  BY <1>1 DEF ToldSubscribersOnly
<1>6. QED BY <1>3, <1>4, <1>5

\* A join of a room that exists adds a member who was none.
LEMMA JoinExistingInvariant ==
  ASSUME IInv, NEW t \in Threads, JoinExisting(t)
  PROVE  IInv'
<1> DEFINE k == at[t].token
<1> USE DEF IInv
<1>1. /\ at[t].pc = "join" /\ roomLock = None /\ Room(k) \in rooms
      /\ UNCHANGED <<roomIds, roomNames, adminLock, rooms, callbacks, roomLock, info, open, closed>>
  BY DEF JoinExisting, msgVars, outside
<1>2. k \in Tokens /\ k \in Nat /\ k \in Joining
  BY <1>1 DEF ThreadInv, TypeOK, ThreadsOK, Joining, TokensAt
<1>3. k \notin members \cup roomIds /\ k \notin Leaving /\ k \notin callbacks
  BY <1>2 DEF RoomInv, TokensOfCalls, ThreadInv, TypeOK
<1> HIDE DEF k
<1>4. Creating = {}
  BY <1>1, HolderIsAlone
<1>5. adminLock # t /\ roomLock # t
  BY <1>1 DEF LocksHeld, WithAdminLock, ThreadInv
<1>6. CASE Taken(k)
  <2>1. Done(t) /\ UNCHANGED <<members, told>>
    BY <1>6 DEF JoinExisting, k
  <2>2. /\ ThreadsOK' /\ at'[t].pc = "idle" /\ \A u \in Threads : u # t => at'[u] = at[u]
    BY <2>1, IsDone DEF ThreadInv
  <2>3. /\ Joining' \subseteq Joining
        /\ UNCHANGED <<Creating, Recording, Notified, Leaving>>
    BY <1>1, <2>2, CallMoves
  <2>4. LocksHeld'
    BY <1>1, <1>5, <2>2, LocksMove DEF ThreadInv, WithAdminLock
  <2>5. ThreadInv'
    BY <1>1, <2>1, <2>2, <2>3, <2>4, ThreadInvStep DEF ThreadInv, TypeOK
  <2>6. TokensOfCalls' /\ NamesOfRooms' /\ RoomsAttended'
    BY <1>1, <2>1, <2>3 DEF RoomInv, TokensOfCalls, NamesOfRooms, RoomsAttended, Room
  <2>7. UserOncePerRoom' /\ NoGhosts' /\ ToldSubscribersOnly'
    BY <1>1, <2>1, <2>3
    DEF RoomInv, UserOncePerRoom, NoGhosts, ToldSubscribersOnly, Room, User
  <2>8. QED BY <2>5, <2>6, <2>7 DEF RoomInv
<1>7. CASE ~Taken(k)
  <2>1. /\ Goes(t, "record", k) /\ members' = members \cup {k}
        /\ told' = TellJoined(Room(k), k)
    BY <1>7 DEF JoinExisting, k
  <2>2. /\ ThreadsOK' /\ at'[t].pc = "record" /\ at'[t].token = k
        /\ \A u \in Threads : u # t => at'[u] = at[u]
    BY <1>2, <2>1, GoesOn DEF ThreadInv, Pcs, WithAdminLock
  <2>3. /\ Joining' = Joining \ {k} /\ Recording' = Recording \cup {k}
        /\ UNCHANGED <<Creating, Notified, Leaving>>
    BY <1>1, <2>2, CallMoves DEF k
  <2>4. LocksHeld'
    BY <1>1, <1>5, <2>2, LocksMove DEF ThreadInv, WithAdminLock
  <2>5. ThreadInv'
    <3>1. told' \in [1 .. MaxJoins -> SUBSET Users]
      BY <1>2, <2>1, ToldType
    <3>2. at'[t].token = at[t].token
      BY <2>2 DEF k
    <3>3. QED
      BY <1>1, <1>2, <2>1, <2>2, <2>3, <2>4, <3>1, <3>2, ThreadInvStep DEF ThreadInv, TypeOK
  <2>6. TokensOfCalls'
    BY <1>1, <1>3, <1>4, <2>1, <2>3 DEF RoomInv, TokensOfCalls
  <2>7. NamesOfRooms' /\ RoomsAttended'
    BY <1>1, <1>4, <2>1, <2>3 DEF RoomInv, NamesOfRooms, RoomsAttended, Room
  <2>8. UserOncePerRoom' /\ NoGhosts' /\ ToldSubscribersOnly'
    BY <1>1, <1>2, <1>3, <1>7, <2>1, <2>3, Enters DEF Taken, MembersOf
  <2>9. QED BY <2>5, <2>6, <2>7, <2>8 DEF RoomInv
<1>8. QED BY <1>6, <1>7

\* A room that a join makes has neither name nor member, and the lock is kept.
LEMMA JoinCreatesInvariant ==
  ASSUME IInv, NEW t \in Threads, JoinCreates(t)
  PROVE  IInv'
<1> DEFINE k == at[t].token
<1> USE DEF IInv
<1>1. /\ at[t].pc = "join" /\ roomLock = None /\ Room(k) \notin rooms
      /\ rooms' = rooms \cup {Room(k)} /\ roomLock' = t /\ Goes(t, "created", k)
      /\ UNCHANGED <<roomIds, roomNames, adminLock, members, callbacks, told, info, open, closed>>
  BY DEF JoinCreates, msgVars, outside
<1>2. k \in Tokens /\ k \in Nat /\ k \in Joining
  BY <1>1 DEF ThreadInv, TypeOK, ThreadsOK, Joining, TokensAt
<1>3. k \notin members \cup roomIds
  BY <1>2 DEF RoomInv, TokensOfCalls
<1> HIDE DEF k
<1>4. Creating = {}
  BY <1>1, HolderIsAlone
<1>5. adminLock # t
  BY <1>1 DEF LocksHeld, WithAdminLock, ThreadInv
<1>6. /\ ThreadsOK' /\ at'[t].pc = "created" /\ at'[t].token = k
      /\ \A u \in Threads : u # t => at'[u] = at[u]
  BY <1>1, <1>2, GoesOn DEF ThreadInv, Pcs, WithAdminLock
<1>7. /\ Joining' = Joining \ {k} /\ Creating' = {k}
      /\ UNCHANGED <<Recording, Notified, Leaving>>
  <2>1. at[t].pc = "join" /\ at[t].token = k
    BY <1>1 DEF k
  <2>2. QED BY <1>4, <1>6, <2>1, CallMoves
<1>8. LocksHeld'
  <2>1. roomLock # t /\ t # None /\ \A u \in Threads : roomLock # u
    BY <1>1, NoneAssumption
  <2>2. QED BY <1>1, <1>5, <1>6, <2>1, LocksMove DEF ThreadInv, WithAdminLock
<1>9. \A j : Room(j)' = Room(j) /\ User(j)' = User(j)
  BY <1>1 DEF Room, User
<1>10. ThreadInv'
  <2>1. Room(k) \in Rooms
    BY <1>2 DEF ThreadInv, TypeOK, Room
  <2>2. at'[t].token = at[t].token
    BY <1>6 DEF k
  <2>3. QED
    BY <1>1, <1>2, <1>6, <1>7, <1>8, <2>1, <2>2, ThreadInvStep DEF ThreadInv, TypeOK
<1>11. TokensOfCalls'
  BY <1>1, <1>2, <1>3, <1>4, <1>7 DEF RoomInv, TokensOfCalls
<1>12. NamesOfRooms'
  BY <1>1, <1>4, <1>7, <1>9 DEF RoomInv, NamesOfRooms
<1>13. RoomsAttended'
  <2>1. \A j \in members : Room(j) # Room(k)
    BY <1>1 DEF RoomInv, RoomsAttended
  <2>2. QED BY <1>1, <1>4, <1>7, <1>9, <2>1 DEF RoomInv, RoomsAttended
<1>14. UserOncePerRoom' /\ NoGhosts' /\ ToldSubscribersOnly'
  BY <1>1, <1>7, <1>9 DEF RoomInv, UserOncePerRoom, NoGhosts, ToldSubscribersOnly
<1>15. QED BY <1>10, <1>11, <1>12, <1>13, <1>14 DEF RoomInv

\* The room that was made gets its name and its first member.
LEMMA CreatedInvariant ==
  ASSUME IInv, NEW t \in Threads, Created(t)
  PROVE  IInv'
<1> DEFINE k == at[t].token
<1> USE DEF IInv
<1>1. /\ at[t].pc = "created" /\ adminLock = None
      /\ roomNames' = roomNames \cup {Room(k)} /\ members' = members \cup {k}
      /\ told' = TellJoined(Room(k), k) /\ roomLock' = None /\ Goes(t, "record", k)
      /\ UNCHANGED <<roomIds, adminLock, rooms, callbacks, info, open, closed>>
  BY DEF Created, outside
<1>2. k \in Tokens /\ k \in Nat /\ Creating = {k}
  BY <1>1, HolderIsAlone DEF ThreadInv, TypeOK, ThreadsOK
<1>3. k \notin members \cup roomIds
  BY <1>2 DEF RoomInv, TokensOfCalls
<1> HIDE DEF k
<1>4. k \notin Leaving
  BY <1>1, HolderIsAlone
<1>5. /\ ThreadsOK' /\ at'[t].pc = "record" /\ at'[t].token = k
      /\ \A u \in Threads : u # t => at'[u] = at[u]
  BY <1>1, <1>2, GoesOn DEF ThreadInv, Pcs, WithAdminLock
<1>6. /\ Creating' = {} /\ Recording' = Recording \cup {k}
      /\ UNCHANGED <<Joining, Notified, Leaving>>
  BY <1>1, <1>2, <1>5, CallMoves DEF k
<1>7. LocksHeld'
  <2>1. roomLock = t /\ t # None /\ \A u \in Threads : adminLock # u
    BY <1>1, NoneAssumption DEF ThreadInv, LocksHeld
  <2>2. \A u \in Threads : u # t => roomLock # u /\ roomLock' # u
    BY <1>1, <2>1, NoneAssumption
  <2>3. at'[t].pc \notin WithAdminLock \cup {"created"}
    BY <1>5 DEF WithAdminLock
  <2>4. QED BY <1>1, <1>5, <2>1, <2>2, <2>3, LocksMove DEF ThreadInv
<1>8. \A j : Room(j)' = Room(j) /\ User(j)' = User(j)
  BY <1>1 DEF Room, User
<1>9. ThreadInv'
  <2>1. Room(k) \in Rooms /\ told' \in [1 .. MaxJoins -> SUBSET Users]
    BY <1>1, <1>2, ToldType DEF ThreadInv, TypeOK, Room
  <2>2. at'[t].token = at[t].token
    BY <1>5 DEF k
  <2>3. QED
    BY <1>1, <1>2, <1>5, <1>6, <1>7, <2>1, <2>2, ThreadInvStep DEF ThreadInv, TypeOK
<1>10. TokensOfCalls'
  <2>1. k \notin Joining
    <3>1. \A u \in Threads : at[u].pc = "join" => at[u].token # k
      BY <1>1 DEF ThreadInv, OneJoinEach, k
    <3>2. QED BY <3>1 DEF Joining, TokensAt
  <2>2. QED BY <1>1, <1>2, <1>3, <1>4, <1>6, <2>1 DEF RoomInv, TokensOfCalls
<1>11. NamesOfRooms'
  BY <1>1, <1>2, <1>6, <1>8 DEF RoomInv, NamesOfRooms
<1>12. RoomsAttended'
  <2>1. Room(k) \in rooms
    BY <1>2 DEF RoomInv, NamesOfRooms
  <2>2. QED BY <1>1, <1>2, <1>6, <1>8, <2>1 DEF RoomInv, RoomsAttended
<1>13. UserOncePerRoom' /\ NoGhosts' /\ ToldSubscribersOnly'
  <2>1. \A j \in members : Room(j) # Room(k)
    BY <1>2 DEF RoomInv, RoomsAttended
  <2>2. QED BY <1>1, <1>2, <1>3, <1>4, <1>6, <2>1, Enters
<1>14. QED BY <1>9, <1>10, <1>11, <1>12, <1>13 DEF RoomInv

\* The token is noted: the member can be made to leave.
LEMMA JoinRecordsInvariant ==
  ASSUME IInv, NEW t \in Threads, JoinRecords(t)
  PROVE  IInv'
<1> DEFINE k == at[t].token
<1> USE DEF IInv
<1>1. /\ at[t].pc = "record" /\ adminLock = None /\ roomIds' = roomIds \cup {k} /\ Done(t)
      /\ UNCHANGED <<roomNames, adminLock, rooms, members, callbacks, told, roomLock,
                     info, open, closed>>
  BY DEF JoinRecords, roomVars, outside
<1>2. k \in Tokens /\ k \in Recording
  BY <1>1 DEF ThreadInv, TypeOK, Recording, TokensAt
<1>3. k \in members
  BY <1>2 DEF RoomInv, TokensOfCalls
<1> HIDE DEF k
<1>4. Leaving = {}
  BY <1>1, HolderIsAlone
<1>5. /\ ThreadsOK' /\ at'[t].pc = "idle" /\ \A u \in Threads : u # t => at'[u] = at[u]
  BY <1>1, IsDone DEF ThreadInv
<1>6. /\ Recording' = Recording \ {k}
      /\ UNCHANGED <<Joining, Creating, Notified, Leaving>>
  BY <1>1, <1>5, CallMoves DEF k
<1>7. LocksHeld'
  <2>1. adminLock # t /\ roomLock # t
    BY <1>1 DEF LocksHeld, WithAdminLock, ThreadInv
  <2>2. QED BY <1>1, <1>5, <2>1, LocksMove DEF ThreadInv, WithAdminLock
<1>8. \A j : Room(j)' = Room(j) /\ User(j)' = User(j)
  BY <1>1 DEF Room, User
<1>9. ThreadInv'
  BY <1>1, <1>2, <1>5, <1>6, <1>7, ThreadInvStep DEF ThreadInv, TypeOK
<1>10. TokensOfCalls'
  BY <1>1, <1>3, <1>4, <1>6 DEF RoomInv, TokensOfCalls
<1>11. NamesOfRooms' /\ RoomsAttended'
  BY <1>1, <1>6, <1>8 DEF RoomInv, NamesOfRooms, RoomsAttended
<1>12. UserOncePerRoom' /\ NoGhosts' /\ ToldSubscribersOnly'
  BY <1>1, <1>6, <1>8 DEF RoomInv, UserOncePerRoom, NoGhosts, ToldSubscribersOnly
<1>13. QED BY <1>9, <1>10, <1>11, <1>12 DEF RoomInv

-----------------------------------------------------------------------------
(* Leave and Closed: Exit() and what comes before it.                      *)

\* Releasing a member that has its token: it is on its way out.
LEMMA ReleaseInvariant ==
  ASSUME IInv, NEW t \in Threads, NEW k \in Tokens, k \in roomIds,
         NEW there \in {"exit", "exit all"}, Goes(t, there, k),
         \/ at[t].pc = "idle" /\ adminLock = None
         \/ at[t].pc = "next",
         adminLock' = t, members' = members \ {k},
         UNCHANGED <<roomIds, roomNames, rooms, callbacks, told, roomLock, info, open>>,
         closed' \subseteq closed
  PROVE  IInv'
<1> USE DEF IInv
<1>1. k \in Nat
  BY CallsHaveTokens
<1>2. at[t].pc \notin {"join", "created", "record", "notify", "exit", "exit all"}
  OBVIOUS
<1>3. adminLock \in {None, t} /\ roomLock # t
  BY DEF ThreadInv, LocksHeld, WithAdminLock
<1>4. Leaving = {}
  BY HolderIsAlone DEF WithAdminLock
<1>5. /\ ThreadsOK' /\ at'[t].pc = there /\ at'[t].token = k
      /\ \A u \in Threads : u # t => at'[u] = at[u]
  BY <1>1, GoesOn DEF ThreadInv, Pcs, WithAdminLock
<1>6. Leaving' = {k} /\ UNCHANGED <<Joining, Creating, Recording, Notified>>
  BY <1>2, <1>4, <1>5, CallMoves
<1>7. LocksHeld'
  <2>1. at'[t].pc \in WithAdminLock /\ at'[t].pc # "created"
    BY <1>5 DEF WithAdminLock
  <2>2. \A u \in Threads : u # t => adminLock # u
    BY <1>3, NoneAssumption
  <2>3. QED BY <1>3, <1>5, <2>1, <2>2, LocksMove DEF ThreadInv
<1>8. \A j : Room(j)' = Room(j) /\ User(j)' = User(j)
  BY DEF Room, User
<1>9. members \cup Leaving \subseteq members' \cup Leaving'
  BY <1>4, <1>6
<1>10. ThreadInv'
  <2>1. callbacks' \subseteq members' \cup Leaving'
    BY <1>9 DEF ThreadInv, TypeOK
  <2>2. members' \subseteq Tokens /\ {adminLock', roomLock'} \subseteq Threads \cup {None}
    BY DEF ThreadInv, TypeOK
  <2>3. /\ roomIds \subseteq Tokens /\ rooms \subseteq Rooms /\ roomNames \subseteq Rooms
        /\ told \in [1 .. MaxJoins -> SUBSET Users]
    BY DEF ThreadInv, TypeOK
  <2>4. QED BY <1>5, <1>7, <2>1, <2>2, <2>3, ThreadInvStep
<1>11. TokensOfCalls'
  <2>1. k \notin Recording /\ k \notin Joining \cup Creating
    BY DEF RoomInv, TokensOfCalls
  <2>2. QED BY <1>4, <1>6, <2>1 DEF RoomInv, TokensOfCalls
<1>12. NamesOfRooms'
  BY <1>6, <1>8 DEF RoomInv, NamesOfRooms
<1>13. RoomsAttended'
  BY <1>6, <1>8, <1>9 DEF RoomInv, RoomsAttended
<1>14. UserOncePerRoom' /\ NoGhosts' /\ ToldSubscribersOnly'
  <2>1. UserOncePerRoom' /\ ToldSubscribersOnly'
    BY <1>8 DEF RoomInv, UserOncePerRoom, ToldSubscribersOnly
  <2>2. NoGhosts'
    BY <1>8, <1>9 DEF RoomInv, NoGhosts
  <2>3. QED BY <2>1, <2>2
<1>15. QED BY <1>10, <1>11, <1>12, <1>13, <1>14 DEF RoomInv

\* Exit() for the member that is leaving, and its token goes.  The token is
\* that of the only call that is in there; nobody else has been told of it who
\* is still told of its user, since a user is in a room once.
LEMMA ExitInvariant ==
  ASSUME IInv, NEW t \in Threads, at[t].pc \in {"exit", "exit all"},
         Exit(t, at[t].token), roomIds' = TokenErased(at[t].token), closed' = closed,
         ThreadsOK', LocksHeld', at'[t].pc \in {"idle", "next"},
         at'[t].pc # "idle" => at'[t].token = at[t].token,
         \A u \in Threads : u # t => at'[u] = at[u],
         adminLock' \in Threads \cup {None}
  PROVE  IInv'
<1> DEFINE k == at[t].token
<1> USE DEF IInv
<1>1. /\ roomLock = None /\ told' = TellLeft(Room(k), k) /\ callbacks' = callbacks \ {k}
      /\ rooms' = (IF LastOne(k) THEN rooms \ {Room(k)} ELSE rooms)
      /\ roomNames' = (IF LastOne(k) THEN roomNames \ {Room(k)} ELSE roomNames)
      /\ roomIds' = roomIds \ {k}
      /\ UNCHANGED <<members, roomLock, info, open, closed>>
  BY DEF Exit, CallbacksAfter, RoomNamesAfter, TokenErased, outside
<1>2. k \in Tokens /\ Leaving = {k} /\ Creating = {}
  BY <1>1, HolderIsAlone DEF ThreadInv, TypeOK
<1>3. k \in roomIds /\ k \notin members
  BY <1>2 DEF RoomInv, TokensOfCalls
<1> HIDE DEF k
<1>4. Leaving' = {} /\ UNCHANGED <<Joining, Creating, Recording, Notified>>
  <2>1. at[t].token = k /\ at[t].pc \notin {"join", "created", "record", "notify"}
        /\ at'[t].pc \notin {"join", "created", "record", "notify", "exit", "exit all"}
    BY DEF k
  <2>2. UNCHANGED <<Joining, Creating, Recording, Notified>>
    BY <2>1, CallMoves
  <2>3. Leaving' = Leaving \ {k}
    BY <2>1, CallMoves
  <2>4. QED BY <1>2, <2>2, <2>3
<1>5. \A j : Room(j)' = Room(j) /\ User(j)' = User(j)
  BY <1>1 DEF Room, User
<1>6. \A j \in 1 .. MaxJoins :
        told'[j] = IF j = k THEN {}
                   ELSE IF j \in callbacks /\ j \in members /\ Room(j) = Room(k)
                     THEN told[j] \ {User(k)} ELSE told[j]
  BY <1>1, <1>2, ToldType
<1>7. ThreadInv'
  <2>1. callbacks' \subseteq members' \cup Leaving'
    BY <1>1, <1>2 DEF ThreadInv, TypeOK
  <2>2. /\ told' \in [1 .. MaxJoins -> SUBSET Users]
        /\ {adminLock', roomLock'} \subseteq Threads \cup {None}
    BY <1>1, <1>2, ToldType DEF ThreadInv, TypeOK
  <2>3. roomIds' \subseteq Tokens /\ members' \subseteq Tokens
        /\ rooms' \subseteq Rooms /\ roomNames' \subseteq Rooms
    BY <1>1 DEF ThreadInv, TypeOK
  <2>4. at'[t].pc # "idle" => at'[t].token \in Tokens
    BY <1>2 DEF k
  <2>5. QED BY <1>1, <2>1, <2>2, <2>3, <2>4, ThreadInvStep
<1>8. TokensOfCalls'
  <2>1. k \notin Notified
    <3>1. \A u \in Threads : at[u].pc = "notify" => u = t
      BY DEF ThreadInv, LocksHeld, WithAdminLock
    <3>2. QED BY <3>1 DEF Notified, TokensAt
  <2>2. QED BY <1>1, <1>2, <1>3, <1>4, <2>1 DEF RoomInv, TokensOfCalls
<1>9. NamesOfRooms'
  BY <1>1, <1>2, <1>4 DEF RoomInv, NamesOfRooms
<1>10. RoomsAttended'
  <2>1. \A j \in members : LastOne(k) => Room(j) # Room(k)
    BY DEF LastOne, MembersOf
  <2>2. ~LastOne(k) => \E j \in members : Room(j) = Room(k)
    BY DEF LastOne, MembersOf
  <2>3. \A r \in rooms : \E j \in members \cup {k} : Room(j) = r
    BY <1>2 DEF RoomInv, RoomsAttended
  <2>4. \A r \in rooms' : \E j \in members : Room(j) = r
    BY <1>1, <2>2, <2>3
  <2>5. \A j \in members : Room(j) \in rooms'
    BY <1>1, <2>1 DEF RoomInv, RoomsAttended
  <2>6. QED BY <1>1, <1>2, <1>4, <1>5, <2>4, <2>5 DEF RoomsAttended
<1>11. UserOncePerRoom' /\ ToldSubscribersOnly'
  BY <1>1, <1>5, <1>6 DEF RoomInv, UserOncePerRoom, ToldSubscribersOnly
<1>12. NoGhosts'
  <2>1. ASSUME NEW j \in callbacks', NEW u \in told'[j]
        PROVE  \E i \in members : Room(i) = Room(j) /\ User(i) = u
    <3>1. j \in callbacks /\ j # k /\ j \in members /\ j \in 1 .. MaxJoins
      BY <1>1, <1>2, CallsHaveTokens DEF ThreadInv, TypeOK
    <3>2. u \in told[j] /\ (Room(j) = Room(k) => u # User(k))
      BY <1>6, <3>1
    <3>3. PICK i \in members \cup {k} : Room(i) = Room(j) /\ User(i) = u
      BY <1>2, <3>1, <3>2 DEF RoomInv, NoGhosts
    <3>4. i # k
      BY <3>2, <3>3
    <3>5. QED BY <3>3, <3>4
  <2>2. members' = members
    BY <1>1
  <2>3. QED BY <1>4, <1>5, <2>1, <2>2 DEF NoGhosts
<1>13. QED BY <1>7, <1>8, <1>9, <1>10, <1>11, <1>12 DEF RoomInv

\* A step of a thread that changes nothing but where it is and the plugin's
\* lock.
LEMMA OnlyTheLockMoves ==
  ASSUME IInv, NEW t \in Threads, ThreadsOK', LocksHeld',
         \A u \in Threads : u # t => at'[u] = at[u],
         at[t].pc \in {"idle", "next", "send"}, at'[t].pc \in {"idle", "send"},
         at'[t].pc # "idle" => at'[t].token \in Tokens,
         adminLock' \in Threads \cup {None},
         UNCHANGED <<roomIds, roomNames, rooms, members, callbacks, told, roomLock, info, open>>,
         closed' \subseteq closed
  PROVE  IInv'
<1> USE DEF IInv
<1>1. UNCHANGED <<Joining, Creating, Recording, Notified, Leaving>>
  BY CallMoves
<1>2. ThreadInv'
  BY <1>1, ThreadInvStep DEF ThreadInv, TypeOK
<1>3. \A j : Room(j)' = Room(j) /\ User(j)' = User(j)
  BY DEF Room, User
<1>4. TokensOfCalls' /\ NamesOfRooms' /\ RoomsAttended'
  BY <1>1, <1>3 DEF RoomInv, TokensOfCalls, NamesOfRooms, RoomsAttended
<1>5. UserOncePerRoom' /\ NoGhosts' /\ ToldSubscribersOnly'
  BY <1>1, <1>3 DEF RoomInv, UserOncePerRoom, NoGhosts, ToldSubscribersOnly
<1>6. QED BY <1>2, <1>4, <1>5 DEF RoomInv

\* Who leaves is out of the room first, with the lock of the plugin in hand.
LEMMA LeaveStartsInvariant ==
  ASSUME IInv, NEW t \in Threads, NEW k \in Tokens, LeaveStarts(t, k)
  PROVE  IInv'
<1>1. /\ at[t].pc = "idle" /\ adminLock = None /\ k \in roomIds /\ Goes(t, "exit", k)
      /\ adminLock' = t /\ members' = members \ {k} /\ closed' = closed
      /\ UNCHANGED <<roomIds, roomNames, rooms, callbacks, told, roomLock, info, open>>
  BY DEF LeaveStarts, msgVars, outside, Idle
<1>2. QED BY <1>1, ReleaseInvariant

\* Who leaves takes an empty room along, and the token after it.
LEMMA ExitsInvariant ==
  ASSUME IInv, NEW t \in Threads, LeaveExits(t) \/ ClosedExits(t)
  PROVE  IInv'
<1> USE DEF IInv
<1>1. /\ at[t].pc \in {"exit", "exit all"} /\ Exit(t, at[t].token)
      /\ roomIds' = TokenErased(at[t].token)
  BY DEF LeaveExits, ClosedExits
<1>2. closed' = closed /\ roomLock' = roomLock
  BY <1>1 DEF Exit, outside
<1>3. at[t].token \in Nat
  BY DEF ThreadInv, ThreadsOK
<1>4. adminLock = t /\ roomLock # t /\ t # None
  BY <1>1, NoneAssumption DEF ThreadInv, LocksHeld, WithAdminLock
<1>5. /\ ThreadsOK' /\ \A u \in Threads : u # t => at'[u] = at[u]
      /\ \/ at'[t].pc = "idle" /\ adminLock' = None
         \/ at'[t].pc = "next" /\ at'[t].token = at[t].token /\ adminLock' = t
  <2>1. CASE LeaveExits(t)
    <3>1. Done(t) /\ adminLock' = None
      BY <2>1 DEF LeaveExits
    <3>2. QED BY <3>1, IsDone DEF ThreadInv
  <2>2. CASE ClosedExits(t)
    <3>1. Goes(t, "next", at[t].token) /\ adminLock' = adminLock
      BY <2>2 DEF ClosedExits
    <3>2. QED BY <1>3, <1>4, <3>1, GoesOn DEF ThreadInv, Pcs, WithAdminLock
  <2>3. QED BY <2>1, <2>2
<1>6. \A u \in Threads : u # t => adminLock # u /\ adminLock' # u
  BY <1>4, <1>5, NoneAssumption
<1>7. LocksHeld'
  <2>1. at'[t].pc \in WithAdminLock <=> adminLock' = t
    BY <1>4, <1>5 DEF WithAdminLock
  <2>2. at'[t].pc # "created"
    BY <1>5
  <2>3. QED BY <1>2, <1>4, <1>5, <1>6, <2>1, <2>2, LocksMove DEF ThreadInv
<1>8. at'[t].pc \in {"idle", "next"} /\ (at'[t].pc # "idle" => at'[t].token = at[t].token)
      /\ adminLock' \in Threads \cup {None}
  BY <1>5
<1>9. QED BY <1>1, <1>2, <1>5, <1>7, <1>8, ExitInvariant

\* Closed() goes for the next token of its channel, or is done.
LEMMA ClosedNextInvariant ==
  ASSUME IInv, NEW t \in Threads, NEW c, ClosedNext(t, c), closed' \subseteq closed,
         \/ at[t].pc = "idle" /\ adminLock = None
         \/ at[t].pc = "next"
  PROVE  IInv'
<1> USE DEF IInv
<1>1. UNCHANGED <<roomIds, roomNames, rooms, callbacks, told, roomLock, info, open>>
  BY DEF ClosedNext, msgVars
<1>2. roomIds \subseteq Tokens
  BY DEF ThreadInv, TypeOK
<1>3. CASE adminLock' = None /\ Done(t) /\ UNCHANGED members
  <2>1. /\ ThreadsOK' /\ at'[t].pc = "idle" /\ \A u \in Threads : u # t => at'[u] = at[u]
    BY <1>3, IsDone DEF ThreadInv
  <2>2. roomLock # t /\ adminLock \in {None, t} /\ t # None
    BY NoneAssumption DEF ThreadInv, LocksHeld, WithAdminLock
  <2>3. \A u \in Threads : u # t => adminLock # u /\ adminLock' # u
    BY <1>3, <2>2, NoneAssumption
  <2>4. LocksHeld'
    <3>1. at'[t].pc \notin WithAdminLock \cup {"created"} /\ adminLock' # t
      BY <1>3, <2>1, <2>2 DEF WithAdminLock
    <3>2. QED BY <1>1, <2>1, <2>2, <2>3, <3>1, LocksMove DEF ThreadInv
  <2>5. QED BY <1>1, <1>3, <2>1, <2>4, OnlyTheLockMoves
<1>4. CASE \E k \in roomIds : /\ adminLock' = t /\ members' = members \ {k}
                              /\ Goes(t, "exit all", k)
  BY <1>1, <1>2, <1>4, ReleaseInvariant
<1>5. QED BY <1>3, <1>4 DEF ClosedNext

\* A channel that closes has its tokens leave one after the other.
LEMMA ClosedInvariant ==
  ASSUME IInv, NEW t \in Threads,
         ClosedGoesOn(t) \/ \E c \in Channels : ClosedStarts(t, c)
  PROVE  IInv'
<1>1. CASE ClosedGoesOn(t)
  <2>1. /\ at[t].pc = "next" /\ ClosedNext(t, info[at[t].token].channel)
        /\ closed' = closed
    BY <1>1 DEF ClosedGoesOn
  <2>2. QED BY <2>1, ClosedNextInvariant
<1>2. ASSUME NEW c \in Channels, ClosedStarts(t, c) PROVE IInv'
  <2>1. /\ at[t].pc = "idle" /\ adminLock = None /\ ClosedNext(t, c)
        /\ closed' \subseteq closed
    BY <1>2 DEF ClosedStarts, Idle
  <2>2. QED BY <2>1, ClosedNextInvariant
<1>3. QED BY <1>1, <1>2

\* A channel that closes touches no room by that.
LEMMA ChannelClosesInvariant ==
  ASSUME IInv, NEW c \in Channels, ChannelCloses(c)
  PROVE  IInv'
<1> USE DEF IInv
<1>1. /\ UNCHANGED <<roomIds, roomNames, adminLock, rooms, members, callbacks, told,
                     roomLock, at, info>>
      /\ open' \cup closed' \subseteq open \cup closed
  BY DEF ChannelCloses, msgVars, roomVars
<1>2. UNCHANGED <<Tokens, Joining, Creating, Recording, Notified, Leaving>>
  BY <1>1 DEF Tokens, Joining, Creating, Recording, Notified, Leaving, TokensAt
<1>3. \A j : Room(j)' = Room(j) /\ User(j)' = User(j)
  BY <1>1 DEF Room, User
<1>4. ThreadInv'
  BY <1>1, <1>2 DEF ThreadInv, TypeOK, ThreadsOK, LocksHeld, OneJoinEach, TokensInARow
<1>5. TokensOfCalls' /\ NamesOfRooms' /\ RoomsAttended'
  BY <1>1, <1>2, <1>3 DEF RoomInv, TokensOfCalls, NamesOfRooms, RoomsAttended
<1>6. UserOncePerRoom' /\ NoGhosts' /\ ToldSubscribersOnly'
  BY <1>1, <1>2, <1>3 DEF RoomInv, UserOncePerRoom, NoGhosts, ToldSubscribersOnly
<1>7. QED BY <1>4, <1>5, <1>6 DEF RoomInv

-----------------------------------------------------------------------------
(* Send and the subscriptions.                                             *)

\* A message changes neither rooms nor members.
LEMMA SendInvariant ==
  ASSUME IInv, NEW t \in Threads,
         Sends(t) \/ \E k \in Tokens : SendStarts(t, k)
  PROVE  IInv'
<1> USE DEF IInv
<1>1. CASE Sends(t)
  <2>1. /\ at[t].pc = "send" /\ adminLock' = None /\ Done(t)
        /\ UNCHANGED <<roomIds, roomNames, rooms, members, callbacks, told, roomLock,
                       info, open, closed>>
    BY <1>1 DEF Sends, msgVars, roomVars, outside
  <2>2. /\ ThreadsOK' /\ at'[t].pc = "idle" /\ \A u \in Threads : u # t => at'[u] = at[u]
    BY <2>1, IsDone DEF ThreadInv
  <2>3. roomLock # t /\ adminLock = t /\ t # None
    BY <2>1, NoneAssumption DEF ThreadInv, LocksHeld, WithAdminLock
  <2>4. \A u \in Threads : u # t => adminLock # u /\ adminLock' # u
    BY <2>1, <2>3, NoneAssumption
  <2>5. LocksHeld'
    <3>1. at'[t].pc \notin WithAdminLock \cup {"created"} /\ adminLock' # t
      BY <2>1, <2>2, <2>3 DEF WithAdminLock
    <3>2. QED BY <2>1, <2>2, <2>3, <2>4, <3>1, LocksMove DEF ThreadInv
  <2>6. QED BY <2>1, <2>2, <2>5, OnlyTheLockMoves
<1>2. ASSUME NEW k \in Tokens, SendStarts(t, k) PROVE IInv'
  <2>1. /\ at[t].pc = "idle" /\ adminLock = None /\ adminLock' = t /\ Goes(t, "send", k)
        /\ UNCHANGED <<roomIds, roomNames, rooms, members, callbacks, told, roomLock,
                       info, open, closed>>
    BY <1>2 DEF SendStarts, msgVars, roomVars, outside, Idle
  <2>2. k \in Nat
    BY JoinsAssumption, CallsHaveTokens
  <2>3. /\ ThreadsOK' /\ at'[t].pc = "send" /\ at'[t].token = k
        /\ \A u \in Threads : u # t => at'[u] = at[u]
    BY <2>1, <2>2, GoesOn DEF ThreadInv, Pcs, WithAdminLock
  <2>4. roomLock # t
    BY <2>1 DEF ThreadInv, LocksHeld
  <2>5. \A u \in Threads : u # t => adminLock # u /\ adminLock' # u
    BY <2>1, NoneAssumption
  <2>6. LocksHeld'
    <3>1. at'[t].pc \in WithAdminLock /\ at'[t].pc # "created"
      BY <2>3 DEF WithAdminLock
    <3>2. QED BY <2>1, <2>3, <2>4, <2>5, <3>1, LocksMove DEF ThreadInv
  <2>7. QED BY <2>1, <2>3, <2>6, OnlyTheLockMoves
<1>3. QED BY <1>1, <1>2

\* Who subscribes keeps the lock of the plugin until told who is there.
LEMMA SubscribeInvariant ==
  ASSUME IInv, NEW t \in Threads, NEW k \in Tokens, Subscribe(t, k)
  PROVE  IInv'
<1> USE DEF IInv
<1>1. /\ at[t].pc = "idle" /\ adminLock = None /\ k \in roomIds /\ adminLock' = t
      /\ callbacks' = callbacks \cup {k} /\ Goes(t, "notify", k)
      /\ UNCHANGED <<roomIds, roomNames, rooms, members, told, roomLock, info, open, closed>>
  BY DEF Subscribe, msgVars, outside, Idle
<1>2. Leaving = {} /\ Notified = {}
  BY <1>1, HolderIsAlone
<1>3. k \in members
  BY <1>1, <1>2 DEF RoomInv, TokensOfCalls
<1>4. k \in 1 .. MaxJoins /\ k \in Nat
  BY JoinsAssumption, CallsHaveTokens
<1>5. /\ ThreadsOK' /\ at'[t].pc = "notify" /\ at'[t].token = k
      /\ \A u \in Threads : u # t => at'[u] = at[u]
  BY <1>1, <1>4, GoesOn DEF ThreadInv, Pcs, WithAdminLock
<1>6. Notified' = {k} /\ UNCHANGED <<Joining, Creating, Recording, Leaving>>
  BY <1>1, <1>2, <1>5, CallMoves
<1>7. LocksHeld'
  <2>1. roomLock # t
    BY <1>1 DEF ThreadInv, LocksHeld
  <2>2. \A u \in Threads : u # t => adminLock # u /\ adminLock' # u
    BY <1>1, NoneAssumption
  <2>3. at'[t].pc \in WithAdminLock /\ at'[t].pc # "created"
    BY <1>5 DEF WithAdminLock
  <2>4. QED BY <1>1, <1>5, <2>1, <2>2, <2>3, LocksMove DEF ThreadInv
<1>8. \A j : Room(j)' = Room(j) /\ User(j)' = User(j)
  BY <1>1 DEF Room, User
<1>9. ThreadInv'
  <2>1. callbacks' \subseteq members' \cup Leaving'
    BY <1>1, <1>3, <1>6 DEF ThreadInv, TypeOK
  <2>2. QED BY <1>1, <1>5, <1>7, <2>1, ThreadInvStep DEF ThreadInv, TypeOK
<1>10. TokensOfCalls' /\ NamesOfRooms' /\ RoomsAttended'
  BY <1>1, <1>6, <1>8 DEF RoomInv, TokensOfCalls, NamesOfRooms, RoomsAttended
<1>11. UserOncePerRoom' /\ ToldSubscribersOnly'
  BY <1>1, <1>8 DEF RoomInv, UserOncePerRoom, ToldSubscribersOnly
<1>12. NoGhosts'
  <2>1. k \notin callbacks => told[k] = {}
    BY <1>4 DEF RoomInv, ToldSubscribersOnly
  <2>2. QED BY <1>1, <1>6, <1>8, <2>1 DEF RoomInv, NoGhosts
<1>13. QED BY <1>9, <1>10, <1>11, <1>12 DEF RoomInv

\* Who has subscribed is told of those who are present.
LEMMA NotifyInvariant ==
  ASSUME IInv, NEW t \in Threads, Notify(t)
  PROVE  IInv'
<1> DEFINE k == at[t].token
<1> USE DEF IInv
<1>1. /\ at[t].pc = "notify" /\ told' = [told EXCEPT ![k] = @ \cup Present(k)]
      /\ adminLock' = None /\ Done(t)
      /\ UNCHANGED <<roomIds, roomNames, rooms, members, callbacks, roomLock, info, open, closed>>
  BY DEF Notify, msgVars, outside
<1>2. k \in Tokens /\ k \in Notified
  BY <1>1 DEF ThreadInv, TypeOK, Notified, TokensAt
<1>3. k \in callbacks /\ Present(k) \subseteq Users
  <2>1. \A j \in members : User(j) \in Users
    BY DEF ThreadInv, TypeOK, User
  <2>2. QED BY <1>2, <2>1 DEF RoomInv, TokensOfCalls, Present, MembersOf
<1> HIDE DEF k
<1>4. adminLock = t /\ roomLock # t /\ t # None
  BY <1>1, NoneAssumption DEF ThreadInv, LocksHeld, WithAdminLock
<1>5. /\ ThreadsOK' /\ at'[t].pc = "idle" /\ \A u \in Threads : u # t => at'[u] = at[u]
  BY <1>1, IsDone DEF ThreadInv
<1>6. Notified' \subseteq Notified /\ UNCHANGED <<Joining, Creating, Recording, Leaving>>
  BY <1>1, <1>5, CallMoves
<1>7. LocksHeld'
  <2>1. \A u \in Threads : u # t => adminLock # u /\ adminLock' # u
    BY <1>1, <1>4, NoneAssumption
  <2>2. at'[t].pc \notin WithAdminLock \cup {"created"} /\ adminLock' # t
    BY <1>1, <1>4, <1>5 DEF WithAdminLock
  <2>3. QED BY <1>1, <1>4, <1>5, <2>1, <2>2, LocksMove DEF ThreadInv
<1>8. \A j : Room(j)' = Room(j) /\ User(j)' = User(j)
  BY <1>1 DEF Room, User
<1>9. /\ told' \in [1 .. MaxJoins -> SUBSET Users]
      /\ \A j \in 1 .. MaxJoins :
           told'[j] = IF j = k THEN told[k] \cup Present(k) ELSE told[j]
  BY <1>1, <1>2, <1>3, CallsHaveTokens DEF ThreadInv, TypeOK
<1>10. ThreadInv'
  <2>1. callbacks' \subseteq members' \cup Leaving'
    BY <1>1, <1>6 DEF ThreadInv, TypeOK
  <2>2. QED BY <1>1, <1>5, <1>7, <1>9, <2>1, ThreadInvStep DEF ThreadInv, TypeOK
<1>11. TokensOfCalls' /\ NamesOfRooms' /\ RoomsAttended'
  BY <1>1, <1>6, <1>8 DEF RoomInv, TokensOfCalls, NamesOfRooms, RoomsAttended
<1>12. UserOncePerRoom' /\ ToldSubscribersOnly'
  BY <1>1, <1>3, <1>8, <1>9 DEF RoomInv, UserOncePerRoom, ToldSubscribersOnly
<1>13. NoGhosts'
  <2>1. ASSUME NEW j \in callbacks, NEW u \in told'[j]
        PROVE  \E i \in members \cup Leaving : Room(i) = Room(j) /\ User(i) = u
    <3>1. j \in 1 .. MaxJoins
      BY CallsHaveTokens
    <3>2. CASE u \in told[j]
      BY <3>2 DEF RoomInv, NoGhosts
    <3>3. CASE u \notin told[j]
      <4>1. j = k /\ u \in Present(k)
        BY <1>9, <3>1, <3>3
      <4>2. QED BY <4>1 DEF Present, MembersOf
    <3>4. QED BY <3>2, <3>3
  <2>2. members' = members /\ callbacks' = callbacks
    BY <1>1
  <2>3. QED BY <1>6, <1>8, <2>1, <2>2 DEF NoGhosts
<1>14. QED BY <1>10, <1>11, <1>12, <1>13 DEF RoomInv

\* Who has unsubscribed is told nothing more.
LEMMA UnsubscribeInvariant ==
  ASSUME IInv, NEW t \in Threads, NEW k \in Tokens, Unsubscribe(t, k)
  PROVE  IInv'
<1> USE DEF IInv
<1>1. /\ adminLock = None /\ callbacks' = callbacks \ {k} /\ told' = [told EXCEPT ![k] = {}]
      /\ UNCHANGED <<roomIds, roomNames, adminLock, rooms, members, roomLock, at, info,
                     open, closed>>
  BY DEF Unsubscribe, msgVars, outside
<1>2. Leaving = {} /\ Notified = {}
  BY <1>1, HolderIsAlone
<1>3. UNCHANGED <<Tokens, Joining, Creating, Recording, Notified, Leaving>>
  BY <1>1 DEF Tokens, Joining, Creating, Recording, Notified, Leaving, TokensAt
<1>4. \A j : Room(j)' = Room(j) /\ User(j)' = User(j)
  BY <1>1 DEF Room, User
<1>5. /\ told' \in [1 .. MaxJoins -> SUBSET Users]
      /\ \A j \in 1 .. MaxJoins : told'[j] = IF j = k THEN {} ELSE told[j]
  BY <1>1, CallsHaveTokens DEF ThreadInv, TypeOK
<1>6. ThreadInv'
  <2>1. TypeOK'
    BY <1>1, <1>3, <1>5 DEF ThreadInv, TypeOK
  <2>2. QED BY <1>1, <1>3, <2>1 DEF ThreadInv, ThreadsOK, LocksHeld, OneJoinEach, TokensInARow
<1>7. TokensOfCalls' /\ NamesOfRooms' /\ RoomsAttended'
  BY <1>1, <1>2, <1>3, <1>4 DEF RoomInv, TokensOfCalls, NamesOfRooms, RoomsAttended
<1>8. UserOncePerRoom' /\ ToldSubscribersOnly'
  BY <1>1, <1>4, <1>5 DEF RoomInv, UserOncePerRoom, ToldSubscribersOnly
<1>9. NoGhosts'
  <2>1. \A j \in callbacks' : j \in callbacks /\ told'[j] = told[j]
    BY <1>1, <1>5, CallsHaveTokens
  <2>2. members' = members
    BY <1>1
  <2>3. QED BY <1>3, <1>4, <2>1, <2>2 DEF RoomInv, NoGhosts
<1>10. QED BY <1>6, <1>7, <1>8, <1>9 DEF RoomInv

-----------------------------------------------------------------------------
\* Every step keeps the invariant.
LEMMA NextInvariant == IInv /\ [Next]_vars => IInv'
<1> SUFFICES ASSUME IInv, [Next]_vars PROVE IInv'
  OBVIOUS
<1>1. ASSUME NEW t \in Threads, Calls(t) PROVE IInv'
  <2>1. ASSUME NEW c \in Channels, NEW r \in Rooms, NEW u \in Users, JoinStarts(t, c, r, u)
        PROVE  IInv'
    BY <2>1, JoinStartsInvariant
  <2>2. ASSUME NEW k \in Tokens, LeaveStarts(t, k) PROVE IInv'
    BY <2>2, LeaveStartsInvariant
  <2>3. ASSUME NEW k \in Tokens, SendStarts(t, k) PROVE IInv'
    BY <2>3, SendInvariant
  <2>4. ASSUME NEW k \in Tokens, Subscribe(t, k) PROVE IInv'
    BY <2>4, SubscribeInvariant
  <2>5. ASSUME NEW k \in Tokens, Unsubscribe(t, k) PROVE IInv'
    BY <2>5, UnsubscribeInvariant
  <2>6. QED BY <1>1, <2>1, <2>2, <2>3, <2>4, <2>5 DEF Calls
<1>2. ASSUME NEW t \in Threads, Closes(t) PROVE IInv'
  BY <1>2, ClosedInvariant DEF Closes
<1>3. ASSUME NEW t \in Threads, Continues(t) PROVE IInv'
  BY <1>3, JoinExistingInvariant, JoinCreatesInvariant, CreatedInvariant,
     JoinRecordsInvariant, ExitsInvariant, ClosedInvariant, SendInvariant, NotifyInvariant
  DEF Continues
<1>4. ASSUME NEW c \in Channels, ChannelCloses(c) PROVE IInv'
  BY <1>4, ChannelClosesInvariant
<1>5. CASE UNCHANGED vars
  <2>1. UNCHANGED <<roomIds, roomNames, adminLock, rooms, members, callbacks, told,
                    roomLock, at, info, open, closed>>
    BY <1>5 DEF vars, msgVars, roomVars, outside
  <2>2. UNCHANGED <<Tokens, Joining, Creating, Recording, Notified, Leaving>>
    BY <2>1 DEF Tokens, Joining, Creating, Recording, Notified, Leaving, TokensAt
  <2>3. \A j : Room(j)' = Room(j) /\ User(j)' = User(j)
    BY <2>1 DEF Room, User
  <2>4. ThreadInv'
    BY <2>1, <2>2
    DEF IInv, ThreadInv, TypeOK, ThreadsOK, LocksHeld, OneJoinEach, TokensInARow
  <2>5. TokensOfCalls' /\ NamesOfRooms' /\ RoomsAttended'
    BY <2>1, <2>2, <2>3 DEF IInv, RoomInv, TokensOfCalls, NamesOfRooms, RoomsAttended
  <2>6. UserOncePerRoom' /\ NoGhosts' /\ ToldSubscribersOnly'
    BY <2>1, <2>2, <2>3 DEF IInv, RoomInv, UserOncePerRoom, NoGhosts, ToldSubscribersOnly
  <2>7. QED BY <2>4, <2>5, <2>6 DEF IInv, RoomInv
<1>6. QED BY <1>1, <1>2, <1>3, <1>4, <1>5 DEF Next

\* Threads and rooms are in order in every state.
LEMMA Invariance == Spec => []IInv
BY InitInvariant, NextInvariant, PTL DEF Spec

\* What the sets of tokens say, said of the threads.
LEMMA InvariantInOrder == IInv => MembersInOrder
<1> SUFFICES ASSUME IInv PROVE MembersInOrder
  OBVIOUS
<1> USE DEF IInv
<1>1. TypeOK /\ UserOncePerRoom
  BY DEF ThreadInv, RoomInv
<1>2. NamesMirrorRooms
  <2>1. CASE \E t \in Threads : at[t].pc = "created"
    <3>1. PICK t \in Threads : at[t].pc = "created"
      BY <2>1
    <3>2. Creating = {at[t].token}
      BY <3>1, HolderIsAlone
    <3>3. /\ Room(at[t].token) \notin roomNames
          /\ rooms = roomNames \cup {Room(at[t].token)}
      BY <3>2 DEF RoomInv, NamesOfRooms
    <3>4. QED BY <3>1, <3>3 DEF NamesMirrorRooms
  <2>2. CASE ~ \E t \in Threads : at[t].pc = "created"
    <3>1. Creating = {}
      BY <2>2 DEF Creating, TokensAt
    <3>2. QED BY <2>2, <3>1 DEF RoomInv, NamesOfRooms, NamesMirrorRooms
  <2>3. QED BY <2>1, <2>2
<1>3. RoomsByAttendance
  <2>1. \A k \in Creating : \E t \in Threads : at[t].pc = "created" /\ at[t].token = k
    BY DEF Creating, TokensAt
  <2>2. QED BY <2>1 DEF RoomInv, RoomsAttended, RoomsByAttendance, MembersOf
<1>4. TokensAreMembers
  <2>1. \A k \in Recording : \E t \in Threads : at[t].pc = "record" /\ at[t].token = k
    BY DEF Recording, TokensAt
  <2>2. QED BY <2>1 DEF RoomInv, TokensOfCalls, TokensAreMembers
<1>5. QED BY <1>1, <1>2, <1>3, <1>4 DEF MembersInOrder

-----------------------------------------------------------------------------
(* The theorems.                                                           *)

\* However the calls of Join, Leave, Closed and the subscriptions overlap,
\* with the two locks taken in either order: the plugin's room names are those
\* of the maintainer's rooms, rooms come and go with their members, a user is
\* in a room once, and every token is that of a member that lives.
THEOREM RoomsStayInOrder == Spec => []MembersInOrder
BY Invariance, InvariantInOrder, PTL

\* Whoever a subscriber has been told of and not told that they left is in the
\* room or on the way out: Notify() and the updates of Join and Exit do not
\* leave it with users that are gone.
THEOREM NobodyIsAGhost == Spec => []NoGhosts
<1>1. IInv => NoGhosts
  BY DEF IInv, RoomInv
<1>2. QED BY <1>1, Invariance, PTL
=============================================================================
