---------------------------- MODULE OCDM_proofs ----------------------------
(***************************************************************************)
(* Buffers have one owner, for any sessions and any number of buffers; the *)
(* systems that clients are offered work, for any libraries and any        *)
(* configuration; and a session has the keys that its initialization data  *)
(* names, for any data whose texts are those of PlayReady.                 *)
(*                                                                         *)
(* A session gets a buffer only while it is open, and is in the list from  *)
(* before that until its buffer is given back: so the list accounts for    *)
(* every bit of _occupation.                                               *)
(*                                                                         *)
(* The tables of the systems are made by a loop over the configuration that*)
(* keeps what is there: so what a key has is what the first entry with that*)
(* key gave it (Firsts), and that is what the property tells of the entries*)
(* of the configuration.  Nothing changes the tables until the libraries   *)
(* are released.                                                           *)
(*                                                                         *)
(* The parser is loops within loops.  Each adds the pairs of a key and a   *)
(* system that its part of the data names (Says) to those that were there; *)
(* in a text, a loop that goes from one element to the next misses none of *)
(* its kind, and leaves those of the other kind to the other (Finds).  What*)
(* is told later changes the status of one key (Keeps), and until the      *)
(* client has heard it, it is about to (Hears).                            *)
(***************************************************************************)
EXTENDS MCOCDM, SequenceTheorems, FiniteSetTheorems, WellFoundedInduction, TLAPS

\* Types, and the phases in which a session is in the list and may have a
\* buffer.
Listed ==
  /\ phase \in [Sessions -> {"none", "runs", "listed", "open", "released",
                             "removed", "stops", "gone"}]
  /\ sessionList = {s \in Sessions : phase[s] \in {"listed", "open", "released"}}
  /\ buffer \in [Sessions -> Buffers \cup {NoBuffer}]
  /\ \A s \in Sessions : phase[s] \in {"none", "runs", "listed"} => buffer[s] = NoBuffer

IInv == Listed /\ BuffersOwned

\* The value for "no buffer" is none of the buffers.
LEMMA NoBufferIsNone == NoBuffer \notin Buffers
BY BuffersAssumption DEF Buffers, NoBuffer

\* There are no sessions, and all buffers are free.
LEMMA InitIInv == Init => IInv
BY DEF Init, IInv, Listed, BuffersOwned

\* Steps that neither touch a buffer nor the list.
LEMMA OthersKeep ==
  ASSUME IInv, UNCHANGED <<sessionList, bufferVars>>, NEW s \in Sessions,
         \/ UNCHANGED phase
         \/ Goes(s, "none", "runs") \/ Goes(s, "listed", "open")
         \/ Goes(s, "open", "released") \/ Goes(s, "removed", "stops")
         \/ Goes(s, "removed", "gone") \/ Goes(s, "stops", "gone")
  PROVE  IInv'
<1>1. Listed'
  BY DEF IInv, Listed, bufferVars, Goes
<1>2. BuffersOwned'
  BY DEF IInv, BuffersOwned, bufferVars
<1>3. QED BY <1>1, <1>2 DEF IInv

\* A session enters the list without a buffer.
LEMMA ListsKeeps ==
  ASSUME IInv, NEW s \in Sessions, Lists(s)
  PROVE  IInv'
<1>1. phase[s] = "runs" /\ buffer[s] = NoBuffer /\ sessionList' = sessionList \cup {s}
      /\ UNCHANGED <<occupation, buffer>>
  BY DEF IInv, Listed, Lists, Goes, bufferVars
<1>2. Listed'
  BY <1>1 DEF IInv, Listed, Lists, Goes
<1>3. {t \in sessionList' : buffer'[t] # NoBuffer} = {t \in sessionList : buffer[t] # NoBuffer}
  BY <1>1
<1>4. occupation' = {buffer'[t] : t \in {u \in sessionList' : buffer'[u] # NoBuffer}}
  BY <1>1, <1>3 DEF IInv, BuffersOwned
<1>5. ASSUME NEW t \in sessionList', NEW u \in sessionList',
             buffer'[t] = buffer'[u], t # u
      PROVE  buffer'[t] = NoBuffer
  BY <1>1, <1>5 DEF IInv, BuffersOwned
<1>6. QED BY <1>2, <1>4, <1>5 DEF IInv, BuffersOwned

\* A buffer that is free has no owner in the list, so it can have a new one.
LEMMA CreateSessionBufferKeeps ==
  ASSUME IInv, NEW s \in Sessions, CreateSessionBuffer(s)
  PROVE  IInv'
<1>1. PICK b \in Buffers : /\ b \notin occupation /\ occupation' = occupation \cup {b}
                           /\ buffer' = [buffer EXCEPT ![s] = b]
  BY DEF CreateSessionBuffer, FirstFree, Occupied
<1>2. /\ phase[s] = "open" /\ buffer[s] = NoBuffer /\ s \in sessionList
      /\ UNCHANGED <<phase, sessionList>> /\ b # NoBuffer
      /\ buffer \in [Sessions -> Buffers \cup {NoBuffer}] /\ sessionList \subseteq Sessions
  BY NoBufferIsNone DEF CreateSessionBuffer, IInv, Listed
<1>3. buffer'[s] = b /\ \A t \in Sessions : t # s => buffer'[t] = buffer[t]
  BY <1>1, <1>2
<1>4. \A t \in sessionList : buffer[t] # b
  BY <1>1, <1>2 DEF IInv, BuffersOwned
<1>5. Listed'
  BY <1>1, <1>2 DEF IInv, Listed
<1>6. {t \in sessionList' : buffer'[t] # NoBuffer}
        = {t \in sessionList : buffer[t] # NoBuffer} \cup {s}
  BY <1>2, <1>3
<1>7. occupation' = {buffer'[t] : t \in {u \in sessionList' : buffer'[u] # NoBuffer}}
  BY <1>1, <1>2, <1>3, <1>6 DEF IInv, BuffersOwned
<1>8. ASSUME NEW t \in sessionList', NEW u \in sessionList',
             buffer'[t] = buffer'[u], t # u
      PROVE  buffer'[t] = NoBuffer
  BY <1>2, <1>3, <1>4, <1>8 DEF IInv, BuffersOwned
<1>9. QED BY <1>5, <1>7, <1>8 DEF IInv, BuffersOwned

\* A session leaves the list with its buffer, which was nobody else's.
LEMMA RemoveKeeps ==
  ASSUME IInv, NEW s \in Sessions, Remove(s)
  PROVE  IInv'
<1>1. /\ phase[s] = "released" /\ phase' = [phase EXCEPT ![s] = "removed"]
      /\ s \in sessionList /\ sessionList' = sessionList \ {s}
      /\ occupation' = occupation \ {buffer[s]} /\ UNCHANGED buffer
  BY DEF Remove, Goes, Freed, IInv, Listed
<1>2. Listed'
  BY <1>1 DEF IInv, Listed
<1>3. ASSUME NEW b PROVE b \in occupation' <=>
        b \in {buffer'[t] : t \in {u \in sessionList' : buffer'[u] # NoBuffer}}
  BY <1>1 DEF IInv, BuffersOwned
<1>4. ASSUME NEW t \in sessionList', NEW u \in sessionList',
             buffer'[t] = buffer'[u], t # u
      PROVE  buffer'[t] = NoBuffer
  BY <1>1, <1>4 DEF IInv, BuffersOwned
<1>5. occupation' = {buffer'[t] : t \in {u \in sessionList' : buffer'[u] # NoBuffer}}
  BY <1>1, <1>3 DEF IInv, BuffersOwned
<1>6. QED BY <1>2, <1>4, <1>5 DEF IInv, BuffersOwned

\* Every step keeps the invariant.
LEMMA NextIInv == IInv /\ [Next]_vars => IInv'
<1> SUFFICES ASSUME IInv, [Next]_vars PROVE IInv'
  OBVIOUS
<1>1. CASE UNCHANGED vars
  BY <1>1 DEF vars, bufferVars, IInv, Listed, BuffersOwned
<1>2. ASSUME NEW s \in Sessions, Lists(s) PROVE IInv'
  BY <1>2, ListsKeeps
<1>3. ASSUME NEW s \in Sessions, CreateSessionBuffer(s) PROVE IInv'
  BY <1>3, CreateSessionBufferKeeps
<1>4. ASSUME NEW s \in Sessions, Remove(s) PROVE IInv'
  BY <1>4, RemoveKeeps
<1>5. ASSUME NEW s \in Sessions,
             \/ Constructs(s) \/ TellsPending(s) \/ Worker(s) \/ StopsThread(s)
             \/ Destructed(s) \/ ClientProduces(s) \/ Release(s)
             \/ OnKeyMessage(s) \/ Called(s)
      PROVE  IInv'
  <2>1. UNCHANGED <<sessionList, bufferVars>>
    BY <1>5 DEF Constructs, TellsPending, Worker, Decrypts, Consumes, StopsThread,
                Destructed, ClientProduces, Release, OnKeyMessage, Called, bufferVars
  <2>2. \/ UNCHANGED phase
        \/ Goes(s, "none", "runs") \/ Goes(s, "listed", "open")
        \/ Goes(s, "open", "released") \/ Goes(s, "removed", "stops")
        \/ Goes(s, "removed", "gone") \/ Goes(s, "stops", "gone")
    BY <1>5 DEF Constructs, TellsPending, Worker, Decrypts, Consumes, StopsThread,
                Destructed, ClientProduces, Release, OnKeyMessage, Called
  <2>3. QED BY <2>1, <2>2, OthersKeep
<1>6. QED BY <1>1, <1>2, <1>3, <1>4, <1>5 DEF Next, Creates, Ends, Client

\* Whichever sessions are created, ask for a buffer and end at the same time,
\* AcquireBuffer and ReleaseBuffer never give a buffer to two sessions in the
\* list, nor lose one.
THEOREM BuffersHaveOneOwner == Spec => []BuffersOwned
<1>1. IInv => BuffersOwned
  BY DEF IInv
<1>2. Spec => Init /\ [][Next]_vars
  BY DEF Spec
<1>3. QED BY <1>1, <1>2, InitIInv, NextIInv, PTL

-----------------------------------------------------------------------------
(* The DRM systems.  First induction: over the naturals, for the loop over *)
(* the entries of the configuration.                                       *)
LEMMA LeastNatural ==
  ASSUME NEW Some, Some \subseteq Nat, Some # {}
  PROVE  \E m \in Some : \A n \in Some : m <= n
<1> DEFINE Below == OpToRel(<, Nat)
<1>1. IsWellFoundedOn(Below, Nat)
  BY NatLessThanWellFounded
<1>2. PICK m \in Some : \A n \in Some : ~(<<n, m>> \in Below)
  <2> HIDE DEF Below
  <2>1. QED BY <1>1, WFMin
<1>3. \A n \in Some : <<n, m>> \in Below <=> n < m
  BY DEF OpToRel
<1> HIDE DEF Below
<1>4. ASSUME NEW n \in Some PROVE m <= n
  <2>1. ~(n < m) /\ m \in Nat /\ n \in Nat
    BY <1>2, <1>3
  <2>2. QED BY <2>1
<1>5. QED BY <1>4

LEMMA MaxOf ==
  ASSUME NEW n \in Nat, NEW Some, Some \subseteq 1 .. n, Some # {}
  PROVE  DRM!Max(Some) \in Some /\ \A x \in Some : x <= DRM!Max(Some)
<1> DEFINE Rest == {y \in Nat : n - y \in Some}
<1>1. Rest \subseteq Nat /\ Rest # {}
  <2>1. PICK x \in Some : TRUE
    OBVIOUS
  <2>2. n - x \in Nat /\ n - (n - x) = x
    BY <2>1
  <2>3. n - x \in Rest
    BY <2>2
  <2>4. QED BY <2>3
<1>2. PICK m \in Rest : \A y \in Rest : m <= y
  <2> HIDE DEF Rest
  <2>1. QED BY <1>1, LeastNatural
<1>3. ASSUME NEW x \in Some PROVE x <= n - m
  <2>1. x \in 1 .. n /\ n - x \in Nat /\ n - (n - x) = x
    OBVIOUS
  <2>2. n - x \in Rest
    BY <2>1
  <2>3. m <= n - x /\ m \in Nat
    BY <1>2, <2>2
  <2>4. QED BY <2>1, <2>3
<1>4. n - m \in Some /\ n - m \in Nat
  BY <1>2
<1>5. \E x \in Some : \A y \in Some : x >= y
  BY <1>3, <1>4
<1>6. DRM!Max(Some) \in Some /\ \A y \in Some : DRM!Max(Some) >= y
  BY <1>5 DEF DRM!Max
<1>7. QED BY <1>6

LEMMA FirstOnes ==
  ASSUME NEW n \in Nat, NEW k \in 1 .. n
  PROVE  /\ 1 .. k \in SUBSET (1 .. n) /\ 1 .. k # {} /\ k \in 1 .. k
         /\ (1 .. k) \ {k} = 1 .. k - 1 /\ 1 .. k - 1 \in SUBSET (1 .. n)
         /\ k \in 0 .. n /\ k - 1 \in 0 .. n /\ n \in 0 .. n /\ k \in Nat /\ k - 1 \in Nat
<1>1. k \in Nat /\ k >= 1 /\ k <= n
  OBVIOUS
<1>2. \A x : x \in 1 .. k <=> x \in Nat /\ 1 <= x /\ x <= k
  BY <1>1
<1>3. \A x : x \in 1 .. n <=> x \in Nat /\ 1 <= x /\ x <= n
  OBVIOUS
<1>4. \A x : x \in 1 .. k - 1 <=> x \in Nat /\ 1 <= x /\ x <= k - 1
  BY <1>1
<1>5. \A x : x \in 1 .. k => x \in 1 .. n
  BY <1>1, <1>2, <1>3
<1>6. \A x : x \in 1 .. k - 1 <=> x \in 1 .. k /\ x # k
  BY <1>1, <1>2, <1>4
<1>7. (1 .. k) \ {k} = 1 .. k - 1
  BY <1>6
<1>8. k \in 1 .. k
  BY <1>1
<1>9. k \in 0 .. n /\ k - 1 \in 0 .. n /\ n \in 0 .. n /\ k - 1 \in Nat
  BY <1>1
<1>10. QED BY <1>1, <1>5, <1>6, <1>7, <1>8, <1>9

\* The loop that a fold stands for: there is a map after each entry.
LEMMA FoldIsALoop ==
  ASSUME NEW set, NEW entries \in Seq(set)
  PROVE  \E g : /\ g[0] = <<>>
                /\ \A k \in 1 .. Len(entries) : g[k] = DRM!Insert(g[k - 1], entries[k])
                /\ DRM!FoldLeft(DRM!Insert, <<>>, entries) = g[Len(entries)]
<1> DEFINE base == <<>>
           Item(k) == entries[k]
           n == Len(entries)
           Loops(h, k) == h = [s \in SUBSET (1 .. k) |->
                                 IF s = {} THEN base ELSE DRM!Insert(h[s \ {DRM!Max(s)}], Item(DRM!Max(s)))]
<1>1. n \in Nat /\ DOMAIN entries = 1 .. n
  OBVIOUS
<1>2. DRM!FoldLeft(DRM!Insert, <<>>, entries) = (CHOOSE h : Loops(h, n))[1 .. n]
  <2>1. DRM!FoldLeft(DRM!Insert, <<>>, entries) =
          (CHOOSE h : h = [s \in SUBSET (DOMAIN entries) |->
                             IF s = {} THEN base ELSE DRM!Insert(h[s \ {DRM!Max(s)}], Item(DRM!Max(s)))])[DOMAIN entries]
    BY DEF DRM!FoldLeft, DRM!MapThenFoldSet, DRM!Max
  <2>2. QED BY <2>1, <1>1
<1> HIDE DEF Item, base, n
<1>3. ASSUME NEW k \in Nat, k > 0, NEW h, Loops(h, k - 1)
      PROVE  \E i : Loops(i, k)
  <2> DEFINE i == [s \in SUBSET (1 .. k) |->
                     IF s = {} THEN base ELSE IF k \in s THEN DRM!Insert(h[s \ {k}], Item(k)) ELSE h[s]]
  <2>1. h[{}] = base
    BY <1>3
  <2>2. ASSUME NEW s \in SUBSET (1 .. k), s # {}
        PROVE  i[s] = DRM!Insert(i[s \ {DRM!Max(s)}], Item(DRM!Max(s)))
    <3>1. DRM!Max(s) \in s /\ \A x \in s : x <= DRM!Max(s)
      BY <2>2, MaxOf
    <3>2. CASE k \in s
      <4>1. DRM!Max(s) = k
        <5>1. DRM!Max(s) \in 1 .. k /\ k <= DRM!Max(s)
          BY <3>1, <3>2
        <5>2. QED BY <5>1
      <4>2. s \ {k} \in SUBSET (1 .. k) /\ k \notin s \ {k}
        OBVIOUS
      <4>3. i[s \ {k}] = h[s \ {k}]
        BY <4>2, <2>1
      <4>4. i[s] = DRM!Insert(h[s \ {k}], Item(k))
        BY <3>2, <2>2
      <4>5. QED BY <4>1, <4>3, <4>4
    <3>3. CASE k \notin s
      <4>1. s \in SUBSET (1 .. k - 1) /\ s \ {DRM!Max(s)} \in SUBSET (1 .. k - 1) /\ k \notin s \ {DRM!Max(s)}
        <5>1. k \in 1 .. k /\ (1 .. k) \ {k} = 1 .. k - 1
          BY <1>3, FirstOnes
        <5>2. s \subseteq (1 .. k) \ {k}
          BY <3>3
        <5>3. QED BY <3>3, <5>1, <5>2
      <4>2. h[s] = DRM!Insert(h[s \ {DRM!Max(s)}], Item(DRM!Max(s)))
        BY <4>1, <1>3, <2>2
      <4>3. i[s] = h[s]
        BY <2>2, <3>3
      <4>4. i[s \ {DRM!Max(s)}] = h[s \ {DRM!Max(s)}]
        BY <4>1, <2>1
      <4>5. QED BY <4>2, <4>3, <4>4
    <3>4. QED BY <3>2, <3>3
  <2>3. i[{}] = base
    OBVIOUS
  <2>4. Loops(i, k)
    <3> DEFINE j == [s \in SUBSET (1 .. k) |->
                       IF s = {} THEN base ELSE DRM!Insert(i[s \ {DRM!Max(s)}], Item(DRM!Max(s)))]
    <3>1. \A s \in SUBSET (1 .. k) : i[s] = j[s]
      BY <2>2, <2>3
    <3>2. QED BY <3>1
  <2>5. QED BY <2>4
<1>4. \A k \in Nat : \E h : Loops(h, k)
  <2> DEFINE Bad == {k \in Nat : ~\E h : Loops(h, k)}
  <2>1. \E h : Loops(h, 0)
    <3> DEFINE h == [s \in SUBSET (1 .. 0) |-> base]
    <3>1. Loops(h, 0)
      OBVIOUS
    <3>2. QED BY <3>1
  <2> HIDE DEF Loops
  <2>2. SUFFICES ASSUME Bad # {} PROVE FALSE
    OBVIOUS
  <2>3. Bad \subseteq Nat
    OBVIOUS
  <2>4. PICK k \in Bad : \A l \in Bad : k <= l
    <3> HIDE DEF Bad
    <3>1. QED BY <2>2, <2>3, LeastNatural
  <2>5. k \in Nat /\ ~\E h : Loops(h, k)
    BY <2>4
  <2>6. k > 0 /\ k - 1 \in Nat /\ ~(k <= k - 1)
    BY <2>1, <2>5
  <2>7. k - 1 \notin Bad
    <3> HIDE DEF Bad
    <3>1. QED BY <2>4, <2>6
  <2>8. PICK h : Loops(h, k - 1)
    BY <2>6, <2>7
  <2>9. QED BY <2>5, <2>6, <2>8, <1>3
<1>5. PICK h : Loops(h, n) /\ DRM!FoldLeft(DRM!Insert, <<>>, entries) = h[1 .. n]
  BY <1>1, <1>2, <1>4
<1> DEFINE g == [k \in 0 .. n |-> h[1 .. k]]
<1>6. g[0] = base
  <2>1. 0 \in 0 .. n /\ 1 .. 0 = {} /\ {} \in SUBSET (1 .. n)
    BY <1>1
  <2>2. h[{}] = base
    BY <1>5, <2>1
  <2>3. g[0] = h[1 .. 0]
    BY <2>1
  <2>4. QED BY <2>1, <2>2, <2>3
<1>7. ASSUME NEW k \in 1 .. n
      PROVE  g[k] = DRM!Insert(g[k - 1], Item(k))
  <2>1. /\ 1 .. k \in SUBSET (1 .. n) /\ 1 .. k # {} /\ (1 .. k) \ {k} = 1 .. k - 1
        /\ k \in 0 .. n /\ k - 1 \in 0 .. n /\ k \in 1 .. k /\ k \in Nat
    BY <1>1, FirstOnes
  <2>2. DRM!Max(1 .. k) = k
    <3>1. DRM!Max(1 .. k) \in 1 .. k /\ k <= DRM!Max(1 .. k)
      BY <2>1, MaxOf
    <3>2. QED BY <3>1, <2>1
  <2>3. h[1 .. k] = DRM!Insert(h[(1 .. k) \ {DRM!Max(1 .. k)}], Item(DRM!Max(1 .. k)))
    BY <2>1, <1>5
  <2>4. h[1 .. k] = DRM!Insert(h[1 .. k - 1], Item(k))
    BY <2>1, <2>2, <2>3
  <2>5. g[k] = h[1 .. k] /\ g[k - 1] = h[1 .. k - 1]
    BY <2>1
  <2> HIDE DEF g
  <2>6. QED BY <2>4, <2>5
<1>8. g[n] = DRM!FoldLeft(DRM!Insert, <<>>, entries)
  <2>1. n \in 0 .. n
    BY <1>1
  <2>2. g[n] = h[1 .. n]
    BY <2>1
  <2>3. QED BY <2>2, <1>5
<1> HIDE DEF g
<1>9. QED BY <1>6, <1>7, <1>8 DEF Item, n, base

\* Induction in the form that the loops need.
LEMMA LoopInduction ==
  ASSUME NEW n \in Nat, NEW Reached, 0 \in Reached, \A k \in 1 .. n : k - 1 \in Reached => k \in Reached
  PROVE  \A k \in 0 .. n : k \in Reached
<1> DEFINE Bad == {k \in Nat : k <= n /\ k \notin Reached}
<1>1. SUFFICES ASSUME Bad # {} PROVE FALSE
  OBVIOUS
<1>2. Bad \subseteq Nat
  OBVIOUS
<1>3. PICK k \in Bad : \A l \in Bad : k <= l
  <2> HIDE DEF Bad
  <2>1. QED BY <1>1, <1>2, LeastNatural
<1>4. k \in Nat /\ k <= n /\ k \notin Reached /\ k # 0
  BY <1>3
<1>5. k \in 1 .. n /\ k - 1 \in Nat /\ k - 1 <= n /\ ~(k <= k - 1)
  BY <1>4
<1>6. k - 1 \notin Bad
  <2> HIDE DEF Bad
  <2>1. QED BY <1>3, <1>5
<1>7. k - 1 \in Reached
  BY <1>5, <1>6
<1>8. QED BY <1>4, <1>5, <1>7

\* A map that keeps what is there has, for each key, the value of its first entry.
Firsts(map, entries, n) ==
  /\ map = [x \in DOMAIN map |-> map[x]]
  /\ \A x : x \in DOMAIN map <=> \E i \in 1 .. n : x \in entries[i].keys
  /\ \A x \in DOMAIN map : \E i \in 1 .. n : /\ x \in entries[i].keys /\ map[x] = entries[i].value
                                             /\ \A j \in 1 .. i - 1 : x \notin entries[j].keys

LEMMA InsertKeepsFirst ==
  ASSUME NEW entries, NEW k \in Nat \ {0}, NEW map, Firsts(map, entries, k - 1)
  PROVE  Firsts(DRM!Insert(map, entries[k]), entries, k)
<1> DEFINE e == entries[k]
           new == DRM!Insert(map, e)
<1>1. new = [x \in DOMAIN map \cup e.keys |-> IF x \in DOMAIN map THEN map[x] ELSE e.value]
  BY DEF DRM!Insert
<1> HIDE DEF new
<1>2. new = [x \in DOMAIN new |-> new[x]] /\ DOMAIN new = DOMAIN map \cup e.keys
  BY <1>1
<1>3. \A i : i \in 1 .. k <=> i \in 1 .. k - 1 \/ i = k
  OBVIOUS
<1>4. ASSUME NEW x PROVE x \in DOMAIN new <=> \E i \in 1 .. k : x \in entries[i].keys
  <2>1. x \in DOMAIN map <=> \E i \in 1 .. k - 1 : x \in entries[i].keys
    BY DEF Firsts
  <2>2. QED BY <1>2, <1>3, <2>1
<1>5. ASSUME NEW x \in DOMAIN new
      PROVE  \E i \in 1 .. k : /\ x \in entries[i].keys /\ new[x] = entries[i].value
                               /\ \A j \in 1 .. i - 1 : x \notin entries[j].keys
  <2>1. CASE x \in DOMAIN map
    <3>1. new[x] = map[x]
      BY <1>1, <2>1
    <3>2. PICK i \in 1 .. k - 1 : /\ x \in entries[i].keys /\ map[x] = entries[i].value
                                  /\ \A j \in 1 .. i - 1 : x \notin entries[j].keys
      BY <2>1 DEF Firsts
    <3>3. i \in 1 .. k
      BY <1>3
    <3>4. QED BY <3>1, <3>2, <3>3
  <2>2. CASE x \notin DOMAIN map
    <3>1. x \in e.keys /\ new[x] = e.value
      BY <1>1, <1>2, <2>2
    <3>2. \A j \in 1 .. k - 1 : x \notin entries[j].keys
      BY <2>2 DEF Firsts
    <3>3. k \in 1 .. k
      OBVIOUS
    <3>4. QED BY <3>1, <3>2, <3>3
  <2>3. QED BY <2>1, <2>2
<1>6. Firsts(new, entries, k)
  BY <1>2, <1>4, <1>5 DEF Firsts
<1>7. QED BY <1>6 DEF new

LEMMA FirstsAreInserted ==
  ASSUME NEW set, NEW entries \in Seq(set)
  PROVE  Firsts(DRM!FoldLeft(DRM!Insert, <<>>, entries), entries, Len(entries))
<1> DEFINE n == Len(entries)
<1>0. n \in Nat
  OBVIOUS
<1>1. PICK g : /\ g[0] = <<>>
               /\ \A k \in 1 .. n : g[k] = DRM!Insert(g[k - 1], entries[k])
               /\ DRM!FoldLeft(DRM!Insert, <<>>, entries) = g[n]
  BY FoldIsALoop
<1> DEFINE Good == {k \in Nat : Firsts(g[k], entries, k)}
<1>2. 0 \in Good
  BY <1>1 DEF Firsts
<1>3. ASSUME NEW k \in 1 .. n, k - 1 \in Good PROVE k \in Good
  <2>1. Firsts(g[k - 1], entries, k - 1) /\ k \in Nat \ {0}
    BY <1>0, <1>3
  <2>2. g[k] = DRM!Insert(g[k - 1], entries[k])
    BY <1>1
  <2>3. QED BY <2>1, <2>2, InsertKeepsFirst
<1>4. n \in Good
  <2> HIDE DEF Good, n
  <2>1. n \in 0 .. n
    BY <1>0
  <2>2. QED BY <1>0, <1>2, <1>3, <2>1, LoopInduction
<1>5. QED BY <1>1, <1>4

-----------------------------------------------------------------------------
Serves(libraries, d, i) ==
  /\ configured[i].name \in DRM!ToSet(libraries)
  /\ "designators" \in configured[i].has
  /\ d \in configured[i].designators \ {""}

HasList(name, kind, i) == configured[i].name = name /\ kind \in configured[i].has

LEMMA DesignatedFirst ==
  ASSUME NEW set, configured \in Seq(set), NEW libraries
  PROVE  LET map == DRM!Designated(libraries)
         IN  /\ \A d : d \in DOMAIN map <=> \E i \in 1 .. Len(configured) : Serves(libraries, d, i)
             /\ \A d \in DOMAIN map : \E i \in 1 .. Len(configured) :
                  /\ Serves(libraries, d, i) /\ map[d] = configured[i].name
                  /\ \A j \in 1 .. i - 1 : ~Serves(libraries, d, j)
<1> DEFINE n == Len(configured)
           map == DRM!Designated(libraries)
           Keyed(s) == IF s.name \in DRM!ToSet(libraries) /\ "designators" \in s.has
                       THEN s.designators \ {""} ELSE {}
           entries == [i \in 1 .. n |-> [keys |-> Keyed(configured[i]), value |-> configured[i].name]]
<1>1. n \in Nat
  OBVIOUS
<1>2. map = DRM!FoldLeft(DRM!Insert, <<>>, entries)
  BY DEF DRM!Designated, DRM!Inserted
<1>3. \A i \in 1 .. n : /\ entries[i].value = configured[i].name
                        /\ \A d : d \in entries[i].keys <=> Serves(libraries, d, i)
  BY DEF Serves
<1>4. Len(entries) = n /\ entries \in Seq({entries[i] : i \in 1 .. n})
  <2> HIDE DEF Keyed, n
  <2>1. entries \in [1 .. n -> {entries[i] : i \in 1 .. n}]
    OBVIOUS
  <2> HIDE DEF entries
  <2>2. QED BY <1>1, <2>1, SeqDef
<1> HIDE DEF entries, map, n
<1>5. Firsts(map, entries, n)
  BY <1>2, <1>4, FirstsAreInserted
<1>6. \A i \in 1 .. n : \A j \in 1 .. i - 1 : j \in 1 .. n
  BY <1>1
<1>7. \A d : d \in DOMAIN map <=> \E i \in 1 .. n : Serves(libraries, d, i)
  BY <1>3, <1>5 DEF Firsts
<1>8. ASSUME NEW d \in DOMAIN map
      PROVE  \E i \in 1 .. n : /\ Serves(libraries, d, i) /\ map[d] = configured[i].name
                               /\ \A j \in 1 .. i - 1 : ~Serves(libraries, d, j)
  <2>1. PICK i \in 1 .. n : /\ d \in entries[i].keys /\ map[d] = entries[i].value
                            /\ \A j \in 1 .. i - 1 : d \notin entries[j].keys
    BY <1>5 DEF Firsts
  <2>2. QED BY <1>3, <1>6, <2>1
<1>9. QED BY <1>7, <1>8 DEF map, n

LEMMA ListedFirst ==
  ASSUME NEW set, configured \in Seq(set), NEW kind
  PROVE  LET map == DRM!Blacklist(kind)
         IN  /\ map = [x \in DOMAIN map |-> map[x]]
             /\ \A name : name \in DOMAIN map <=> \E i \in 1 .. Len(configured) : HasList(name, kind, i)
             /\ \A name \in DOMAIN map : \E i \in 1 .. Len(configured) :
                  /\ HasList(name, kind, i) /\ map[name] = configured[i][kind] \ {""}
                  /\ \A j \in 1 .. i - 1 : ~HasList(name, kind, j)
<1> DEFINE n == Len(configured)
           map == DRM!Blacklist(kind)
           Keyed(s) == IF kind \in s.has THEN {s.name} ELSE {}
           entries == [i \in 1 .. n |-> [keys |-> Keyed(configured[i]), value |-> configured[i][kind] \ {""}]]
<1>1. n \in Nat
  OBVIOUS
<1>2. map = DRM!FoldLeft(DRM!Insert, <<>>, entries)
  BY DEF DRM!Blacklist, DRM!Inserted
<1>3. \A i \in 1 .. n : /\ entries[i].value = configured[i][kind] \ {""}
                        /\ \A name : name \in entries[i].keys <=> HasList(name, kind, i)
  BY DEF HasList
<1>4. Len(entries) = n /\ entries \in Seq({entries[i] : i \in 1 .. n})
  <2> HIDE DEF Keyed, n
  <2>1. entries \in [1 .. n -> {entries[i] : i \in 1 .. n}]
    OBVIOUS
  <2> HIDE DEF entries
  <2>2. QED BY <1>1, <2>1, SeqDef
<1> HIDE DEF entries, map, n
<1>5. Firsts(map, entries, n)
  BY <1>2, <1>4, FirstsAreInserted
<1>6. \A i \in 1 .. n : \A j \in 1 .. i - 1 : j \in 1 .. n
  BY <1>1
<1>7. \A name : name \in DOMAIN map <=> \E i \in 1 .. n : HasList(name, kind, i)
  BY <1>3, <1>5 DEF Firsts
<1>8. ASSUME NEW name \in DOMAIN map
      PROVE  \E i \in 1 .. n : /\ HasList(name, kind, i) /\ map[name] = configured[i][kind] \ {""}
                               /\ \A j \in 1 .. i - 1 : ~HasList(name, kind, j)
  <2>1. PICK i \in 1 .. n : /\ name \in entries[i].keys /\ map[name] = entries[i].value
                            /\ \A j \in 1 .. i - 1 : name \notin entries[j].keys
    BY <1>5 DEF Firsts
  <2>2. QED BY <1>3, <1>6, <2>1
<1>9. map = [x \in DOMAIN map |-> map[x]]
  BY <1>5 DEF Firsts
<1>10. QED BY <1>7, <1>8, <1>9 DEF map, n

BlocksOf(name, kind, values) ==
  \E i \in 1 .. Len(configured) :
    /\ HasList(name, kind, i) /\ \A j \in 1 .. i - 1 : ~HasList(name, kind, j)
    /\ values \cap (configured[i][kind] \ {""}) # {}

\* What the job has made, as long as the libraries are there.
TablesMade ==
  /\ loaded \in {Libraries, Tail(Libraries)}
  /\ systemToFactory = DRM!Designated(loaded)
  /\ codecs = DRM!Blacklist("codecs") /\ types = DRM!Blacklist("types")
  /\ initialized = [n \in DRM!Names |-> DRM!Initializations(loaded, n)]

SystemsInv ==
  /\ configured \in SystemConfigs
  /\ \/ systemToFactory = <<>> /\ system \notin {"loaded", "listens", "deaf"}
     \/ TablesMade /\ system \notin {"none", "queued"}
  /\ deinitialized = [n \in DRM!Names |-> IF system \in {"stopping", "gone"} THEN DRM!Deinitializations(n) ELSE 0]

LEMMA ConfigIsFinite ==
  ASSUME configured \in SystemConfigs
  PROVE  /\ configured \in Seq({configured[i] : i \in 1 .. Len(configured)}) /\ Len(configured) \in Nat
         /\ \A i \in 1 .. Len(configured) : IsFiniteSet(configured[i].designators)
<1>1. configured \in Seq({configured[i] : i \in DOMAIN configured})
  BY SystemsAssumption
<1>2. DOMAIN configured = 1 .. Len(configured) /\ Len(configured) \in Nat
  BY <1>1
<1>3. QED BY <1>1, <1>2, SystemsAssumption

LEMMA BlockedIfListed ==
  ASSUME configured \in SystemConfigs, NEW kind, NEW name, NEW values
  PROVE  LET map == DRM!Blacklist(kind)
         IN  /\ map # <<>> <=> \E i \in 1 .. Len(configured) : kind \in configured[i].has
             /\ name \in DOMAIN map /\ values \cap map[name] # {} <=> BlocksOf(name, kind, values)
<1> DEFINE n == Len(configured)
           map == DRM!Blacklist(kind)
<1>1. n \in Nat
  BY ConfigIsFinite
<1>2. /\ map = [x \in DOMAIN map |-> map[x]]
      /\ \A m : m \in DOMAIN map <=> \E i \in 1 .. n : HasList(m, kind, i)
      /\ \A m \in DOMAIN map : \E i \in 1 .. n : /\ HasList(m, kind, i) /\ map[m] = configured[i][kind] \ {""}
                                                 /\ \A j \in 1 .. i - 1 : ~HasList(m, kind, j)
  BY ConfigIsFinite, ListedFirst
<1> HIDE DEF map, n
<1>3. map # <<>> <=> \E i \in 1 .. n : kind \in configured[i].has
  <2>1. map # <<>> <=> DOMAIN map # {}
    <3>1. ASSUME DOMAIN map = {} PROVE map = <<>>
      <4>1. map \in [1 .. 0 -> {}]
        BY <1>2, <3>1
      <4>2. map \in Seq({})
        BY <4>1, SeqDef
      <4>3. Len(map) = 0
        BY <4>1, <4>2
      <4>4. QED BY <4>2, <4>3, EmptySeq
    <3>2. QED BY <3>1
  <2>2. ASSUME NEW i \in 1 .. n, kind \in configured[i].has PROVE configured[i].name \in DOMAIN map
    BY <1>2, <2>2 DEF HasList
  <2>3. ASSUME NEW m \in DOMAIN map PROVE \E i \in 1 .. n : kind \in configured[i].has
    BY <1>2 DEF HasList
  <2>4. QED BY <2>1, <2>2, <2>3
<1>4. ASSUME name \in DOMAIN map
      PROVE  values \cap map[name] # {} <=> BlocksOf(name, kind, values)
  <2>1. PICK i \in 1 .. n : /\ HasList(name, kind, i) /\ map[name] = configured[i][kind] \ {""}
                            /\ \A j \in 1 .. i - 1 : ~HasList(name, kind, j)
    BY <1>2, <1>4
  <2>2. ASSUME NEW k \in 1 .. n, HasList(name, kind, k), \A j \in 1 .. k - 1 : ~HasList(name, kind, j)
        PROVE  k = i
    <3>1. k \in Nat /\ i \in Nat /\ 1 <= i /\ 1 <= k
      BY <1>1
    <3>2. (i < k => i \in 1 .. k - 1) /\ (k < i => k \in 1 .. i - 1)
      BY <3>1
    <3>3. ~(i < k) /\ ~(k < i)
      BY <2>1, <2>2, <3>2
    <3>4. QED BY <3>1, <3>3
  <2>3. QED BY <2>1, <2>2 DEF BlocksOf, n
<1>5. name \notin DOMAIN map => ~BlocksOf(name, kind, values)
  BY <1>2 DEF BlocksOf, n
<1>6. QED BY <1>3, <1>4, <1>5 DEF map, n

\* The system of a designator has a factory that was initialized.
LEMMA ServedIsInitialized ==
  ASSUME configured \in SystemConfigs, TablesMade, NEW d \in DOMAIN systemToFactory
  PROVE  /\ systemToFactory[d] \in DRM!Names
         /\ initialized[systemToFactory[d]] > 0
<1> DEFINE n == Len(configured)
<1>1. n \in Nat
  BY ConfigIsFinite
<1>2. PICK i \in 1 .. n : Serves(loaded, d, i) /\ systemToFactory[d] = configured[i].name
  BY ConfigIsFinite, DesignatedFirst DEF TablesMade
<1> DEFINE name == configured[i].name
           Inits == {j \in 1 .. n : configured[j].name = name /\ "designators" \in configured[j].has}
<1>3. name \in DRM!ToSet(loaded)
  BY <1>2 DEF Serves
<1>4. DRM!ToSet(loaded) \subseteq DRM!Names
  <2>1. Libraries \in Seq(STRING) /\ Libraries # <<>>
    BY SystemsAssumption
  <2>2. CASE loaded = Libraries
    BY <2>2 DEF DRM!Names
  <2>3. CASE loaded = Tail(Libraries)
    <3>1. /\ DOMAIN loaded = 1 .. Len(Libraries) - 1 /\ Len(Libraries) \in Nat /\ DOMAIN Libraries = 1 .. Len(Libraries)
          /\ \A k \in 1 .. Len(Libraries) - 1 : loaded[k] = Libraries[k + 1] /\ k + 1 \in 1 .. Len(Libraries)
      BY <2>1, <2>3
    <3>2. QED BY <3>1 DEF DRM!Names, DRM!ToSet
  <2>4. QED BY <2>2, <2>3 DEF TablesMade
<1>5. name \in DRM!Names
  BY <1>3, <1>4
<1>6. initialized[name] = DRM!Initializations(loaded, name)
  BY <1>5 DEF TablesMade
<1>7. DRM!Initializations(loaded, name) = Cardinality(Inits)
  BY <1>3 DEF DRM!Initializations, DRM!Cardinality, Cardinality
<1>8. i \in Inits
  BY <1>2 DEF Serves
<1>9. IsFiniteSet(Inits)
  <2>1. IsFiniteSet(1 .. n) /\ Inits \subseteq 1 .. n
    BY <1>1, FS_Interval
  <2>2. QED BY <2>1, FS_Subset
<1> HIDE DEF Inits
<1>10. Cardinality(Inits) \in Nat /\ Cardinality(Inits) # 0
  BY <1>8, <1>9, FS_EmptySet, FS_CardinalityType
<1>11. QED BY <1>2, <1>5, <1>6, <1>7, <1>10

LEMMA DeinitializedOnce ==
  ASSUME SystemsInv, NEW name
  PROVE  DRM!Deinitializations(name) = DRM!Min({1, DRM!Cardinality(DRM!Designators(name))})
<1> DEFINE D == DRM!Designators(name)
           n == Len(configured)
           All == UNION {configured[i].designators : i \in 1 .. n}
<1>1. n \in Nat /\ \A i \in 1 .. n : IsFiniteSet(configured[i].designators)
  BY ConfigIsFinite DEF SystemsInv
<1>2. IsFiniteSet(All)
  <2>1. IsFiniteSet(1 .. n)
    BY <1>1, FS_Interval
  <2>2. IsFiniteSet({configured[i].designators : i \in 1 .. n})
    <3> DEFINE Sets == {configured[i].designators : i \in 1 .. n}
               f == [i \in 1 .. n |-> configured[i].designators]
    <3>1. f \in Surjection(1 .. n, Sets)
      BY DEF Surjection
    <3> HIDE DEF f, Sets
    <3>2. IsFiniteSet(Sets)
      BY <2>1, <3>1, FS_Surjection
    <3>3. QED BY <3>2 DEF Sets
  <2>3. QED BY <1>1, <2>2, FS_UNION
<1>3. D \subseteq All
  <2>1. CASE systemToFactory = <<>>
    BY <2>1 DEF DRM!Designators
  <2>2. CASE TablesMade
    <3>1. ASSUME NEW d \in DOMAIN systemToFactory PROVE d \in All
      <4>1. PICK i \in 1 .. n : Serves(loaded, d, i)
        BY <2>2, ConfigIsFinite, DesignatedFirst DEF TablesMade, SystemsInv
      <4>2. QED BY <4>1 DEF Serves
    <3>2. QED BY <3>1 DEF DRM!Designators
  <2>3. QED BY <2>1, <2>2 DEF SystemsInv
<1> HIDE DEF D, All, n
<1>4. IsFiniteSet(D) /\ Cardinality(D) \in Nat /\ (D = {} <=> Cardinality(D) = 0)
  BY <1>2, <1>3, FS_Subset, FS_CardinalityType, FS_EmptySet
<1>5. DRM!Cardinality(D) = Cardinality(D)
  BY DEF DRM!Cardinality, Cardinality
<1>6. DRM!Min({1, Cardinality(D)}) = IF Cardinality(D) = 0 THEN 0 ELSE 1
  <2> DEFINE c == Cardinality(D)
             least == IF c = 0 THEN 0 ELSE 1
  <2> HIDE DEF c
  <2>1. c \in Nat
    BY <1>4 DEF c
  <2>2. least \in {1, c} /\ \A y \in {1, c} : least <= y
    BY <2>1
  <2>3. DRM!Min({1, c}) = CHOOSE x \in {1, c} : \A y \in {1, c} : x <= y
    BY DEF DRM!Min
  <2>4. \A x \in {1, c} : (\A y \in {1, c} : x <= y) => x = least
    BY <2>1
  <2>5. DRM!Min({1, c}) = least
    BY <2>2, <2>3, <2>4
  <2>6. QED BY <2>5 DEF c
<1>7. DRM!Deinitializations(name) = IF D = {} THEN 0 ELSE 1
  BY DEF DRM!Deinitializations, D
<1>8. QED BY <1>4, <1>5, <1>6, <1>7 DEF D

LEMMA SystemsBegin ==
  ASSUME DRM!Init
  PROVE  SystemsInv
BY DEF DRM!Init, SystemsInv

LEMMA SystemsStep ==
  ASSUME SystemsInv, DRM!Next \/ UNCHANGED drmVars
  PROVE  SystemsInv'
<1>1. CASE DRM!Initialize
  BY <1>1 DEF DRM!Initialize, SystemsInv, TablesMade
<1>2. CASE DRM!InitializeAsync
  <2>1. /\ system = "queued" /\ system' = "loaded" /\ UNCHANGED <<configured, deinitialized>>
        /\ loaded' \in {Libraries, Tail(Libraries)}
        /\ systemToFactory' = DRM!Designated(loaded')
        /\ initialized' = [n \in DRM!Names |-> DRM!Initializations(loaded', n)]
        /\ codecs' = DRM!Blacklist("codecs") /\ types' = DRM!Blacklist("types")
    BY <1>2 DEF DRM!InitializeAsync
  <2>2. systemToFactory' = DRM!Designated(loaded)'
    BY <2>1 DEF DRM!Designated, DRM!Inserted
  <2>3. codecs' = DRM!Blacklist("codecs")' /\ types' = DRM!Blacklist("types")'
    BY <2>1 DEF DRM!Blacklist, DRM!Inserted
  <2>4. initialized' = [n \in DRM!Names |-> DRM!Initializations(loaded, n)']
    BY <2>1 DEF DRM!Initializations
  <2>5. TablesMade'
    BY <2>1, <2>2, <2>3, <2>4 DEF TablesMade
  <2>6. QED BY <2>1, <2>5 DEF SystemsInv
<1>3. CASE DRM!Listens
  <2>1. UNCHANGED <<configured, loaded, systemToFactory, codecs, types, initialized, deinitialized>>
    BY <1>3 DEF DRM!Listens
  <2>2. TablesMade' <=> TablesMade
    BY <2>1 DEF TablesMade, DRM!Designated, DRM!Blacklist, DRM!Inserted, DRM!Initializations
  <2>3. QED BY <1>3, <2>1, <2>2 DEF SystemsInv, DRM!Listens
<1>4. CASE DRM!Deinitialize
  <2>1. /\ UNCHANGED <<configured, loaded, systemToFactory, codecs, types, initialized>>
        /\ system \in {"queued", "listens", "deaf"} /\ system' = "stopping"
        /\ deinitialized' = [n \in DRM!Names |-> deinitialized[n] + DRM!Deinitializations(n)]
    BY <1>4 DEF DRM!Deinitialize
  <2>2. TablesMade' <=> TablesMade
    BY <2>1 DEF TablesMade, DRM!Designated, DRM!Blacklist, DRM!Inserted, DRM!Initializations
  <2>3. \A n : DRM!Deinitializations(n)' = DRM!Deinitializations(n)
    BY <2>1 DEF DRM!Deinitializations, DRM!Designators
  <2>4. \A n : DRM!Deinitializations(n) \in Nat
    BY DEF DRM!Deinitializations
  <2>5. \A n \in DRM!Names : deinitialized[n] + DRM!Deinitializations(n) = DRM!Deinitializations(n)
    BY <2>1, <2>4 DEF SystemsInv
  <2>6. deinitialized' = [n \in DRM!Names |-> DRM!Deinitializations(n)']
    BY <2>1, <2>3, <2>5
  <2>7. QED BY <2>1, <2>2, <2>6 DEF SystemsInv
<1>5. CASE DRM!Released \/ UNCHANGED drmVars
  <2>1. UNCHANGED <<configured, loaded, systemToFactory, codecs, types, initialized, deinitialized>>
    BY <1>5 DEF DRM!Released, drmVars
  <2>2. TablesMade' <=> TablesMade
    BY <2>1 DEF TablesMade, DRM!Designated, DRM!Blacklist, DRM!Inserted, DRM!Initializations
  <2>3. \A n : DRM!Deinitializations(n)' = DRM!Deinitializations(n)
    BY <2>1 DEF DRM!Deinitializations, DRM!Designators
  <2>4. system' = system \/ (system = "stopping" /\ system' = "gone")
    BY <1>5 DEF DRM!Released, drmVars
  <2>5. QED BY <2>1, <2>2, <2>3, <2>4 DEF SystemsInv
<1>6. QED BY <1>1, <1>2, <1>3, <1>4, <1>5 DEF DRM!Next

\* What IsTypeSupported answers, said of the configuration.
LEMMA SupportedIfServed ==
  ASSUME configured \in SystemConfigs, TablesMade, NEW d, NEW c
  PROVE  LET Both == \A kind \in {"types", "codecs"} : \E i \in 1 .. Len(configured) : kind \in configured[i].has
         IN  DRM!IsTypeSupported(d, c) <=>
               \E i \in 1 .. Len(configured) :
                 /\ Serves(loaded, d, i) /\ \A j \in 1 .. i - 1 : ~Serves(loaded, d, j)
                 /\ \/ c.type = "" \/ ~Both
                    \/ /\ ~BlocksOf(configured[i].name, "types", {c.type})
                       /\ ~BlocksOf(configured[i].name, "codecs", c.codecs)
<1> DEFINE n == Len(configured)
           Both == \A kind \in {"types", "codecs"} : \E i \in 1 .. n : kind \in configured[i].has
           Free(name) == \/ c.type = "" \/ ~Both
                         \/ /\ ~BlocksOf(name, "types", {c.type})
                            /\ ~BlocksOf(name, "codecs", c.codecs)
<1>1. ASSUME NEW name PROVE Free(name) <=> ~DRM!Blocked(name, c)
  <2>1. /\ types # <<>> <=> \E i \in 1 .. n : "types" \in configured[i].has
        /\ codecs # <<>> <=> \E i \in 1 .. n : "codecs" \in configured[i].has
    BY BlockedIfListed DEF TablesMade
  <2>2. /\ name \in DOMAIN types /\ {c.type} \cap types[name] # {} <=> BlocksOf(name, "types", {c.type})
        /\ name \in DOMAIN codecs /\ c.codecs \cap codecs[name] # {} <=> BlocksOf(name, "codecs", c.codecs)
    BY BlockedIfListed DEF TablesMade
  <2>3. {c.type} \cap types[name] # {} <=> c.type \in types[name]
    OBVIOUS
  <2>4. DRM!Blocked(name, c) <=>
          /\ codecs # <<>> /\ types # <<>> /\ c.type # ""
          /\ \/ name \in DOMAIN types /\ c.type \in types[name]
             \/ name \in DOMAIN codecs /\ c.codecs \cap codecs[name] # {}
    BY DEF DRM!Blocked
  <2>5. QED BY <2>1, <2>2, <2>3, <2>4
<1> HIDE DEF Free, n
<1>2. n \in Nat
  BY ConfigIsFinite DEF n
<1>3. /\ d \in DOMAIN systemToFactory <=> \E i \in 1 .. n : Serves(loaded, d, i)
      /\ d \in DOMAIN systemToFactory => \E i \in 1 .. n :
           /\ Serves(loaded, d, i) /\ systemToFactory[d] = configured[i].name
           /\ \A j \in 1 .. i - 1 : ~Serves(loaded, d, j)
  BY ConfigIsFinite, DesignatedFirst DEF TablesMade, n
<1>4. CASE d \in DOMAIN systemToFactory
  <2>1. PICK i \in 1 .. n : /\ Serves(loaded, d, i) /\ systemToFactory[d] = configured[i].name
                            /\ \A j \in 1 .. i - 1 : ~Serves(loaded, d, j)
    BY <1>3, <1>4
  <2>2. DRM!IsTypeSupported(d, c) <=> Free(configured[i].name)
    BY <1>1, <1>4, <2>1 DEF DRM!IsTypeSupported
  <2>3. ASSUME NEW k \in 1 .. n, Serves(loaded, d, k), \A j \in 1 .. k - 1 : ~Serves(loaded, d, j)
        PROVE  k = i
    <3>1. k \in Nat /\ i \in Nat /\ 1 <= i /\ 1 <= k
      BY <1>2
    <3>2. (i < k => i \in 1 .. k - 1) /\ (k < i => k \in 1 .. i - 1)
      BY <3>1
    <3>3. ~(i < k) /\ ~(k < i)
      BY <2>1, <2>3, <3>2
    <3>4. QED BY <3>1, <3>3
  <2>4. DRM!IsTypeSupported(d, c) <=>
          \E k \in 1 .. n : /\ Serves(loaded, d, k) /\ \A j \in 1 .. k - 1 : ~Serves(loaded, d, j)
                            /\ Free(configured[k].name)
    BY <2>1, <2>2, <2>3
  <2>5. QED BY <2>4 DEF Free, n
<1>5. CASE d \notin DOMAIN systemToFactory
  BY <1>3, <1>5 DEF DRM!IsTypeSupported, n
<1>6. QED BY <1>4, <1>5

LEMMA SystemsWork ==
  ASSUME SystemsInv
  PROVE  DRM!OfferedSystemsWork
<1> USE DEF SystemsInv
<1>1. CASE system = "listens"
  <2>0. configured \in SystemConfigs /\ TablesMade
    BY <1>1
  <2>1. \A n \in DRM!Names : deinitialized[n] = 0
    BY <1>1
  <2>2. ASSUME NEW i \in 1 .. Len(DRM!Drms), DRM!Drms[i].designators # {}
        PROVE  initialized[DRM!Drms[i].name] > 0 /\ deinitialized[DRM!Drms[i].name] = 0
    <3>1. PICK d \in DOMAIN systemToFactory : systemToFactory[d] = DRM!Drms[i].name
      <4>1. Len(loaded) \in Nat
        BY <2>0, SystemsAssumption DEF TablesMade
      <4>2. i \in 1 .. Len(loaded)
        BY <4>1 DEF DRM!Drms, DRM!Systems
      <4>3. /\ DRM!Drms[i].name = loaded[i]
            /\ DRM!Drms[i].designators = {d \in DOMAIN systemToFactory : systemToFactory[d] = loaded[i]}
        BY <4>2 DEF DRM!Drms, DRM!Systems, DRM!Designators
      <4>4. QED BY <2>2, <4>3
    <3>2. QED BY <2>0, <2>1, <3>1, ServedIsInitialized
  <2>3. ASSUME NEW d, NEW n \in DRM!Forwarded(d)
        PROVE  d \in DRM!Designators(n) /\ initialized[n] > 0
    <3>1. d \in DOMAIN systemToFactory /\ n = systemToFactory[d]
      BY DEF DRM!Forwarded, DRM!KeySystem
    <3>2. QED BY <2>0, <3>1, ServedIsInitialized DEF DRM!Designators
  <2>4. \A d, c : LET Both == \A kind \in {"types", "codecs"} : \E i \in 1 .. Len(configured) : kind \in configured[i].has
                  IN  DRM!IsTypeSupported(d, c) <=>
                        \E i \in 1 .. Len(configured) :
                          /\ Serves(loaded, d, i) /\ \A j \in 1 .. i - 1 : ~Serves(loaded, d, j)
                          /\ \/ c.type = "" \/ ~Both
                             \/ /\ ~BlocksOf(configured[i].name, "types", {c.type})
                                /\ ~BlocksOf(configured[i].name, "codecs", c.codecs)
    BY <2>0, SupportedIfServed
  <2> HIDE DEF SystemsInv
  <2>5. QED
    BY <1>1, <2>2, <2>3, <2>4 DEF DRM!OfferedSystemsWork, Serves, BlocksOf, HasList
<1>2. CASE system \in {"stopping", "gone"}
  <2>1. ASSUME NEW n \in DRM!Names PROVE deinitialized[n] = DRM!Deinitializations(n)
    BY <1>2
  <2>2. ASSUME NEW n \in DRM!Names, deinitialized[n] > 0 PROVE initialized[n] > 0
    <3>1. DRM!Designators(n) # {}
      BY <2>1, <2>2 DEF DRM!Deinitializations
    <3>2. PICK d \in DOMAIN systemToFactory : systemToFactory[d] = n
      BY <3>1 DEF DRM!Designators
    <3>3. TablesMade
      BY <3>2
    <3>4. QED BY <3>2, <3>3, ServedIsInitialized
  <2>3. \A n \in DRM!Names : deinitialized[n] = DRM!Min({1, DRM!Cardinality(DRM!Designators(n))})
    BY <2>1, DeinitializedOnce
  <2> HIDE DEF SystemsInv
  <2>4. QED BY <1>2, <2>2, <2>3 DEF DRM!OfferedSystemsWork
<1>3. CASE system \notin {"listens", "stopping", "gone"}
  BY <1>3 DEF DRM!OfferedSystemsWork
<1>4. QED BY <1>1, <1>2, <1>3

\* For any libraries and any configuration, with designators claimed twice, systems
\* without a library and black lists of one kind or several: clients are offered what
\* the configuration says, by factories that are initialized then and deinitialized once.
THEOREM SystemsAreInOrder == MCSpec => []OfferedSystemsWork
<1>1. MCInit => SystemsInv
  BY SystemsBegin DEF MCInit
<1>2. SystemsInv /\ [MCNext]_<<group, vars, sessionVars, drmVars>> => SystemsInv'
  <2> SUFFICES ASSUME SystemsInv, [MCNext]_<<group, vars, sessionVars, drmVars>>
               PROVE  SystemsInv'
    OBVIOUS
  <2>1. DRM!Next \/ UNCHANGED drmVars
    BY DEF MCNext
  <2>2. QED BY <2>1, SystemsStep
<1>3. SystemsInv => OfferedSystemsWork
  BY SystemsWork DEF OfferedSystemsWork
<1>4. QED BY <1>1, <1>2, <1>3, PTL DEF MCSpec

-----------------------------------------------------------------------------
(* The keys of a session.  A fold of the parser is a loop, as above: here  *)
(* for any step.                                                           *)
LEMMA FirstSets ==
  ASSUME NEW n \in Nat
  PROVE  /\ 1 .. n \in SUBSET (1 .. n) /\ 1 .. 0 = {} /\ {} \in SUBSET (1 .. n)
         /\ \A k \in 1 .. n :
              /\ 1 .. k \in SUBSET (1 .. n) /\ 1 .. k # {} /\ (1 .. k) \ {k} = 1 .. k - 1 /\ k \in 1 .. k
              /\ DRM!Max(1 .. k) = k /\ k \in 0 .. n /\ k - 1 \in 0 .. n
<1>1. ASSUME NEW k \in 1 .. n
      PROVE  /\ 1 .. k \in SUBSET (1 .. n) /\ 1 .. k # {} /\ (1 .. k) \ {k} = 1 .. k - 1 /\ k \in 1 .. k
             /\ DRM!Max(1 .. k) = k /\ k \in 0 .. n /\ k - 1 \in 0 .. n
  <2>1. /\ 1 .. k \in SUBSET (1 .. n) /\ (1 .. k) \ {k} = 1 .. k - 1
        /\ k \in 0 .. n /\ k - 1 \in 0 .. n /\ k \in 1 .. k /\ k \in Nat
    BY FirstOnes
  <2>2. 1 .. k # {}
    BY <2>1
  <2>3. DRM!Max(1 .. k) \in 1 .. k /\ k <= DRM!Max(1 .. k)
    BY <2>1, <2>2, MaxOf
  <2>4. DRM!Max(1 .. k) = k
    BY <2>1, <2>3
  <2>5. QED BY <2>1, <2>2, <2>4
<1>2. 1 .. 0 = {}
  OBVIOUS
<1>3. QED BY <1>1, <1>2

IsFold(h, n, T, base, step) ==
  /\ h \in [SUBSET (1 .. n) -> T]
  /\ \A s \in SUBSET (1 .. n) :
       h[s] = IF s = {} THEN base ELSE step[<<h[s \ {DRM!Max(s)}], DRM!Max(s)>>]

LEMMA FoldExists ==
  ASSUME NEW n \in Nat, NEW T, NEW base \in T, NEW step \in [T \X (1 .. n) -> T]
  PROVE  \E h : IsFold(h, n, T, base, step)
<1> USE DEF IsFold
<1> DEFINE Loops(h, k) == IsFold(h, k, T, base, step)
           Reached == {k \in 0 .. n : \E h : Loops(h, k)}
<1>1. 0 \in Reached
  <2> DEFINE h == [s \in SUBSET (1 .. 0) |-> base]
  <2>1. \A s \in SUBSET (1 .. 0) : s = {}
    OBVIOUS
  <2>2. Loops(h, 0)
    BY <2>1
  <2> HIDE DEF h, Loops
  <2>3. QED BY <2>2
<1>2. ASSUME NEW k \in 1 .. n, k - 1 \in Reached PROVE k \in Reached
  <2>1. PICK h : Loops(h, k - 1)
    BY <1>2
  <2>2. /\ k \in 1 .. k /\ (1 .. k) \ {k} = 1 .. k - 1 /\ k \in Nat /\ k \in 0 .. n
        /\ 1 .. k \in SUBSET (1 .. n)
    BY FirstSets
  <2>3. {} \in SUBSET (1 .. k - 1) /\ h[{}] = base
    BY <2>1
  <2>4. ASSUME NEW s \in SUBSET (1 .. k) PROVE k \notin s => s \in SUBSET (1 .. k - 1)
    BY <2>2
  <2>5. ASSUME NEW s \in SUBSET (1 .. k) PROVE s \ {k} \in SUBSET (1 .. k - 1)
    BY <2>2
  <2> DEFINE i == [s \in SUBSET (1 .. k) |-> IF k \in s THEN step[<<h[s \ {k}], k>>] ELSE h[s]]
  <2>6. i \in [SUBSET (1 .. k) -> T]
    <3>1. ASSUME NEW s \in SUBSET (1 .. k) PROVE (IF k \in s THEN step[<<h[s \ {k}], k>>] ELSE h[s]) \in T
      <4>1. h[s \ {k}] \in T
        BY <2>1, <2>5
      <4>2. step[<<h[s \ {k}], k>>] \in T
        BY <4>1
      <4>3. k \notin s => h[s] \in T
        BY <2>1, <2>4
      <4>4. QED BY <4>2, <4>3
    <3>2. QED BY <3>1
  <2>7. ASSUME NEW s \in SUBSET (1 .. k)
        PROVE  i[s] = IF s = {} THEN base ELSE step[<<i[s \ {DRM!Max(s)}], DRM!Max(s)>>]
    <3>1. CASE s = {}
      BY <2>3, <3>1
    <3>2. CASE k \in s
      <4>1. DRM!Max(s) \in s /\ \A x \in s : x <= DRM!Max(s)
        BY <2>2, <3>2, MaxOf
      <4>2. DRM!Max(s) \in 1 .. k /\ k <= DRM!Max(s)
        BY <3>2, <4>1
      <4>3. DRM!Max(s) = k
        BY <4>2
      <4>4. s \ {k} \in SUBSET (1 .. k) /\ k \notin s \ {k}
        OBVIOUS
      <4>5. i[s \ {k}] = h[s \ {k}]
        BY <4>4
      <4>6. i[s] = step[<<h[s \ {k}], k>>]
        BY <3>2
      <4> HIDE DEF i
      <4>7. QED BY <3>2, <4>3, <4>5, <4>6
    <3>3. CASE s # {} /\ k \notin s
      <4>1. s \in SUBSET (1 .. k - 1) /\ s \ {DRM!Max(s)} \in SUBSET (1 .. k) /\ k \notin s \ {DRM!Max(s)}
        BY <2>4, <3>3
      <4>2. h[s] = step[<<h[s \ {DRM!Max(s)}], DRM!Max(s)>>]
        BY <2>1, <3>3, <4>1
      <4>3. i[s] = h[s]
        BY <3>3
      <4>4. i[s \ {DRM!Max(s)}] = h[s \ {DRM!Max(s)}]
        BY <4>1
      <4> HIDE DEF i
      <4>5. QED BY <3>3, <4>2, <4>3, <4>4
    <3>4. QED BY <3>1, <3>2, <3>3
  <2>8. Loops(i, k)
    <3> HIDE DEF i
    <3>1. QED BY <2>6, <2>7
  <2> HIDE DEF i, Loops
  <2>9. QED BY <2>2, <2>8
<1>3. n \in Reached
  <2> HIDE DEF Reached
  <2>1. \A k \in 0 .. n : k \in Reached
    BY <1>1, <1>2, LoopInduction
  <2>2. n \in 0 .. n
    OBVIOUS
  <2>3. QED BY <2>1, <2>2
<1>4. QED BY <1>3

\* What a list of keys says: which key was named for which drm.  It has each key
\* once, and nothing was told of it.
Statuses == {"Pending", "Usable", "Expired", "InternalError"}

KeyRecord == [id : Keys, systems : SUBSET Session!systemType, status : Statuses]

Says(list, pairs) ==
  /\ list \in Seq(KeyRecord)
  /\ \A i, j \in 1 .. Len(list) : list[i].id = list[j].id => i = j
  /\ \A i \in 1 .. Len(list) :
       /\ list[i].status = "Pending" /\ list[i].systems # {}
       /\ \A s \in Session!systemType : s \in list[i].systems <=> <<list[i].id, s>> \in pairs
  /\ \A k \in Keys, s \in Session!systemType : <<k, s>> \in pairs => \E i \in 1 .. Len(list) : list[i].id = k

LEMMA RecordIs ==
  /\ \A k \in Keys, s \in Session!systemType : [id |-> k, systems |-> {s}, status |-> "Pending"] \in KeyRecord
  /\ \A r \in KeyRecord :
       /\ r.id \in Keys /\ r.systems \in SUBSET Session!systemType /\ r.status \in Statuses
       /\ \A s \in Session!systemType :
            LET wider == [r EXCEPT !.systems = @ \cup {s}]
            IN  /\ wider \in KeyRecord /\ wider.id = r.id /\ wider.status = r.status
                /\ wider.systems = r.systems \cup {s}
       /\ \A s \in Statuses :
            LET other == [r EXCEPT !.status = s]
            IN  /\ other \in KeyRecord /\ other.id = r.id /\ other.status = s
                /\ other.systems = r.systems
<1>1. ASSUME NEW k \in Keys, NEW s \in Session!systemType
      PROVE  [id |-> k, systems |-> {s}, status |-> "Pending"] \in KeyRecord
  <2>1. \A S : \A x \in S : {x} \in SUBSET S
    OBVIOUS
  <2>2. {s} \in SUBSET Session!systemType
    BY <2>1
  <2>3. "Pending" \in Statuses
    BY DEF Statuses
  <2>4. QED BY <2>2, <2>3 DEF KeyRecord
<1>2. ASSUME NEW r \in KeyRecord
      PROVE  r.id \in Keys /\ r.systems \in SUBSET Session!systemType /\ r.status \in Statuses
  BY DEF KeyRecord
<1>3. ASSUME NEW r \in KeyRecord, NEW s \in Session!systemType
      PROVE  LET wider == [r EXCEPT !.systems = @ \cup {s}]
             IN  /\ wider \in KeyRecord /\ wider.id = r.id /\ wider.status = r.status
                 /\ wider.systems = r.systems \cup {s}
  <2>1. r.systems \cup {s} \in SUBSET Session!systemType
    BY <1>2
  <2>2. QED BY <2>1 DEF KeyRecord
<1>4. ASSUME NEW r \in KeyRecord, NEW s \in Statuses
      PROVE  LET other == [r EXCEPT !.status = s]
             IN  /\ other \in KeyRecord /\ other.id = r.id /\ other.status = s
                 /\ other.systems = r.systems
  BY DEF KeyRecord
<1>5. QED BY <1>1, <1>2, <1>3, <1>4

\* The lists that the parser makes.
KeyLists == {l \in Seq(KeyRecord) : \E P : Says(l, P)}

LEMMA KeyListsAre == \A l, P : Says(l, P) => l \in KeyLists
BY DEF Says, KeyLists

LEMMA NothingSays == Says(<<>>, {})
BY DEF Says

\* Only the pairs that are pairs of a key and a drm count.
LEMMA SaysTheSame ==
  ASSUME NEW list, NEW P, NEW Q, Says(list, P),
         \A k \in Keys, s \in Session!systemType : <<k, s>> \in P <=> <<k, s>> \in Q
  PROVE  Says(list, Q)
<1>1. \A i \in 1 .. Len(list) : list[i].id \in Keys
  BY RecordIs DEF Says
<1>2. QED BY <1>1 DEF Says

LEMMA AddKeySays ==
  ASSUME NEW list, NEW P, Says(list, P), NEW key \in Keys, NEW drm \in Session!systemType
  PROVE  Says(Session!AddKeyId(list, key, drm), P \cup ({key} \X {drm}))
<1> DEFINE new == Session!AddKeyId(list, key, drm)
           Q == P \cup ({key} \X {drm})
           n == Len(list)
<1>1. /\ list \in Seq(KeyRecord) /\ n \in Nat
      /\ \A i \in 1 .. n : list[i] \in KeyRecord /\ list[i].id \in Keys /\ list[i].systems \in SUBSET Session!systemType
  BY RecordIs DEF Says
<1>2. \A k, s : <<k, s>> \in Q <=> <<k, s>> \in P \/ (k = key /\ s = drm)
  OBVIOUS
<1> HIDE DEF Q
<1>3. CASE Session!Has(list, key)
  <2> DEFINE changed == [i \in 1 .. n |-> IF list[i].id = key THEN [list[i] EXCEPT !.systems = @ \cup {drm}]
                                                             ELSE list[i]]
  <2>1. new = changed
    BY <1>3 DEF Session!AddKeyId
  <2>2. ASSUME NEW i \in 1 .. n
        PROVE  /\ changed[i] \in KeyRecord
               /\ changed[i].id = list[i].id /\ changed[i].status = list[i].status
               /\ changed[i].systems = IF list[i].id = key THEN list[i].systems \cup {drm} ELSE list[i].systems
    BY <1>1, RecordIs
  <2>3. changed \in [1 .. n -> KeyRecord]
    BY <2>2
  <2>4. changed \in Seq(KeyRecord) /\ Len(changed) = n
    BY <1>1, <2>3
  <2> HIDE DEF changed
  <2>5. \A i, j \in 1 .. n : changed[i].id = changed[j].id => i = j
    BY <2>2 DEF Says
  <2>6. ASSUME NEW i \in 1 .. n
        PROVE  /\ changed[i].status = "Pending" /\ changed[i].systems # {}
               /\ \A s \in Session!systemType : s \in changed[i].systems <=> <<changed[i].id, s>> \in Q
    <3>1. /\ list[i].status = "Pending" /\ list[i].systems # {}
          /\ \A s \in Session!systemType : s \in list[i].systems <=> <<list[i].id, s>> \in P
      BY DEF Says
    <3>2. QED BY <1>2, <2>2, <3>1
  <2>7. ASSUME NEW k \in Keys, NEW s \in Session!systemType, <<k, s>> \in Q
        PROVE  \E i \in 1 .. n : changed[i].id = k
    <3>1. \E i \in 1 .. n : list[i].id = k
      BY <1>2, <1>3, <2>7 DEF Says, Session!Has
    <3>2. QED BY <2>2, <3>1
  <2>8. Says(changed, Q)
    BY <2>4, <2>5, <2>6, <2>7 DEF Says
  <2>9. QED BY <2>1, <2>8 DEF Q
<1>4. CASE ~Session!Has(list, key)
  <2> DEFINE e == [id |-> key, systems |-> {drm}, status |-> "Pending"]
             longer == Append(list, e)
  <2>1. new = longer
    BY <1>4 DEF Session!AddKeyId
  <2>2. e \in KeyRecord /\ e.id = key /\ e.systems = {drm} /\ e.status = "Pending"
    BY RecordIs
  <2> HIDE DEF e
  <2>3. /\ longer \in Seq(KeyRecord) /\ Len(longer) = n + 1 /\ longer[n + 1] = e
        /\ \A i \in 1 .. n : longer[i] = list[i]
    BY <1>1, <2>2, AppendProperties
  <2> HIDE DEF longer
  <2>4. \A i \in 1 .. n + 1 : i \in 1 .. n \/ i = n + 1
    BY <1>1
  <2>5. \A i \in 1 .. n : list[i].id # key
    BY <1>4 DEF Session!Has
  <2>6. \A i, j \in 1 .. n + 1 : longer[i].id = longer[j].id => i = j
    BY <2>2, <2>3, <2>4, <2>5 DEF Says
  <2>7. \A s \in Session!systemType : <<key, s>> \notin P
    BY <2>5 DEF Says
  <2>8. ASSUME NEW i \in 1 .. n + 1
        PROVE  /\ longer[i].status = "Pending" /\ longer[i].systems # {}
               /\ \A s \in Session!systemType : s \in longer[i].systems <=> <<longer[i].id, s>> \in Q
    <3>1. CASE i = n + 1
      BY <1>2, <2>2, <2>3, <2>7, <3>1
    <3>2. CASE i \in 1 .. n
      <4>1. /\ list[i].status = "Pending" /\ list[i].systems # {}
            /\ \A s \in Session!systemType : s \in list[i].systems <=> <<list[i].id, s>> \in P
        BY <3>2 DEF Says
      <4>2. QED BY <1>2, <2>3, <2>5, <3>2, <4>1
    <3>3. QED BY <2>4, <3>1, <3>2
  <2>9. ASSUME NEW k \in Keys, NEW s \in Session!systemType, <<k, s>> \in Q
        PROVE  \E i \in 1 .. n + 1 : longer[i].id = k
    <3>1. k = key \/ \E i \in 1 .. n : list[i].id = k
      BY <1>2, <2>9 DEF Says
    <3>2. n + 1 \in 1 .. n + 1 /\ \A i \in 1 .. n : i \in 1 .. n + 1
      BY <1>1
    <3>3. QED BY <2>2, <2>3, <3>1, <3>2
  <2>10. Says(longer, Q)
    BY <2>3, <2>6, <2>8, <2>9 DEF Says
  <2>11. QED BY <2>1, <2>10 DEF Q
<1>5. QED BY <1>3, <1>4

\* If each step adds pairs, so does the loop.
Adds(g, n, Q) == \A k \in 1 .. n : \A R : Says(g[k - 1], R) => Says(g[k], R \cup Q[k])

Sum(P, Q, n) == P \cup UNION {Q[k] : k \in 1 .. n}

LEMMA SaysInALoop ==
  ASSUME NEW n \in Nat, NEW g, NEW P, NEW Q, Says(g[0], P), Adds(g, n, Q)
  PROVE  Says(g[n], Sum(P, Q, n))
<1> DEFINE Reached == {k \in 0 .. n : Says(g[k], Sum(P, Q, k))}
<1>1. 0 \in Reached
  <2>1. Sum(P, Q, 0) = P
    BY DEF Sum
  <2>2. QED BY <2>1
<1>2. ASSUME NEW k \in 1 .. n, k - 1 \in Reached PROVE k \in Reached
  <2>1. Says(g[k], Sum(P, Q, k - 1) \cup Q[k])
    BY <1>2 DEF Adds
  <2>2. (1 .. k - 1) \cup {k} = 1 .. k
    BY FirstSets
  <2>3. Sum(P, Q, k - 1) \cup Q[k] = Sum(P, Q, k)
    BY <2>2 DEF Sum
  <2>4. k \in 0 .. n
    OBVIOUS
  <2>5. QED BY <2>1, <2>3, <2>4
<1>3. n \in Reached
  <2> HIDE DEF Reached
  <2>1. \A k \in 0 .. n : k \in Reached
    BY <1>1, <1>2, LoopInduction
  <2>2. QED BY <2>1
<1>4. QED BY <1>3

LEMMA AddKeyIdsLoop ==
  ASSUME NEW list \in KeyLists, NEW keys \in Seq(Keys), NEW drm \in Session!systemType
  PROVE  \E g : /\ g[0] = list
                /\ \A k \in 1 .. Len(keys) : g[k] = Session!AddKeyId(g[k - 1], keys[k], drm)
                /\ Session!AddKeyIds(list, keys, drm) = g[Len(keys)]
<1> DEFINE n == Len(keys)
           Step(l, k) == Session!AddKeyId(l, keys[k], drm)
           Loops(h) == h = [s \in SUBSET (1 .. n) |->
                              IF s = {} THEN list ELSE Step(h[s \ {DRM!Max(s)}], DRM!Max(s))]
<1>1. n \in Nat /\ DOMAIN keys = 1 .. n
  OBVIOUS
<1>2. Session!AddKeyIds(list, keys, drm) = (CHOOSE h : Loops(h))[1 .. n]
  <2>1. Session!AddKeyIds(list, keys, drm) =
          (CHOOSE h : h = [s \in SUBSET (DOMAIN keys) |->
                             IF s = {} THEN list ELSE Step(h[s \ {DRM!Max(s)}], DRM!Max(s))])[DOMAIN keys]
    BY DEF Session!AddKeyIds, Session!FoldLeft, Session!MapThenFoldSet, Session!Max, DRM!Max
  <2>2. QED BY <2>1, <1>1
<1>3. \E h : Loops(h)
  <2> DEFINE T == KeyLists
             step == [x \in T \X (1 .. n) |-> Step(x[1], x[2])]
  <2>1. ASSUME NEW l \in T, NEW k \in 1 .. n PROVE Step(l, k) \in T
    <3>1. keys[k] \in Keys
      OBVIOUS
    <3>2. PICK P : Says(l, P)
      BY DEF KeyLists
    <3>3. Says(Step(l, k), P \cup ({keys[k]} \X {drm}))
      BY <3>1, <3>2, AddKeySays
    <3> HIDE DEF Step
    <3>4. QED BY <3>3, KeyListsAre
  <2>2. list \in T
    OBVIOUS
  <2> HIDE DEF Step, T
  <2>3. step \in [T \X (1 .. n) -> T]
    BY <2>1
  <2>4. \A l \in T, k \in 1 .. n : step[<<l, k>>] = Step(l, k)
    OBVIOUS
  <2> HIDE DEF step, n
  <2>5. PICK h : IsFold(h, n, T, list, step)
    BY <1>1, <2>2, <2>3, FoldExists
  <2>6. ASSUME NEW s \in SUBSET (1 .. n)
        PROVE  h[s] = IF s = {} THEN list ELSE Step(h[s \ {DRM!Max(s)}], DRM!Max(s))
    <3>1. s # {} => DRM!Max(s) \in 1 .. n
      BY <1>1, MaxOf
    <3>2. h[s \ {DRM!Max(s)}] \in T
      BY <2>5 DEF IsFold
    <3>3. QED BY <2>4, <2>5, <3>1, <3>2 DEF IsFold
  <2>7. Loops(h)
    BY <2>5, <2>6 DEF IsFold
  <2> HIDE DEF Loops
  <2>8. QED BY <2>7
<1> HIDE DEF Step
<1>4. PICK h : Loops(h) /\ Session!AddKeyIds(list, keys, drm) = h[1 .. n]
  BY <1>2, <1>3
<1> DEFINE g == [k \in 0 .. n |-> h[1 .. k]]
<1> HIDE DEF n
<1>5. g[0] = list /\ g[n] = h[1 .. n]
  <2>1. 1 .. 0 = {} /\ {} \in SUBSET (1 .. n) /\ 0 \in 0 .. n /\ n \in 0 .. n
    BY <1>1
  <2>2. h[{}] = list
    BY <1>4, <2>1
  <2>3. g[0] = h[1 .. 0] /\ g[n] = h[1 .. n]
    BY <2>1
  <2> HIDE DEF g
  <2>4. QED BY <2>1, <2>2, <2>3
<1>6. ASSUME NEW k \in 1 .. n PROVE g[k] = Step(g[k - 1], k)
  <2>1. /\ 1 .. k \in SUBSET (1 .. n) /\ 1 .. k # {} /\ (1 .. k) \ {k} = 1 .. k - 1 /\ DRM!Max(1 .. k) = k
        /\ k \in 0 .. n /\ k - 1 \in 0 .. n
    BY <1>1, FirstSets
  <2>2. h[1 .. k] = Step(h[(1 .. k) \ {DRM!Max(1 .. k)}], DRM!Max(1 .. k))
    BY <1>4, <2>1
  <2>3. g[k] = h[1 .. k] /\ g[k - 1] = h[1 .. k - 1]
    BY <2>1
  <2> HIDE DEF g
  <2>4. QED BY <2>1, <2>2, <2>3
<1> HIDE DEF g
<1>7. QED BY <1>4, <1>5, <1>6 DEF n, Step

LEMMA AddKeysSay ==
  ASSUME NEW list, NEW P, Says(list, P), NEW keys \in Seq(Keys), NEW drm \in Session!systemType
  PROVE  Says(Session!AddKeyIds(list, keys, drm), P \cup ({keys[i] : i \in 1 .. Len(keys)} \X {drm}))
<1> DEFINE n == Len(keys)
           Q == [k \in 1 .. n |-> {keys[k]} \X {drm}]
<1>1. list \in KeyLists /\ n \in Nat
  BY KeyListsAre
<1>2. PICK g : /\ g[0] = list
               /\ \A k \in 1 .. n : g[k] = Session!AddKeyId(g[k - 1], keys[k], drm)
               /\ Session!AddKeyIds(list, keys, drm) = g[n]
  BY <1>1, AddKeyIdsLoop
<1>3. ASSUME NEW k \in 1 .. n, NEW R, Says(g[k - 1], R) PROVE Says(g[k], R \cup Q[k])
  <2>1. keys[k] \in Keys /\ Q[k] = {keys[k]} \X {drm}
    OBVIOUS
  <2> HIDE DEF Q
  <2>2. Says(Session!AddKeyId(g[k - 1], keys[k], drm), R \cup ({keys[k]} \X {drm}))
    BY <1>3, <2>1, AddKeySays
  <2>3. QED BY <1>2, <2>1, <2>2
<1>4. Says(g[n], Sum(P, Q, n))
  <2> HIDE DEF Q, n
  <2>1. Says(g[0], P) /\ n \in Nat
    BY <1>1, <1>2
  <2>2. Adds(g, n, Q)
    BY <1>3 DEF Adds
  <2>3. QED BY <2>1, <2>2, SaysInALoop
<1>5. Sum(P, Q, n) = P \cup ({keys[i] : i \in 1 .. n} \X {drm})
  BY DEF Sum
<1> HIDE DEF Q, n
<1>6. QED BY <1>2, <1>4, <1>5 DEF n

-----------------------------------------------------------------------------
\* The first place of a tag.
LEMMA MinOf ==
  ASSUME NEW Some, Some \subseteq Nat, Some # {}
  PROVE  Session!Min(Some) \in Some /\ \A x \in Some : Session!Min(Some) <= x
<1>1. \E m \in Some : \A x \in Some : m <= x
  BY LeastNatural
<1>2. QED BY <1>1 DEF Session!Min

LEMMA FindIs ==
  ASSUME NEW xml, Len(xml) \in Nat, NEW t, NEW from \in Nat
  PROVE  LET k == Session!FindInXML(xml, t, from)
         IN  \/ k = 0 /\ \A j \in from .. Len(xml) : xml[j] # t
             \/ k \in from .. Len(xml) /\ xml[k] = t /\ \A j \in from .. k - 1 : xml[j] # t
<1> DEFINE I == {i \in from .. Len(xml) : xml[i] = t}
           k == Session!FindInXML(xml, t, from)
<1>1. k = IF I # {} THEN Session!Min(I) ELSE 0
  BY DEF Session!FindInXML, Session!SelectInSubSeq, Session!Min
<1>2. I \subseteq Nat
  OBVIOUS
<1>3. CASE I = {}
  BY <1>1, <1>3
<1>4. CASE I # {}
  <2>1. k \in I /\ \A x \in I : k <= x
    <3> HIDE DEF I
    <3>1. QED BY <1>1, <1>2, <1>4, MinOf
  <2> HIDE DEF k
  <2>2. k \in from .. Len(xml) /\ xml[k] = t
    BY <2>1
  <2>3. ASSUME NEW j \in from .. k - 1 PROVE xml[j] # t
    <3>1. j \in from .. Len(xml) /\ ~(k <= j)
      BY <2>2
    <3>2. QED BY <2>1, <3>1
  <2>4. QED BY <2>2, <2>3 DEF k
<1>5. QED BY <1>3, <1>4

\* An element that is closed.
Element(xml, tag, b, e) ==
  /\ b \in 1 .. Len(xml) /\ xml[b] = tag
  /\ e \in b + 1 .. Len(xml) /\ xml[e] = "</KID>" /\ \A j \in b + 1 .. e - 1 : xml[j] # "</KID>"

\* Where the key of an element is.
KeyAt(xml, b, e, j) ==
  /\ j \in b + 1 .. e - 1 /\ xml[j] \in Keys
  /\ \/ j = b + 1 /\ \A i \in b + 1 .. e : xml[i] # "VALUE"
     \/ j > b + 1 /\ xml[j - 1] = "VALUE" /\ \A i \in b + 1 .. j - 2 : xml[i] # "VALUE"

LEMMA ValueIs ==
  ASSUME NEW xml, Len(xml) \in Nat, NEW tag, NEW b, NEW e, Element(xml, tag, b, e)
  PROVE  LET keys == Session!Value(xml, b, e)
         IN  /\ keys \in Seq(Keys)
             /\ \A x : (\E i \in 1 .. Len(keys) : keys[i] = x) <=> \E j : xml[j] = x /\ KeyAt(xml, b, e, j)
<1> DEFINE value == Session!FindInXML(xml, "VALUE", b + 1)
           at == 1 + (IF value \in 1 .. e THEN value ELSE b)
           keys == Session!Value(xml, b, e)
<1>1. keys = IF at < e /\ xml[at] \in Keys THEN <<xml[at]>> ELSE <<>>
  BY DEF Session!Value
<1>2. /\ b \in Nat /\ e \in Nat /\ 1 <= b /\ b < e /\ e <= Len(xml) /\ b + 1 \in Nat
      /\ xml[e] = "</KID>"
  BY DEF Element
<1>3. \/ value = 0 /\ \A j \in b + 1 .. Len(xml) : xml[j] # "VALUE"
      \/ value \in b + 1 .. Len(xml) /\ xml[value] = "VALUE" /\ \A j \in b + 1 .. value - 1 : xml[j] # "VALUE"
  BY <1>2, FindIs
<1> HIDE DEF value, keys
<1>4. \A j : KeyAt(xml, b, e, j) <=> j = at /\ at < e /\ xml[at] \in Keys
  <2>1. CASE value \in b + 1 .. e
    <3>1. value \in 1 .. e /\ at = value + 1 /\ at \in Nat /\ value < e
      BY <1>2, <1>3, <2>1
    <3> HIDE DEF at
    <3>2. ASSUME NEW j, KeyAt(xml, b, e, j) PROVE j = at
      <4>1. j \in b + 1 .. e - 1 /\ ~(j = b + 1 /\ \A i \in b + 1 .. e : xml[i] # "VALUE")
        BY <1>3, <2>1, <3>2, <1>2 DEF KeyAt
      <4>2. j > b + 1 /\ xml[j - 1] = "VALUE" /\ \A i \in b + 1 .. j - 2 : xml[i] # "VALUE"
        BY <3>2, <4>1 DEF KeyAt
      <4>3. j \in Nat /\ j - 1 \in b + 1 .. e
        BY <1>2, <4>1, <4>2
      <4>4. ~(j - 1 < value)
        BY <1>2, <1>3, <2>1, <4>2, <4>3
      <4>5. ~(value < j - 1)
        BY <1>2, <1>3, <2>1, <4>2, <4>3
      <4>6. QED BY <2>1, <3>1, <4>3, <4>4, <4>5
    <3>3. ASSUME at < e, xml[at] \in Keys PROVE KeyAt(xml, b, e, at)
      <4>1. at \in b + 1 .. e - 1 /\ at > b + 1 /\ at - 1 = value /\ at - 2 = value - 1
        BY <1>2, <2>1, <3>1, <3>3
      <4>2. xml[value] = "VALUE" /\ \A i \in b + 1 .. value - 1 : xml[i] # "VALUE"
        BY <1>2, <1>3, <2>1
      <4>3. QED BY <3>3, <4>1, <4>2 DEF KeyAt
    <3>4. ASSUME NEW j, KeyAt(xml, b, e, j) PROVE at < e /\ xml[at] \in Keys
      BY <1>2, <3>1, <3>2, <3>4 DEF KeyAt
    <3>5. QED BY <3>2, <3>3, <3>4
  <2>2. CASE ~(value \in b + 1 .. e)
    <3>1. \A i \in b + 1 .. e : xml[i] # "VALUE"
      BY <1>2, <1>3, <2>2
    <3>2. at = b + 1
      BY <1>2, <1>3, <2>2
    <3> HIDE DEF at
    <3>3. ASSUME NEW j, KeyAt(xml, b, e, j) PROVE j = b + 1
      <4>1. j \in b + 1 .. e - 1
        BY <3>3 DEF KeyAt
      <4>2. j > b + 1 => j - 1 \in b + 1 .. e
        BY <1>2, <4>1
      <4>3. QED BY <3>1, <3>3, <4>2 DEF KeyAt
    <3>4. QED BY <1>2, <3>1, <3>2, <3>3 DEF KeyAt
  <2>3. QED BY <2>1, <2>2
<1>5. CASE at < e /\ xml[at] \in Keys
  <2>1. keys = <<xml[at]>>
    BY <1>1, <1>5
  <2> HIDE DEF at
  <2>2. keys \in Seq(Keys) /\ Len(keys) = 1 /\ keys[1] = xml[at]
    BY <1>5, <2>1
  <2>3. QED BY <1>4, <1>5, <2>2 DEF keys
<1>6. CASE ~(at < e /\ xml[at] \in Keys)
  <2>1. keys = <<>>
    BY <1>1, <1>6
  <2>2. keys \in Seq(Keys) /\ Len(keys) = 0
    BY <2>1
  <2>3. QED BY <1>4, <1>6, <2>2 DEF keys
<1>7. QED BY <1>5, <1>6

\* The loops go through a text from its start; induction goes from its end.
LEMMA InductionBack ==
  ASSUME NEW n \in Nat, NEW Good, \A i \in 1 .. n : (\A j \in i + 1 .. n : j \in Good) => i \in Good
  PROVE  \A i \in 1 .. n : i \in Good
<1> DEFINE Bad == {i \in 1 .. n : i \notin Good}
<1>1. SUFFICES ASSUME Bad # {} PROVE FALSE
  OBVIOUS
<1>2. DRM!Max(Bad) \in Bad /\ \A x \in Bad : x <= DRM!Max(Bad)
  <2>1. Bad \subseteq 1 .. n
    OBVIOUS
  <2> HIDE DEF Bad
  <2>2. QED BY <1>1, <2>1, MaxOf
<1> DEFINE i == DRM!Max(Bad)
<1>3. i \in 1 .. n /\ i \notin Good
  BY <1>2
<1>4. ASSUME NEW j \in i + 1 .. n PROVE j \in Good
  <2>1. j \in 1 .. n /\ ~(j <= i)
    BY <1>3
  <2>2. j \notin Bad
    BY <1>2, <2>1
  <2>3. QED BY <2>1, <2>2
<1> HIDE DEF i
<1>5. QED BY <1>3, <1>4

IsLoopBack(h, from, n, T, jump, halt, step) ==
  /\ h \in [from .. n -> T]
  /\ \A i \in from .. n : h[i] = IF jump[i] = 0 THEN halt[i] ELSE step[<<i, h[jump[i]]>>]

LEMMA LoopBackExists ==
  ASSUME NEW n \in Nat, NEW T, NEW jump, NEW halt \in [1 .. n -> T], NEW step \in [(1 .. n) \X T -> T],
         \A i \in 1 .. n : jump[i] = 0 \/ jump[i] \in i + 1 .. n
  PROVE  \A i \in 1 .. n : \E h : IsLoopBack(h, i, n, T, jump, halt, step)
<1> DEFINE Loops(h, i) == IsLoopBack(h, i, n, T, jump, halt, step)
           Good == {i \in 1 .. n : \E h : Loops(h, i)}
<1>1. ASSUME NEW i \in 1 .. n, \A j \in i + 1 .. n : j \in Good PROVE i \in Good
  <2>1. PICK h : i # n => Loops(h, i + 1)
    <3>1. i # n => i + 1 \in i + 1 .. n
      OBVIOUS
    <3>2. i # n => \E h : Loops(h, i + 1)
      BY <1>1, <3>1
    <3> HIDE DEF Loops
    <3>3. QED BY <3>2
  <2>2. /\ \A j \in i .. n : j \in 1 .. n /\ (j # i => j \in i + 1 .. n /\ i # n)
        /\ \A j \in i + 1 .. n : j \in i .. n /\ j # i /\ i # n
    OBVIOUS
  <2>3. ASSUME NEW j \in i + 1 .. n PROVE h[j] \in T /\ h[j] = IF jump[j] = 0 THEN halt[j] ELSE step[<<j, h[jump[j]]>>]
    BY <2>1, <2>2 DEF IsLoopBack
  <2>4. /\ jump[i] = 0 \/ jump[i] \in i + 1 .. n
        /\ \A j \in i + 1 .. n : jump[j] = 0 \/ (jump[j] \in i + 1 .. n)
    OBVIOUS
  <2> DEFINE f == [j \in i .. n |-> IF j # i THEN h[j] ELSE IF jump[i] = 0 THEN halt[i] ELSE step[<<i, h[jump[i]]>>]]
  <2>5. i \in i .. n /\ f[i] = IF jump[i] = 0 THEN halt[i] ELSE step[<<i, h[jump[i]]>>]
    OBVIOUS
  <2>6. \A j \in i + 1 .. n : f[j] = h[j]
    BY <2>2
  <2>7. f[i] \in T
    BY <2>3, <2>4, <2>5
  <2>8. f = [j \in i .. n |-> f[j]]
    OBVIOUS
  <2> HIDE DEF f
  <2>9. ASSUME NEW j \in i .. n PROVE f[j] \in T
    BY <2>2, <2>3, <2>6, <2>7
  <2>10. f \in [i .. n -> T]
    BY <2>8, <2>9
  <2>11. ASSUME NEW j \in i .. n PROVE f[j] = IF jump[j] = 0 THEN halt[j] ELSE step[<<j, f[jump[j]]>>]
    <3>1. CASE j = i
      BY <2>4, <2>5, <2>6, <3>1
    <3>2. CASE j # i
      BY <2>2, <2>3, <2>4, <2>6, <3>2
    <3>3. QED BY <3>1, <3>2
  <2>12. Loops(f, i)
    BY <2>10, <2>11 DEF IsLoopBack
  <2> HIDE DEF Loops
  <2>13. QED BY <2>12
<1>2. \A i \in 1 .. n : i \in Good
  <2> HIDE DEF Good
  <2>1. QED BY <1>1, InductionBack
<1>3. QED BY <1>2

\* Where a loop finds an element, and where its close is.
Opens(tag, xml, i) == Session!FindInXML(xml, tag, i)
Closes(tag, xml, i) == Session!FindInXML(xml, "</KID>", Opens(tag, xml, i) + 1)

LEMMA OpensIs ==
  ASSUME NEW tag, NEW xml, Len(xml) \in Nat, NEW i \in 1 .. Len(xml) + 1
  PROVE  LET b == Opens(tag, xml, i)
             e == Closes(tag, xml, i)
         IN  \/ b = 0 /\ \A j \in i .. Len(xml) : xml[j] # tag
             \/ /\ b \in i .. Len(xml) /\ xml[b] = tag /\ \A j \in i .. b - 1 : xml[j] # tag
                /\ \/ e = 0 /\ \A j \in b + 1 .. Len(xml) : xml[j] # "</KID>"
                   \/ Element(xml, tag, b, e) /\ e + 1 \in i + 1 .. Len(xml) + 1
<1> DEFINE b == Opens(tag, xml, i)
           e == Closes(tag, xml, i)
<1>1. \/ b = 0 /\ \A j \in i .. Len(xml) : xml[j] # tag
      \/ b \in i .. Len(xml) /\ xml[b] = tag /\ \A j \in i .. b - 1 : xml[j] # tag
  <2>1. i \in Nat
    OBVIOUS
  <2>2. QED BY <2>1, FindIs DEF Opens
<1>2. CASE b = 0
  BY <1>1, <1>2
<1>3. CASE b # 0
  <2>1. b \in i .. Len(xml) /\ b + 1 \in Nat /\ b \in 1 .. Len(xml)
    BY <1>1, <1>3
  <2>2. \/ e = 0 /\ \A j \in b + 1 .. Len(xml) : xml[j] # "</KID>"
        \/ e \in b + 1 .. Len(xml) /\ xml[e] = "</KID>" /\ \A j \in b + 1 .. e - 1 : xml[j] # "</KID>"
    BY <2>1, FindIs DEF Closes
  <2> HIDE DEF b, e
  <2>3. e \in b + 1 .. Len(xml) => e + 1 \in i + 1 .. Len(xml) + 1
    BY <2>1
  <2>4. QED BY <1>1, <1>3, <2>1, <2>2, <2>3 DEF b, e, Element
<1>4. QED BY <1>2, <1>3

LEMMA ValueIsList ==
  ASSUME NEW xml, NEW b, NEW e
  PROVE  Session!Value(xml, b, e) \in Seq(Keys)
<1> DEFINE value == Session!FindInXML(xml, "VALUE", b + 1)
           at == 1 + (IF value \in 1 .. e THEN value ELSE b)
<1>1. Session!Value(xml, b, e) = IF at < e /\ xml[at] \in Keys THEN <<xml[at]>> ELSE <<>>
  BY DEF Session!Value
<1> HIDE DEF at
<1>2. QED BY <1>1

IsPass(f, tag, xml) ==
  /\ \A i \in 1 .. Len(xml) + 1 :
       LET b == Opens(tag, xml, i)
           e == Closes(tag, xml, i)
       IN  f[i] = IF b = 0 THEN [keys |-> <<>>, next |-> i]
                  ELSE IF e = 0 THEN [keys |-> <<>>, next |-> Len(xml) + 1]
                  ELSE [keys |-> Session!Value(xml, b, e) \o f[e + 1].keys, next |-> f[e + 1].next]
  /\ \A i : Session!Pass(tag, xml, i) = f[i]

LEMMA PassLoop ==
  ASSUME NEW tag, NEW xml, Len(xml) \in Nat
  PROVE  \E f : IsPass(f, tag, xml)
<1> DEFINE n == Len(xml) + 1
           Begin(i) == Opens(tag, xml, i)
           End(i) == Closes(tag, xml, i)
           Rule(f, i) == IF Begin(i) = 0 THEN [keys |-> <<>>, next |-> i]
                         ELSE IF End(i) = 0 THEN [keys |-> <<>>, next |-> n]
                         ELSE [keys |-> Session!Value(xml, Begin(i), End(i)) \o f[End(i) + 1].keys,
                               next |-> f[End(i) + 1].next]
           Loops(f) == f = [i \in 1 .. n |-> Rule(f, i)]
<1>1. \A i : Session!Pass(tag, xml, i) = (CHOOSE f : Loops(f))[i]
  BY DEF Session!Pass, Opens, Closes
<1>2. \E f : Loops(f)
  <2> DEFINE T == [keys : Seq(Keys), next : Nat]
             jump == [i \in 1 .. n |-> IF Begin(i) = 0 \/ End(i) = 0 THEN 0 ELSE End(i) + 1]
             halt == [i \in 1 .. n |-> [keys |-> <<>>, next |-> IF Begin(i) = 0 THEN i ELSE n]]
             step == [x \in (1 .. n) \X T |->
                        [keys |-> Session!Value(xml, Begin(x[1]), End(x[1])) \o x[2].keys, next |-> x[2].next]]
  <2>1. n \in Nat
    OBVIOUS
  <2>2. halt \in [1 .. n -> T]
    <3>1. <<>> \in Seq(Keys)
      OBVIOUS
    <3>2. ASSUME NEW i \in 1 .. n PROVE [keys |-> <<>>, next |-> IF Begin(i) = 0 THEN i ELSE n] \in T
      BY <2>1, <3>1
    <3> HIDE DEF T
    <3>3. QED BY <3>2
  <2>3. step \in [(1 .. n) \X T -> T]
    <3>1. ASSUME NEW i \in 1 .. n, NEW r \in T
          PROVE  [keys |-> Session!Value(xml, Begin(i), End(i)) \o r.keys, next |-> r.next] \in T
      <4>1. Session!Value(xml, Begin(i), End(i)) \in Seq(Keys) /\ r.keys \in Seq(Keys) /\ r.next \in Nat
        BY ValueIsList
      <4>2. Session!Value(xml, Begin(i), End(i)) \o r.keys \in Seq(Keys)
        BY <4>1, ConcatProperties
      <4>3. QED BY <4>1, <4>2
    <3> HIDE DEF T
    <3>2. QED BY <3>1
  <2>4. ASSUME NEW i \in 1 .. n PROVE jump[i] = 0 \/ jump[i] \in i + 1 .. n
    BY OpensIs DEF Opens, Closes, Element
  <2>5. ASSUME NEW i \in 1 .. n, NEW r \in T
        PROVE  step[<<i, r>>] = [keys |-> Session!Value(xml, Begin(i), End(i)) \o r.keys, next |-> r.next]
    OBVIOUS
  <2>6. \A i \in 1 .. n : /\ jump[i] = IF Begin(i) = 0 \/ End(i) = 0 THEN 0 ELSE End(i) + 1
                          /\ halt[i] = [keys |-> <<>>, next |-> IF Begin(i) = 0 THEN i ELSE n]
    OBVIOUS
  <2>7. ASSUME NEW i \in 1 .. n, Begin(i) # 0, End(i) # 0 PROVE End(i) + 1 # 0
    <3>1. End(i) + 1 \in i + 1 .. n
      BY <2>7, OpensIs
    <3>2. i + 1 > 0
      OBVIOUS
    <3> HIDE DEF End
    <3>3. QED BY <3>1, <3>2
  <2> HIDE DEF jump, halt, step, T, Begin, End, n
  <2>8. \A i \in 1 .. n : \E h : IsLoopBack(h, i, n, T, jump, halt, step)
    BY <2>1, <2>2, <2>3, <2>4, LoopBackExists
  <2>9. 1 \in 1 .. n
    BY DEF n
  <2>10. PICK h : IsLoopBack(h, 1, n, T, jump, halt, step)
    BY <2>8, <2>9
  <2>11. ASSUME NEW i \in 1 .. n PROVE h[i] = Rule(h, i)
    <3>1. h[i] = IF jump[i] = 0 THEN halt[i] ELSE step[<<i, h[jump[i]]>>]
      BY <2>10 DEF IsLoopBack
    <3>2. CASE jump[i] = 0
      <4>1. Begin(i) = 0 \/ End(i) = 0
        BY <2>6, <2>7, <3>2
      <4>2. QED BY <2>6, <3>1, <3>2, <4>1
    <3>3. CASE jump[i] # 0
      <4>1. jump[i] = End(i) + 1 /\ Begin(i) # 0 /\ End(i) # 0 /\ jump[i] \in 1 .. n
        <5>1. jump[i] \in i + 1 .. n
          BY <2>4, <3>3
        <5>2. jump[i] \in 1 .. n
          BY <2>1, <5>1
        <5>3. Begin(i) # 0 /\ End(i) # 0
          BY <2>6, <3>3
        <5>4. jump[i] = End(i) + 1
          BY <2>6, <5>3
        <5>5. QED BY <5>2, <5>3, <5>4
      <4>2. h[jump[i]] \in T
        BY <2>10, <4>1 DEF IsLoopBack
      <4>3. h[i] = step[<<i, h[jump[i]]>>]
        BY <3>1, <3>3
      <4>4. QED BY <2>5, <4>1, <4>2, <4>3
    <3>4. QED BY <3>2, <3>3
  <2>12. h = [i \in 1 .. n |-> Rule(h, i)]
    <3>1. h = [i \in 1 .. n |-> h[i]]
      BY <2>10 DEF IsLoopBack
    <3> HIDE DEF Rule
    <3>2. QED BY <2>11, <3>1
  <2> HIDE DEF Rule
  <2>13. QED BY <2>12
<1>3. PICK f : Loops(f) /\ \A i : Session!Pass(tag, xml, i) = f[i]
  <2> HIDE DEF Rule
  <2>1. QED BY <1>1, <1>2
<1>4. \A i \in 1 .. n : f[i] = Rule(f, i)
  <2> HIDE DEF Rule
  <2>1. QED BY <1>3
<1>5. QED BY <1>3, <1>4 DEF IsPass

Holds(s, x) == \E i \in 1 .. Len(s) : s[i] = x

LEMMA ConcatHolds ==
  ASSUME NEW S, NEW s \in Seq(S), NEW t \in Seq(S)
  PROVE  s \o t \in Seq(S) /\ \A x : Holds(s \o t, x) <=> Holds(s, x) \/ Holds(t, x)
<1> DEFINE u == s \o t
<1>1. /\ u \in Seq(S) /\ Len(u) = Len(s) + Len(t) /\ Len(s) \in Nat /\ Len(t) \in Nat
      /\ \A i \in 1 .. Len(s) + Len(t) : u[i] = IF i <= Len(s) THEN s[i] ELSE t[i - Len(s)]
  BY ConcatProperties
<1> HIDE DEF u
<1>2. ASSUME NEW i \in 1 .. Len(s) PROVE i \in 1 .. Len(u) /\ u[i] = s[i]
  BY <1>1
<1>3. ASSUME NEW i \in 1 .. Len(t) PROVE i + Len(s) \in 1 .. Len(u) /\ u[i + Len(s)] = t[i]
  <2>1. i + Len(s) \in 1 .. Len(s) + Len(t) /\ ~(i + Len(s) <= Len(s)) /\ i + Len(s) - Len(s) = i
    BY <1>1
  <2>2. QED BY <1>1, <2>1
<1>4. ASSUME NEW i \in 1 .. Len(u)
      PROVE  (i \in 1 .. Len(s) /\ u[i] = s[i]) \/ (i - Len(s) \in 1 .. Len(t) /\ u[i] = t[i - Len(s)])
  BY <1>1
<1>5. QED BY <1>1, <1>2, <1>3, <1>4 DEF u, Holds

Tag == {"<KID>", "<KID..>"}

\* What a text of PlayReady is.
LEMMA TextIs ==
  ASSUME NEW xml, Session!WellFormedText(xml)
  PROVE  /\ Len(xml) \in Nat
         /\ \A k \in Keys : k \notin Tag /\ k # "VALUE" /\ k # "</KID>"
         /\ \A i, j \in 1 .. Len(xml) :
              /\ i < j /\ xml[i] = "<KID..>" => xml[j] # "<KID>"
              /\ i < j /\ xml[i] \in Tag /\ xml[j] \in Tag => \E e \in i + 1 .. j - 1 : xml[e] = "</KID>"
              /\ i < j /\ xml[i] \in {"<KID>", "VALUE"} /\ xml[j] = "VALUE"
                   => \E e \in i + 1 .. j - 1 : xml[e] = "</KID>"
              /\ xml[i] = "<KID..>" /\ j = i + 1 => xml[j] \notin Keys
         /\ \A j \in 1 .. Len(xml) : xml[j] = "VALUE" =>
              \E b \in 1 .. Len(xml) : b < j /\ xml[b] = "<KID..>" /\ \A e \in b + 1 .. j - 1 : xml[e] # "</KID>"
<1> DEFINE Tags == {"<KID>", "<KID..>"}
           At(i, t) == i \in 1 .. Len(xml) /\ xml[i] \in t
           Within(i, j) == i < j /\ ~\E e \in i + 1 .. j - 1 : At(e, {"</KID>"})
<1>1. /\ xml \in Seq({xml[i] : i \in DOMAIN xml}) /\ Keys \cap (Tags \cup {"VALUE", "</KID>"}) = {}
      /\ \A i, j \in 1 .. Len(xml) :
           /\ i < j => ~(At(i, {"<KID..>"}) /\ At(j, {"<KID>"}))
           /\ Within(i, j) => ~(At(i, Tags) /\ At(j, Tags)) /\ ~(At(i, {"<KID>", "VALUE"}) /\ At(j, {"VALUE"}))
           /\ At(i, {"<KID..>"}) /\ j = i + 1 => ~At(j, Keys)
           /\ At(j, {"VALUE"}) => \E b \in 1 .. Len(xml) : At(b, {"<KID..>"}) /\ Within(b, j)
  BY DEF Session!WellFormedText
<1>2. Len(xml) \in Nat
  BY <1>1, LenProperties
<1>3. \A k \in Keys : k \notin Tag /\ k # "VALUE" /\ k # "</KID>"
  BY <1>1 DEF Tag
<1>4. ASSUME NEW i \in 1 .. Len(xml), NEW j \in 1 .. Len(xml)
      PROVE  Within(i, j) <=> i < j /\ \A e \in i + 1 .. j - 1 : xml[e] # "</KID>"
  <2>1. \A e \in i + 1 .. j - 1 : e \in 1 .. Len(xml)
    BY <1>2
  <2>2. QED BY <2>1
<1>5. \A i \in 1 .. Len(xml) : \A t : At(i, t) <=> xml[i] \in t
  OBVIOUS
<1> HIDE DEF At, Within
<1>6. \A i, j \in 1 .. Len(xml) :
        /\ i < j => ~(xml[i] = "<KID..>" /\ xml[j] = "<KID>")
        /\ Within(i, j) => ~(xml[i] \in Tags /\ xml[j] \in Tags) /\ ~(xml[i] \in {"<KID>", "VALUE"} /\ xml[j] = "VALUE")
        /\ xml[i] = "<KID..>" /\ j = i + 1 => xml[j] \notin Keys
        /\ xml[j] = "VALUE" => \E b \in 1 .. Len(xml) : xml[b] = "<KID..>" /\ Within(b, j)
  <2>1. \A x, y : x \in {y} <=> x = y
    OBVIOUS
  <2>2. QED BY <1>1, <1>5, <2>1
<1>7. QED BY <1>2, <1>3, <1>4, <1>6 DEF Tag

\* Elements do not overlap.
LEMMA Apart ==
  ASSUME NEW xml, Session!WellFormedText(xml), NEW s \in Tag, NEW t \in Tag,
         NEW b, NEW e, Element(xml, s, b, e), NEW c, NEW f, Element(xml, t, c, f), b <= c
  PROVE  (b = c /\ e = f) \/ e + 1 <= c
<1>1. /\ Len(xml) \in Nat /\ b \in 1 .. Len(xml) /\ c \in 1 .. Len(xml) /\ xml[b] \in Tag /\ xml[c] \in Tag
      /\ e \in b + 1 .. Len(xml) /\ xml[e] = "</KID>" /\ \A j \in b + 1 .. e - 1 : xml[j] # "</KID>"
      /\ f \in c + 1 .. Len(xml) /\ xml[f] = "</KID>" /\ \A j \in c + 1 .. f - 1 : xml[j] # "</KID>"
  BY TextIs DEF Element
<1>2. CASE b = c
  <2>1. ~(e < f) /\ ~(f < e)
    BY <1>1, <1>2
  <2>2. QED BY <1>1, <1>2, <2>1
<1>3. CASE b < c
  <2>1. PICK d \in b + 1 .. c - 1 : xml[d] = "</KID>"
    BY <1>1, <1>3, TextIs
  <2>2. ~(d < e)
    BY <1>1, <2>1
  <2>3. QED BY <1>1, <2>1, <2>2
<1>4. QED BY <1>1, <1>2, <1>3

\* x is the key of an element from i on.
IsKeyFrom(xml, tag, i, x) ==
  \E b, e, j : Element(xml, tag, b, e) /\ b >= i /\ KeyAt(xml, b, e, j) /\ xml[j] = x

\* A pass finds the keys of the elements from its start on, and the first one does
\* not go beyond any of the others.
Finds(found, xml, tag, i) ==
  /\ found.keys \in Seq(Keys) /\ found.next \in 1 .. Len(xml) + 1
  /\ \A x : Holds(found.keys, x) <=> IsKeyFrom(xml, tag, i, x)
  /\ tag = "<KID>" => \A b, e : Element(xml, "<KID..>", b, e) /\ b >= i => b >= found.next

LEMMA PassFinds ==
  ASSUME NEW xml, Session!WellFormedText(xml), NEW tag \in Tag, NEW from \in 1 .. Len(xml) + 1
  PROVE  Finds(Session!Pass(tag, xml, from), xml, tag, from)
<1> DEFINE n == Len(xml) + 1
           b(i) == Opens(tag, xml, i)
           e(i) == Closes(tag, xml, i)
<1>1. n \in Nat /\ Len(xml) \in Nat
  <2>1. Len(xml) \in Nat
    BY TextIs
  <2>2. QED BY <2>1
<1>2. PICK f : IsPass(f, tag, xml)
  BY <1>1, PassLoop
<1> DEFINE Good == {i \in 1 .. n : Finds(f[i], xml, tag, i)}
<1>3. ASSUME NEW i \in 1 .. n, \A j \in i + 1 .. n : j \in Good PROVE i \in Good
  <2>1. \/ b(i) = 0 /\ \A j \in i .. Len(xml) : xml[j] # tag
        \/ /\ b(i) \in i .. Len(xml) /\ xml[b(i)] = tag /\ \A j \in i .. b(i) - 1 : xml[j] # tag
           /\ \/ e(i) = 0 /\ \A j \in b(i) + 1 .. Len(xml) : xml[j] # "</KID>"
              \/ Element(xml, tag, b(i), e(i)) /\ e(i) + 1 \in i + 1 .. n
    BY <1>1, OpensIs
  <2>2. i \in Nat /\ i \in 1 .. n /\ n \in 1 .. n
    BY <1>1
  <2>3. <<>> \in Seq(Keys) /\ Len(<<>>) = 0
    OBVIOUS
  <2> HIDE DEF b, e
  <2>4. CASE b(i) = 0
    <3>1. f[i] = [keys |-> <<>>, next |-> i]
      BY <1>2, <2>4 DEF IsPass, b, e
    <3>2. f[i].keys = <<>> /\ f[i].next = i
      BY <3>1
    <3>3. ASSUME NEW c, NEW d, Element(xml, tag, c, d), c >= i PROVE FALSE
      <4>1. c \in i .. Len(xml) /\ xml[c] = tag
        BY <1>1, <2>2, <3>3 DEF Element
      <4>2. QED BY <2>1, <2>2, <2>4, <4>1
    <3>4. \A x : ~IsKeyFrom(xml, tag, i, x)
      BY <3>3 DEF IsKeyFrom
    <3>5. /\ f[i].keys \in Seq(Keys) /\ ~\E p \in 1 .. Len(f[i].keys) : TRUE
          /\ f[i].next \in 1 .. Len(xml) + 1 /\ \A c : c >= i => c >= f[i].next
      BY <2>2, <2>3, <3>2
    <3>6. Finds(f[i], xml, tag, i)
      BY <3>4, <3>5 DEF Finds, Holds
    <3>7. QED BY <3>6
  <2>5. CASE b(i) # 0 /\ e(i) = 0
    <3>1. f[i] = [keys |-> <<>>, next |-> n]
      BY <1>2, <2>5 DEF IsPass, b, e
    <3>2. f[i].keys = <<>> /\ f[i].next = n
      BY <3>1
    <3>3. b(i) \in i .. Len(xml) /\ b(i) \in 1 .. Len(xml) /\ xml[b(i)] = tag
          /\ (\A j \in i .. b(i) - 1 : xml[j] # tag) /\ \A j \in b(i) + 1 .. Len(xml) : xml[j] # "</KID>"
      BY <1>1, <2>1, <2>2, <2>5 DEF Element
    <3>4. ASSUME NEW t, NEW c, NEW d, Element(xml, t, c, d), c >= i PROVE c < b(i) /\ t # tag
      <4>1. c \in 1 .. Len(xml) /\ xml[c] = t /\ d \in c + 1 .. Len(xml) /\ xml[d] = "</KID>"
        BY <3>4 DEF Element
      <4>2. ~(d \in b(i) + 1 .. Len(xml))
        BY <3>3, <4>1
      <4>3. c < b(i)
        BY <1>1, <3>3, <4>1, <4>2
      <4>4. c \in i .. b(i) - 1
        BY <1>1, <2>2, <3>3, <3>4, <4>1, <4>3
      <4>5. QED BY <3>3, <4>1, <4>3, <4>4
    <3>5. \A x : ~IsKeyFrom(xml, tag, i, x)
      BY <3>4 DEF IsKeyFrom
    <3>6. ASSUME tag = "<KID>", NEW c, NEW d, Element(xml, "<KID..>", c, d), c >= i PROVE FALSE
      <4>1. c < b(i) /\ c \in 1 .. Len(xml) /\ xml[c] = "<KID..>"
        BY <3>4, <3>6 DEF Element
      <4>2. QED BY <3>3, <3>6, <4>1, TextIs
    <3>7. /\ f[i].keys \in Seq(Keys) /\ ~\E p \in 1 .. Len(f[i].keys) : TRUE
          /\ f[i].next \in 1 .. Len(xml) + 1
      BY <2>2, <2>3, <3>2
    <3>8. Finds(f[i], xml, tag, i)
      BY <3>5, <3>6, <3>7 DEF Finds, Holds
    <3>9. QED BY <3>8
  <2>6. CASE b(i) # 0 /\ e(i) # 0
    <3> DEFINE value == Session!Value(xml, b(i), e(i))
               next == e(i) + 1
               rest == f[next]
    <3>1. /\ b(i) \in i .. Len(xml) /\ Element(xml, tag, b(i), e(i)) /\ next \in i + 1 .. n
          /\ \A j \in i .. b(i) - 1 : xml[j] # tag
      BY <1>1, <2>1, <2>2, <2>6
    <3>2. f[i] = [keys |-> value \o rest.keys, next |-> rest.next]
      BY <1>2, <2>6 DEF IsPass, b, e
    <3>3. f[i].keys = value \o rest.keys /\ f[i].next = rest.next
      BY <3>2
    <3>4. Finds(rest, xml, tag, next)
      BY <1>3, <3>1
    <3>5. /\ value \in Seq(Keys)
          /\ \A x : Holds(value, x) <=> \E j : xml[j] = x /\ KeyAt(xml, b(i), e(i), j)
      BY <1>1, <3>1, ValueIs DEF Holds
    <3>6. /\ b(i) \in Nat /\ e(i) \in Nat /\ next \in Nat /\ b(i) < next /\ b(i) >= i
      BY <1>1, <2>2, <3>1 DEF Element
    <3>7. ASSUME NEW t \in Tag, NEW c, NEW d, Element(xml, t, c, d), c >= b(i)
          PROVE  (c = b(i) /\ d = e(i)) \/ c >= next
      <4>1. c \in Nat /\ b(i) <= c
        BY <3>6, <3>7 DEF Element
      <4>2. QED BY <3>1, <3>6, <3>7, <4>1, Apart
    <3>8. ASSUME NEW c, NEW d, Element(xml, tag, c, d), c >= i PROVE (c = b(i) /\ d = e(i)) \/ c >= next
      <4>1. c \in 1 .. Len(xml) /\ xml[c] = tag
        BY <3>8 DEF Element
      <4>2. ~(c \in i .. b(i) - 1)
        BY <3>1, <4>1
      <4>3. c >= b(i)
        BY <1>1, <2>2, <3>6, <3>8, <4>1, <4>2
      <4>4. QED BY <3>7, <3>8, <4>3
    <3> HIDE DEF value, next, rest
    <3>9. ASSUME NEW x
          PROVE  IsKeyFrom(xml, tag, i, x) <=>
                   (\E j : xml[j] = x /\ KeyAt(xml, b(i), e(i), j)) \/ IsKeyFrom(xml, tag, next, x)
      <4>1. ASSUME NEW c, NEW d, Element(xml, tag, c, d), c >= next PROVE c >= i
        <5>1. c \in Nat
          BY <4>1 DEF Element
        <5>2. QED BY <2>2, <3>6, <4>1, <5>1
      <4>2. QED BY <3>1, <3>6, <3>8, <4>1 DEF IsKeyFrom
    <3>10. rest.keys \in Seq(Keys) /\ \A x : Holds(rest.keys, x) <=> IsKeyFrom(xml, tag, next, x)
      BY <3>4 DEF Finds
    <3>11. /\ f[i].keys \in Seq(Keys)
           /\ \A x : Holds(f[i].keys, x) <=>
                        Holds(value, x) \/ Holds(rest.keys, x)
      <4>1. /\ value \o rest.keys \in Seq(Keys)
            /\ \A x : Holds(value \o rest.keys, x) <=>
                         Holds(value, x) \/ Holds(rest.keys, x)
        BY <3>5, <3>10, ConcatHolds
      <4>2. QED BY <3>3, <4>1
    <3>12. \A x : Holds(f[i].keys, x) <=> IsKeyFrom(xml, tag, i, x)
      BY <3>5, <3>9, <3>10, <3>11
    <3>13. ASSUME tag = "<KID>", NEW c, NEW d, Element(xml, "<KID..>", c, d), c >= i PROVE c >= f[i].next
      <4>1. c \in 1 .. Len(xml) /\ xml[c] = "<KID..>" /\ b(i) \in 1 .. Len(xml) /\ xml[b(i)] = "<KID>" /\ c \in Nat
        <5>1. c \in 1 .. Len(xml) /\ xml[c] = "<KID..>" /\ c \in Nat
          BY <1>1, <3>13 DEF Element
        <5>2. b(i) \in 1 .. Len(xml) /\ xml[b(i)] = "<KID>"
          BY <3>1, <3>13 DEF Element
        <5>3. QED BY <5>1, <5>2
      <4>2. ~(c < b(i)) /\ c # b(i)
        BY <4>1, TextIs
      <4>3. c >= next
        <5>1. c >= b(i)
          BY <1>1, <3>6, <4>1, <4>2
        <5>2. "<KID..>" \in Tag
          BY DEF Tag
        <5>3. QED BY <3>7, <3>13, <4>2, <5>1, <5>2
      <4>4. QED BY <3>3, <3>4, <3>13, <4>3 DEF Finds
    <3>14. Finds(f[i], xml, tag, i)
      BY <3>3, <3>4, <3>11, <3>12, <3>13 DEF Finds
    <3>15. QED BY <3>14
  <2>7. QED BY <2>4, <2>5, <2>6
<1>4. \A i \in 1 .. n : i \in Good
  <2> HIDE DEF Good
  <2>1. QED BY <1>1, <1>3, InductionBack
<1>5. QED BY <1>2, <1>4 DEF IsPass

\* In a text of PlayReady the two loops together find the keys of all elements.
LEMMA TextHas ==
  ASSUME NEW xml, Session!WellFormedText(xml), NEW x
  PROVE  x \in Session!InText(xml) <=> IsKeyFrom(xml, "<KID>", 1, x) \/ IsKeyFrom(xml, "<KID..>", 1, x)
<1>1. Len(xml) \in Nat
  BY TextIs
<1>2. \A i, k \in 1 .. Len(xml) :
        i < k /\ xml[i] \in {"<KID>", "VALUE"} /\ xml[k] = "VALUE" => \E e \in i + 1 .. k - 1 : xml[e] = "</KID>"
  BY TextIs
<1>3. x \in Session!InText(xml) <=>
        \E j \in 1 .. Len(xml) : /\ xml[j] = x /\ x \in Keys /\ j > 1 /\ xml[j - 1] \in {"<KID>", "VALUE"}
                                 /\ \E e \in j .. Len(xml) : xml[e] = "</KID>"
  BY DEF Session!InText
<1>4. ASSUME NEW j \in 1 .. Len(xml), xml[j] = x, x \in Keys, j > 1, xml[j - 1] \in {"<KID>", "VALUE"},
             NEW d \in j .. Len(xml), xml[d] = "</KID>"
      PROVE  IsKeyFrom(xml, "<KID>", 1, x) \/ IsKeyFrom(xml, "<KID..>", 1, x)
  <2> DEFINE Closing == {i \in j .. Len(xml) : xml[i] = "</KID>"}
  <2>1. PICK e \in Closing : \A i \in Closing : e <= i
    <3>1. Closing \subseteq Nat /\ Closing # {}
      BY <1>1, <1>4
    <3> HIDE DEF Closing
    <3>2. QED BY <3>1, LeastNatural
  <2>2. e \in j .. Len(xml) /\ xml[e] = "</KID>" /\ x # "</KID>" /\ x # "VALUE"
    BY <1>4, TextIs
  <2>3. ASSUME NEW i \in j .. e - 1 PROVE xml[i] # "</KID>"
    <3>1. i \in j .. Len(xml) /\ ~(e <= i)
      BY <1>1, <2>2
    <3>2. QED BY <2>1, <3>1
  <2> HIDE DEF Closing
  <2>4. /\ j \in Nat /\ e \in Nat /\ j < e /\ e <= Len(xml) /\ j - 1 \in 1 .. Len(xml) /\ j - 1 \in Nat
        /\ e \in 1 .. Len(xml) /\ j \in 1 .. Len(xml)
    BY <1>1, <1>4, <2>2
  <2>5. CASE xml[j - 1] = "<KID>"
    <3>1. \A i \in (j - 1) + 1 .. e - 1 : xml[i] # "</KID>"
      BY <2>3, <2>4
    <3>2. Element(xml, "<KID>", j - 1, e)
      BY <2>2, <2>4, <2>5, <3>1 DEF Element
    <3>3. ASSUME NEW i \in (j - 1) + 1 .. e PROVE xml[i] # "VALUE"
      <4>1. CASE i = e
        BY <2>2, <4>1
      <4>2. CASE i # e
        <5>1. i \in 1 .. Len(xml) /\ j - 1 < i
          BY <2>4
        <5>2. ASSUME NEW c \in (j - 1) + 1 .. i - 1 PROVE xml[c] # "</KID>"
          <6>1. c \in j .. e - 1
            BY <2>4
          <6>2. QED BY <2>3, <6>1
        <5>3. xml[j - 1] \in {"<KID>", "VALUE"}
          BY <2>5
        <5>4. QED BY <1>2, <2>4, <5>1, <5>2, <5>3
      <4>3. QED BY <4>1, <4>2
    <3>4. KeyAt(xml, j - 1, e, j)
      <4>1. j \in (j - 1) + 1 .. e - 1 /\ j = (j - 1) + 1
        BY <2>4
      <4>2. QED BY <1>4, <3>3, <4>1 DEF KeyAt
    <3>5. j - 1 >= 1
      BY <2>4
    <3>6. QED BY <1>4, <3>2, <3>4, <3>5 DEF IsKeyFrom
  <2>6. CASE xml[j - 1] = "VALUE"
    <3>1. PICK b \in 1 .. Len(xml) : b < j - 1 /\ xml[b] = "<KID..>" /\ \A i \in b + 1 .. (j - 1) - 1 : xml[i] # "</KID>"
      BY <2>4, <2>6, TextIs
    <3>2. ASSUME NEW i \in b + 1 .. e - 1 PROVE xml[i] # "</KID>"
      <4>1. i \in b + 1 .. (j - 1) - 1 \/ i = j - 1 \/ i \in j .. e - 1
        BY <2>4, <3>1
      <4>2. QED BY <2>3, <2>6, <3>1, <4>1
    <3>3. e \in b + 1 .. Len(xml)
      BY <2>4, <3>1
    <3>4. Element(xml, "<KID..>", b, e)
      BY <2>2, <3>1, <3>2, <3>3 DEF Element
    <3>5. ASSUME NEW i \in b + 1 .. j - 2 PROVE xml[i] # "VALUE"
      <4>1. i \in 1 .. Len(xml) /\ i < j - 1
        BY <1>1, <2>4, <3>1
      <4>2. ASSUME NEW c \in i + 1 .. (j - 1) - 1 PROVE xml[c] # "</KID>"
        <5>1. c \in b + 1 .. (j - 1) - 1
          BY <2>4, <3>1
        <5>2. QED BY <3>1, <5>1
      <4>3. QED BY <1>2, <2>4, <2>6, <4>1, <4>2
    <3>6. KeyAt(xml, b, e, j)
      <4>1. j \in b + 1 .. e - 1 /\ j > b + 1
        BY <2>4, <3>1
      <4>2. QED BY <1>4, <2>6, <3>5, <4>1 DEF KeyAt
    <3>7. b >= 1
      BY <1>1
    <3>8. QED BY <1>4, <3>4, <3>6, <3>7 DEF IsKeyFrom
  <2>7. QED BY <1>4, <2>5, <2>6
<1>5. ASSUME NEW tag \in Tag, NEW b, NEW e, NEW j, Element(xml, tag, b, e), KeyAt(xml, b, e, j), xml[j] = x
      PROVE  x \in Session!InText(xml)
  <2>1. /\ b \in 1 .. Len(xml) /\ xml[b] = tag /\ e \in b + 1 .. Len(xml) /\ xml[e] = "</KID>"
        /\ j \in b + 1 .. e - 1 /\ x \in Keys /\ (j = b + 1 \/ xml[j - 1] = "VALUE")
    BY <1>5 DEF Element, KeyAt
  <2>2. j \in 1 .. Len(xml) /\ j > 1 /\ e \in j .. Len(xml) /\ (j = b + 1 => j - 1 = b)
    BY <1>1, <2>1
  <2>3. j = b + 1 => xml[b] = "<KID>"
    BY <1>5, <2>1, <2>2, TextIs DEF Tag
  <2>4. QED BY <1>3, <1>5, <2>1, <2>2, <2>3
<1>6. QED BY <1>3, <1>4, <1>5 DEF IsKeyFrom, Tag

LEMMA TextFound ==
  ASSUME NEW xml, Session!WellFormedText(xml)
  PROVE  \E keys \in Seq(Keys) :
           /\ \A list : Session!ParseXMLBox(list, xml) = Session!AddKeyIds(list, keys, "PlayReady")
           /\ {keys[i] : i \in 1 .. Len(keys)} = Session!InText(xml)
<1> DEFINE plain == Session!Pass("<KID>", xml, 1)
           other == Session!Pass("<KID..>", xml, plain.next)
           keys == plain.keys \o other.keys
<1>1. \A list : Session!ParseXMLBox(list, xml) = Session!AddKeyIds(list, keys, "PlayReady")
  BY DEF Session!ParseXMLBox
<1>2. 1 \in 1 .. Len(xml) + 1 /\ "<KID>" \in Tag /\ "<KID..>" \in Tag
  <2>1. Len(xml) \in Nat
    BY TextIs
  <2>2. QED BY <2>1 DEF Tag
<1>3. Finds(plain, xml, "<KID>", 1)
  BY <1>2, PassFinds
<1> HIDE DEF plain
<1>4. plain.next \in 1 .. Len(xml) + 1
  BY <1>3 DEF Finds
<1>5. Finds(other, xml, "<KID..>", plain.next)
  BY <1>2, <1>4, PassFinds
<1> HIDE DEF other
<1>6. keys \in Seq(Keys) /\ \A x : Holds(keys, x) <=> Holds(plain.keys, x) \/ Holds(other.keys, x)
  BY <1>3, <1>5, ConcatHolds DEF Finds
<1> HIDE DEF keys
<1>7. \A x : IsKeyFrom(xml, "<KID..>", plain.next, x) <=> IsKeyFrom(xml, "<KID..>", 1, x)
  <2>1. ASSUME NEW b, NEW e, Element(xml, "<KID..>", b, e) PROVE b >= 1 /\ b >= plain.next
    <3>1. Len(xml) \in Nat /\ b \in 1 .. Len(xml)
      BY <2>1, TextIs DEF Element
    <3>2. b >= 1
      BY <3>1
    <3>3. QED BY <1>3, <2>1, <3>2 DEF Finds
  <2>2. QED BY <2>1 DEF IsKeyFrom
<1>8. \A x : Holds(keys, x) <=> x \in Session!InText(xml)
  BY <1>3, <1>5, <1>6, <1>7, TextHas DEF Finds
<1>9. {keys[i] : i \in 1 .. Len(keys)} = Session!InText(xml)
  BY <1>8 DEF Holds
<1>10. QED BY <1>1, <1>6, <1>9 DEF keys

LEMMA TextSays ==
  ASSUME NEW xml, Session!WellFormedText(xml), NEW list, NEW P, Says(list, P)
  PROVE  Says(Session!ParseXMLBox(list, xml), P \cup (Session!InText(xml) \X {"PlayReady"}))
<1>1. PICK keys \in Seq(Keys) :
        /\ \A l : Session!ParseXMLBox(l, xml) = Session!AddKeyIds(l, keys, "PlayReady")
        /\ {keys[i] : i \in 1 .. Len(keys)} = Session!InText(xml)
  BY TextFound
<1>2. "PlayReady" \in Session!systemType
  BY DEF Session!systemType
<1>3. Says(Session!AddKeyIds(list, keys, "PlayReady"), P \cup ({keys[i] : i \in 1 .. Len(keys)} \X {"PlayReady"}))
  BY <1>2, AddKeysSay
<1>4. QED BY <1>1, <1>3

-----------------------------------------------------------------------------
\* How far an object or data goes until something is broken.
LEMMA WholeIs ==
  ASSUME NEW n \in Nat, NEW Broken, Broken \subseteq 1 .. n
  PROVE  LET broken == IF Broken # {} THEN Session!Min(Broken) ELSE 0
             whole == IF broken = 0 THEN n ELSE broken - 1
         IN  /\ whole \in 0 .. n /\ (broken = 0 \/ broken - 1 \in 0 .. n)
             /\ \A j \in 1 .. n : j <= whole <=> \A e \in 1 .. j : e \notin Broken
<1> DEFINE broken == IF Broken # {} THEN Session!Min(Broken) ELSE 0
<1>1. CASE Broken = {}
  BY <1>1
<1>2. CASE Broken # {}
  <2>1. broken \in Broken /\ \A x \in Broken : broken <= x
    <3>1. Broken \subseteq Nat
      OBVIOUS
    <3>2. QED BY <1>2, <3>1, MinOf
  <2> HIDE DEF broken
  <2>2. broken \in 1 .. n /\ broken # 0
    BY <2>1
  <2>3. ASSUME NEW j \in 1 .. n PROVE j <= broken - 1 <=> \A e \in 1 .. j : e \notin Broken
    <3>1. ~(j <= broken - 1) => broken \in 1 .. j
      BY <2>2
    <3>2. ASSUME j <= broken - 1, NEW e \in 1 .. j PROVE e \notin Broken
      <4>1. ~(broken <= e)
        BY <2>2, <3>2
      <4>2. QED BY <2>1, <4>1
    <3>3. QED BY <2>1, <3>1, <3>2
  <2>4. broken - 1 \in 0 .. n
    BY <2>2
  <2>5. QED BY <2>2, <2>3, <2>4 DEF broken
<1>3. QED BY <1>1, <1>2

\* A record of an object adds the keys of its text.
RecordStep(l, r) == IF r.type = 1 THEN Session!ParseXMLBox(l, r.xml) ELSE l

RecordNames(r) == IF r.type = 1 THEN Session!InText(r.xml) \X {"PlayReady"} ELSE {}

RecordsFold(list, records) ==
  (CHOOSE h : h = [s \in SUBSET (DOMAIN records) |->
                     IF s = {} THEN list ELSE RecordStep(h[s \ {DRM!Max(s)}], records[DRM!Max(s)])])[DOMAIN records]

LEMMA RecordSays ==
  ASSUME NEW l, NEW P, Says(l, P), NEW r, r.type = 1 => Session!WellFormedText(r.xml)
  PROVE  Says(RecordStep(l, r), P \cup RecordNames(r))
<1>1. CASE r.type = 1
  BY <1>1, TextSays DEF RecordStep, RecordNames
<1>2. CASE r.type # 1
  <2>1. P \cup {} = P
    OBVIOUS
  <2>2. QED BY <1>2, <2>1 DEF RecordStep, RecordNames
<1>3. QED BY <1>1, <1>2

LEMMA RecordsLoop ==
  ASSUME NEW list \in KeyLists, NEW n \in Nat, NEW records, DOMAIN records = 1 .. n,
         \A i \in 1 .. n : records[i].type = 1 => Session!WellFormedText(records[i].xml)
  PROVE  \E g : /\ g[0] = list
                /\ \A k \in 1 .. n : g[k] = RecordStep(g[k - 1], records[k])
                /\ RecordsFold(list, records) = g[n]
<1> DEFINE Step(l, k) == RecordStep(l, records[k])
           Loops(h) == h = [s \in SUBSET (1 .. n) |->
                              IF s = {} THEN list ELSE Step(h[s \ {DRM!Max(s)}], DRM!Max(s))]
<1>1. RecordsFold(list, records) = (CHOOSE h : Loops(h))[1 .. n]
  BY DEF RecordsFold
<1>2. \E h : Loops(h)
  <2> DEFINE T == KeyLists
             step == [x \in T \X (1 .. n) |-> Step(x[1], x[2])]
  <2>1. ASSUME NEW l \in T, NEW k \in 1 .. n PROVE Step(l, k) \in T
    <3>1. PICK P : Says(l, P)
      BY DEF KeyLists
    <3>2. Says(Step(l, k), P \cup RecordNames(records[k]))
      BY <3>1, RecordSays
    <3> HIDE DEF Step
    <3>3. QED BY <3>2, KeyListsAre
  <2>2. list \in T
    OBVIOUS
  <2> HIDE DEF Step, T
  <2>3. step \in [T \X (1 .. n) -> T]
    BY <2>1
  <2>4. \A l \in T, k \in 1 .. n : step[<<l, k>>] = Step(l, k)
    OBVIOUS
  <2> HIDE DEF step
  <2>5. PICK h : IsFold(h, n, T, list, step)
    BY <2>2, <2>3, FoldExists
  <2>6. ASSUME NEW s \in SUBSET (1 .. n)
        PROVE  h[s] = IF s = {} THEN list ELSE Step(h[s \ {DRM!Max(s)}], DRM!Max(s))
    <3>1. s # {} => DRM!Max(s) \in 1 .. n
      BY MaxOf
    <3>2. h[s \ {DRM!Max(s)}] \in T
      BY <2>5 DEF IsFold
    <3>3. QED BY <2>4, <2>5, <3>1, <3>2 DEF IsFold
  <2>7. Loops(h)
    BY <2>5, <2>6 DEF IsFold
  <2> HIDE DEF Loops
  <2>8. QED BY <2>7
<1> HIDE DEF Step
<1>3. PICK h : Loops(h) /\ RecordsFold(list, records) = h[1 .. n]
  BY <1>1, <1>2
<1> DEFINE g == [k \in 0 .. n |-> h[1 .. k]]
<1>4. g[0] = list /\ g[n] = h[1 .. n]
  <2>1. 1 .. 0 = {} /\ {} \in SUBSET (1 .. n) /\ 0 \in 0 .. n /\ n \in 0 .. n
    OBVIOUS
  <2>2. h[{}] = list
    BY <1>3, <2>1
  <2>3. g[0] = h[1 .. 0] /\ g[n] = h[1 .. n]
    BY <2>1
  <2> HIDE DEF g
  <2>4. QED BY <2>1, <2>2, <2>3
<1>5. ASSUME NEW k \in 1 .. n PROVE g[k] = Step(g[k - 1], k)
  <2>1. /\ 1 .. k \in SUBSET (1 .. n) /\ 1 .. k # {} /\ (1 .. k) \ {k} = 1 .. k - 1 /\ DRM!Max(1 .. k) = k
        /\ k \in 0 .. n /\ k - 1 \in 0 .. n
    BY FirstSets
  <2>2. h[1 .. k] = Step(h[(1 .. k) \ {DRM!Max(1 .. k)}], DRM!Max(1 .. k))
    BY <1>3, <2>1
  <2>3. g[k] = h[1 .. k] /\ g[k - 1] = h[1 .. k - 1]
    BY <2>1
  <2> HIDE DEF g
  <2>4. QED BY <2>1, <2>2, <2>3
<1> HIDE DEF g
<1>6. QED BY <1>3, <1>4, <1>5 DEF Step

LEMMA RecordsSay ==
  ASSUME NEW list, NEW P, Says(list, P), NEW n \in Nat, NEW records, DOMAIN records = 1 .. n,
         \A i \in 1 .. n : records[i].type = 1 => Session!WellFormedText(records[i].xml)
  PROVE  Says(RecordsFold(list, records), Sum(P, [i \in 1 .. n |-> RecordNames(records[i])], n))
<1>1. PICK g : /\ g[0] = list
               /\ \A k \in 1 .. n : g[k] = RecordStep(g[k - 1], records[k])
               /\ RecordsFold(list, records) = g[n]
  <2>1. list \in KeyLists
    BY KeyListsAre
  <2>2. QED BY <2>1, RecordsLoop
<1> DEFINE Q == [i \in 1 .. n |-> RecordNames(records[i])]
<1>2. ASSUME NEW k \in 1 .. n, NEW R, Says(g[k - 1], R) PROVE Says(g[k], R \cup Q[k])
  <2>1. Says(RecordStep(g[k - 1], records[k]), R \cup RecordNames(records[k]))
    BY <1>2, RecordSays
  <2>2. QED BY <1>1, <2>1
<1> HIDE DEF Q
<1>3. Adds(g, n, Q)
  BY <1>2 DEF Adds
<1>4. Says(g[n], Sum(P, Q, n))
  BY <1>1, <1>3, SaysInALoop
<1>5. QED BY <1>1, <1>4 DEF Q

LEMMA ObjectSays ==
  ASSUME NEW object, Session!WellFormedObject(object), NEW list, NEW P, Says(list, P)
  PROVE  Says(Session!ParsePlayReadyPSSHData(list, object), P \cup (Session!InObject(object) \X {"PlayReady"}))
<1> DEFINE all == object.records
           n == Len(all)
           Broken == {i \in 1 .. n : ~all[i].fits}
           broken == IF Broken # {} THEN Session!Min(Broken) ELSE 0
           whole == IF broken = 0 THEN n ELSE broken - 1
           m == IF object.count < whole THEN object.count ELSE whole
           records == SubSeq(all, 1, m)
           New == Session!InObject(object) \X {"PlayReady"}
<1>1. Session!ParsePlayReadyPSSHData(list, object) = IF ~object.size THEN list ELSE RecordsFold(list, records)
  BY DEF Session!ParsePlayReadyPSSHData, Session!FoldLeft, Session!MapThenFoldSet, Session!SelectInSeq,
         Session!Min, Session!Max, DRM!Max, RecordsFold, RecordStep
<1>2. /\ object.size \in BOOLEAN /\ object.count \in Nat
      /\ all \in Seq({all[i] : i \in DOMAIN all})
      /\ \A i \in DOMAIN all : all[i].fits \in BOOLEAN /\ (all[i].type = 1 => Session!WellFormedText(all[i].xml))
  BY DEF Session!WellFormedObject
<1>3. n \in Nat /\ DOMAIN all = 1 .. n
  BY <1>2, LenProperties
<1>4. whole \in 0 .. n /\ \A j \in 1 .. n : j <= whole <=> \A e \in 1 .. j : all[e].fits
  <2>1. Broken \subseteq 1 .. n
    OBVIOUS
  <2>2. \A j \in 1 .. n : \A e \in 1 .. j : e \in 1 .. n /\ (e \in Broken <=> ~all[e].fits)
    BY <1>3
  <2> HIDE DEF Broken, n, all
  <2>3. whole \in 0 .. n /\ \A j \in 1 .. n : j <= whole <=> \A e \in 1 .. j : e \notin Broken
    BY <1>3, <2>1, WholeIs
  <2>4. QED BY <2>2, <2>3
<1>5. \A x : x \in Session!InObject(object) <=>
        \E j \in 1 .. n : /\ object.size /\ j <= object.count /\ all[j].type = 1
                          /\ (\A e \in 1 .. j : all[e].fits) /\ x \in Session!InText(all[j].xml)
  BY DEF Session!InObject
<1> HIDE DEF broken, whole
<1>6. m \in Nat /\ m <= n /\ \A j \in 1 .. n : j <= m <=> j <= object.count /\ j <= whole
  BY <1>2, <1>3, <1>4
<1> HIDE DEF m, New
<1>7. DOMAIN records = 1 .. m /\ \A i \in 1 .. m : records[i] = all[i] /\ i \in 1 .. n
  <2>1. records = [i \in 1 .. m |-> all[i]]
    BY <1>6, <1>2, <1>3
  <2>2. QED BY <1>3, <1>6, <2>1
<1> HIDE DEF records, all, n
<1>8. CASE object.size
  <2>1. Says(RecordsFold(list, records), Sum(P, [i \in 1 .. m |-> RecordNames(records[i])], m))
    <3>1. \A i \in 1 .. m : records[i].type = 1 => Session!WellFormedText(records[i].xml)
      BY <1>2, <1>3, <1>7
    <3>2. QED BY <1>6, <1>7, <3>1, RecordsSay
  <2>2. Sum(P, [i \in 1 .. m |-> RecordNames(records[i])], m) = P \cup New
    <3>1. \A i \in 1 .. n : i \in 1 .. m <=> i <= object.count /\ \A e \in 1 .. i : all[e].fits
      BY <1>3, <1>4, <1>6
    <3>2. ASSUME NEW p PROVE p \in New <=> \E i \in 1 .. m : p \in RecordNames(all[i])
      <4>1. p \in New <=> \E x \in Session!InObject(object) : p = <<x, "PlayReady">>
        BY DEF New
      <4>2. \A i : p \in RecordNames(all[i]) <=> all[i].type = 1 /\ \E x \in Session!InText(all[i].xml) : p = <<x, "PlayReady">>
        BY DEF RecordNames
      <4>3. QED BY <1>5, <1>7, <1>8, <3>1, <4>1, <4>2
    <3>3. ASSUME NEW p PROVE p \in Sum(P, [i \in 1 .. m |-> RecordNames(records[i])], m)
                               <=> p \in P \/ \E i \in 1 .. m : p \in RecordNames(all[i])
      BY <1>7 DEF Sum
    <3>4. QED BY <3>2, <3>3
  <2>3. QED BY <1>1, <1>8, <2>1, <2>2 DEF New
<1>9. CASE ~object.size
  <2>1. New = {}
    BY <1>5, <1>9 DEF New
  <2>2. P \cup New = P
    BY <2>1
  <2>3. QED BY <1>1, <1>9, <2>2 DEF New
<1>10. QED BY <1>2, <1>8, <1>9

\* A box adds the keys of its payload, and those that come before it.
BoxNames(box) ==
  IF box.version < 2
  THEN (IF "payload" \in box.fits /\ (box.version = 0 \/ "keys" \in box.fits)
        THEN Session!InBox(box) ELSE {}) \cup
       (IF box.version = 1 /\ "keys" \in box.fits
        THEN Session!ToSet(box.keys) \X {IF box.system = "unknown" THEN "Common" ELSE box.system}
        ELSE {})
  ELSE {}

BoxesFold(list, boxes) ==
  (CHOOSE h : h = [s \in SUBSET (DOMAIN boxes) |->
                     IF s = {} THEN list ELSE Session!ParsePSSHBox(h[s \ {DRM!Max(s)}], boxes[DRM!Max(s)])])[DOMAIN boxes]

LEMMA ListSays ==
  ASSUME NEW list, NEW P, Says(list, P), NEW keys \in Seq(Keys), NEW drm \in Session!systemType
  PROVE  Says(Session!AddKeyIds(list, keys, drm), P \cup (Session!ToSet(keys) \X {drm}))
<1>1. Says(Session!AddKeyIds(list, keys, drm), P \cup ({keys[i] : i \in 1 .. Len(keys)} \X {drm}))
  BY AddKeysSay
<1>2. Session!ToSet(keys) = {keys[i] : i \in 1 .. Len(keys)}
  BY DEF Session!ToSet
<1>3. QED BY <1>1, <1>2

LEMMA PayloadSays ==
  ASSUME NEW l, NEW P, Says(l, P), NEW box, box.pssh, Session!WellFormedBox(box)
  PROVE  Says(Session!ParsePayload(l, box), P \cup IF "payload" \in box.fits THEN Session!InBox(box) ELSE {})
<1>1. /\ box.system = "Widevine" => box.payload \in Seq(Keys)
      /\ box.system = "PlayReady" => Session!WellFormedObject(box.payload)
  BY DEF Session!WellFormedBox
<1>2. P \cup {} = P
  OBVIOUS
<1>3. CASE "payload" \notin box.fits
  BY <1>2, <1>3 DEF Session!ParsePayload
<1>4. CASE "payload" \in box.fits /\ box.system = "PlayReady"
  <2>1. Session!ParsePayload(l, box) = Session!ParsePlayReadyPSSHData(l, box.payload)
    BY <1>4 DEF Session!ParsePayload
  <2>2. Session!InBox(box) = Session!InObject(box.payload) \X {"PlayReady"}
    BY <1>4 DEF Session!InBox
  <2>3. Says(Session!ParsePlayReadyPSSHData(l, box.payload), P \cup (Session!InObject(box.payload) \X {"PlayReady"}))
    BY <1>1, <1>4, ObjectSays
  <2>4. QED BY <1>4, <2>1, <2>2, <2>3
<1>5. CASE "payload" \in box.fits /\ box.system = "Widevine"
  <2>1. Session!ParsePayload(l, box) = Session!AddKeyIds(l, box.payload, "Widevine")
    BY <1>5 DEF Session!ParsePayload
  <2>2. Session!InBox(box) = Session!ToSet(box.payload) \X {"Widevine"}
    BY <1>5 DEF Session!InBox
  <2>3. "Widevine" \in Session!systemType
    BY DEF Session!systemType
  <2>4. Says(Session!AddKeyIds(l, box.payload, "Widevine"), P \cup (Session!ToSet(box.payload) \X {"Widevine"}))
    BY <1>1, <1>5, <2>3, ListSays
  <2>5. QED BY <1>5, <2>1, <2>2, <2>4
<1>6. CASE "payload" \in box.fits /\ box.system # "PlayReady" /\ box.system # "Widevine"
  <2>1. Session!ParsePayload(l, box) = l
    BY <1>6 DEF Session!ParsePayload
  <2>2. Session!InBox(box) = {}
    BY <1>6 DEF Session!InBox
  <2>3. QED BY <1>2, <1>6, <2>1, <2>2
<1>7. QED BY <1>3, <1>4, <1>5, <1>6

LEMMA BoxSays ==
  ASSUME NEW l, NEW P, Says(l, P), NEW box, box.pssh, Session!WellFormedBox(box)
  PROVE  Says(Session!ParsePSSHBox(l, box), P \cup BoxNames(box))
<1> DEFINE known == IF box.system = "unknown" THEN "Common" ELSE box.system
           Payload == IF "payload" \in box.fits THEN Session!InBox(box) ELSE {}
           Before == Session!ToSet(box.keys) \X {known}
<1>1. box.version \in Nat /\ box.keys \in Seq(Keys) /\ known \in Session!systemType
  BY DEF Session!WellFormedBox, Session!systemType
<1>2. Says(Session!ParsePayload(l, box), P \cup Payload)
  BY PayloadSays
<1>3. CASE box.version = 0
  <2>1. Session!ParsePSSHBox(l, box) = Session!ParsePayload(l, box)
    BY <1>3 DEF Session!ParsePSSHBox
  <2>2. BoxNames(box) = Payload
    BY <1>3 DEF BoxNames
  <2> HIDE DEF Payload
  <2>3. QED BY <1>2, <2>1, <2>2
<1>4. CASE box.version = 1 /\ "keys" \in box.fits
  <2>1. Session!ParsePSSHBox(l, box) = Session!AddKeyIds(Session!ParsePayload(l, box), box.keys, known)
    BY <1>4 DEF Session!ParsePSSHBox
  <2>2. BoxNames(box) = Payload \cup Before
    BY <1>4 DEF BoxNames
  <2>3. (P \cup Payload) \cup Before = P \cup BoxNames(box)
    BY <2>2
  <2> HIDE DEF Payload, known
  <2>4. Says(Session!AddKeyIds(Session!ParsePayload(l, box), box.keys, known), (P \cup Payload) \cup Before)
    BY <1>1, <1>2, ListSays
  <2>5. QED BY <2>1, <2>3, <2>4
<1>5. CASE ~(box.version = 0 \/ (box.version = 1 /\ "keys" \in box.fits))
  <2>1. Session!ParsePSSHBox(l, box) = l
    BY <1>5 DEF Session!ParsePSSHBox
  <2>2. box.version < 2 => box.version = 1
    BY <1>1, <1>5
  <2>3. P \cup BoxNames(box) = P
    BY <1>5, <2>2 DEF BoxNames
  <2>4. QED BY <2>1, <2>3
<1>6. QED BY <1>3, <1>4, <1>5

LEMMA BoxesLoop ==
  ASSUME NEW list \in KeyLists, NEW n \in Nat, NEW boxes, DOMAIN boxes = 1 .. n,
         \A i \in 1 .. n : boxes[i].pssh /\ boxes[i].pssh \in BOOLEAN /\ Session!WellFormedBox(boxes[i])
  PROVE  \E g : /\ g[0] = list
                /\ \A k \in 1 .. n : g[k] = Session!ParsePSSHBox(g[k - 1], boxes[k])
                /\ BoxesFold(list, boxes) = g[n]
<1> DEFINE Step(l, k) == Session!ParsePSSHBox(l, boxes[k])
           Loops(h) == h = [s \in SUBSET (1 .. n) |->
                              IF s = {} THEN list ELSE Step(h[s \ {DRM!Max(s)}], DRM!Max(s))]
<1>1. BoxesFold(list, boxes) = (CHOOSE h : Loops(h))[1 .. n]
  BY DEF BoxesFold
<1>2. \E h : Loops(h)
  <2> DEFINE T == KeyLists
             step == [x \in T \X (1 .. n) |-> Step(x[1], x[2])]
  <2>1. ASSUME NEW l \in T, NEW k \in 1 .. n PROVE Step(l, k) \in T
    <3>1. PICK P : Says(l, P)
      BY DEF KeyLists
    <3>2. Says(Step(l, k), P \cup BoxNames(boxes[k]))
      BY <3>1, BoxSays
    <3> HIDE DEF Step
    <3>3. QED BY <3>2, KeyListsAre
  <2>2. list \in T
    OBVIOUS
  <2> HIDE DEF Step, T
  <2>3. step \in [T \X (1 .. n) -> T]
    BY <2>1
  <2>4. \A l \in T, k \in 1 .. n : step[<<l, k>>] = Step(l, k)
    OBVIOUS
  <2> HIDE DEF step
  <2>5. PICK h : IsFold(h, n, T, list, step)
    BY <2>2, <2>3, FoldExists
  <2>6. ASSUME NEW s \in SUBSET (1 .. n)
        PROVE  h[s] = IF s = {} THEN list ELSE Step(h[s \ {DRM!Max(s)}], DRM!Max(s))
    <3>1. s # {} => DRM!Max(s) \in 1 .. n
      BY MaxOf
    <3>2. h[s \ {DRM!Max(s)}] \in T
      BY <2>5 DEF IsFold
    <3>3. QED BY <2>4, <2>5, <3>1, <3>2 DEF IsFold
  <2>7. Loops(h)
    BY <2>5, <2>6 DEF IsFold
  <2> HIDE DEF Loops
  <2>8. QED BY <2>7
<1> HIDE DEF Step
<1>3. PICK h : Loops(h) /\ BoxesFold(list, boxes) = h[1 .. n]
  BY <1>1, <1>2
<1> DEFINE g == [k \in 0 .. n |-> h[1 .. k]]
<1>4. g[0] = list /\ g[n] = h[1 .. n]
  <2>1. 1 .. 0 = {} /\ {} \in SUBSET (1 .. n) /\ 0 \in 0 .. n /\ n \in 0 .. n
    OBVIOUS
  <2>2. h[{}] = list
    BY <1>3, <2>1
  <2>3. g[0] = h[1 .. 0] /\ g[n] = h[1 .. n]
    BY <2>1
  <2> HIDE DEF g
  <2>4. QED BY <2>1, <2>2, <2>3
<1>5. ASSUME NEW k \in 1 .. n PROVE g[k] = Step(g[k - 1], k)
  <2>1. /\ 1 .. k \in SUBSET (1 .. n) /\ 1 .. k # {} /\ (1 .. k) \ {k} = 1 .. k - 1 /\ DRM!Max(1 .. k) = k
        /\ k \in 0 .. n /\ k - 1 \in 0 .. n
    BY FirstSets
  <2>2. h[1 .. k] = Step(h[(1 .. k) \ {DRM!Max(1 .. k)}], DRM!Max(1 .. k))
    BY <1>3, <2>1
  <2>3. g[k] = h[1 .. k] /\ g[k - 1] = h[1 .. k - 1]
    BY <2>1
  <2> HIDE DEF g
  <2>4. QED BY <2>1, <2>2, <2>3
<1> HIDE DEF g
<1>6. QED BY <1>3, <1>4, <1>5 DEF Step

LEMMA BoxesSay ==
  ASSUME NEW list, NEW P, Says(list, P), NEW n \in Nat, NEW boxes, DOMAIN boxes = 1 .. n,
         \A i \in 1 .. n : boxes[i].pssh /\ boxes[i].pssh \in BOOLEAN /\ Session!WellFormedBox(boxes[i])
  PROVE  Says(BoxesFold(list, boxes), Sum(P, [i \in 1 .. n |-> BoxNames(boxes[i])], n))
<1>1. PICK g : /\ g[0] = list
               /\ \A k \in 1 .. n : g[k] = Session!ParsePSSHBox(g[k - 1], boxes[k])
               /\ BoxesFold(list, boxes) = g[n]
  <2>1. list \in KeyLists
    BY KeyListsAre
  <2>2. QED BY <2>1, BoxesLoop
<1> DEFINE Q == [i \in 1 .. n |-> BoxNames(boxes[i])]
<1>2. ASSUME NEW k \in 1 .. n, NEW R, Says(g[k - 1], R) PROVE Says(g[k], R \cup Q[k])
  <2>1. Says(Session!ParsePSSHBox(g[k - 1], boxes[k]), R \cup BoxNames(boxes[k]))
    BY <1>2, BoxSays
  <2>2. QED BY <1>1, <2>1
<1> HIDE DEF Q
<1>3. Adds(g, n, Q)
  BY <1>2 DEF Adds
<1>4. Says(g[n], Sum(P, Q, n))
  BY <1>1, <1>3, SaysInALoop
<1>5. QED BY <1>1, <1>4 DEF Q

LEMMA FileSays ==
  ASSUME NEW d, Session!WellFormed(d), d.form = "boxes"
  PROVE  Says(Session!Parse(d), Session!Named(d))
<1> DEFINE all == d.content
           n == Len(all)
           Broken == {i \in 1 .. n : ~all[i].pssh}
           broken == IF Broken # {} THEN Session!Min(Broken) ELSE 0
           whole == IF broken = 0 THEN n ELSE broken - 1
           boxes == IF broken = 0 THEN all ELSE SubSeq(all, 1, broken - 1)
<1>1. Session!Parse(d) = BoxesFold(<<>>, boxes)
  <2> DEFINE other == IF d.form = "boxes" THEN broken ELSE 0
             these == IF other = 0 THEN all ELSE SubSeq(all, 1, other - 1)
  <2>1. Session!Parse(d) = BoxesFold(<<>>, these)
    BY DEF Session!Parse, Session!FoldLeft, Session!MapThenFoldSet, Session!SelectInSeq,
           Session!Min, Session!Max, DRM!Max, BoxesFold
  <2>2. these = boxes
    OBVIOUS
  <2>3. QED BY <2>1, <2>2
<1>2. /\ all \in Seq({all[i] : i \in DOMAIN all})
      /\ \A i \in DOMAIN all : all[i].pssh \in BOOLEAN /\ Session!WellFormedBox(all[i])
  BY DEF Session!WellFormed
<1>3. n \in Nat /\ DOMAIN all = 1 .. n
  BY <1>2, LenProperties
<1>4. /\ whole \in 0 .. n /\ (broken = 0 \/ broken - 1 \in 0 .. n)
      /\ \A j \in 1 .. n : j <= whole <=> \A e \in 1 .. j : all[e].pssh
  <2>1. Broken \subseteq 1 .. n
    OBVIOUS
  <2>2. \A j \in 1 .. n : \A e \in 1 .. j : e \in 1 .. n /\ (e \in Broken <=> ~all[e].pssh)
    BY <1>3
  <2> HIDE DEF Broken, n, all
  <2>3. /\ whole \in 0 .. n /\ (broken = 0 \/ broken - 1 \in 0 .. n)
        /\ \A j \in 1 .. n : j <= whole <=> \A e \in 1 .. j : e \notin Broken
    BY <1>3, <2>1, WholeIs
  <2>4. QED BY <2>2, <2>3
<1> HIDE DEF broken
<1>5. DOMAIN boxes = 1 .. whole /\ \A i \in 1 .. whole : boxes[i] = all[i] /\ i \in 1 .. n
  <2>1. CASE broken = 0
    BY <1>3, <2>1
  <2>2. CASE broken # 0
    <3>1. boxes = [i \in 1 .. broken - 1 |-> all[i]]
      BY <1>2, <1>3, <1>4, <2>2
    <3>2. QED BY <1>3, <1>4, <2>2, <3>1
  <2>3. QED BY <2>1, <2>2
<1>6. \A x : x \in Session!Named(d) <=>
        \E j \in 1 .. n : (\A e \in 1 .. j : all[e].pssh) /\ x \in BoxNames(all[j])
  BY DEF Session!Named, BoxNames
<1> HIDE DEF whole, boxes, all, n
<1>7. \A i \in 1 .. whole : boxes[i].pssh /\ Session!WellFormedBox(boxes[i])
  <2>1. ASSUME NEW i \in 1 .. whole PROVE all[i].pssh
    <3>1. i \in 1 .. n /\ i <= whole /\ i \in 1 .. i
      BY <1>3, <1>4, <1>5
    <3>2. QED BY <1>4, <3>1
  <2>2. QED BY <1>2, <1>3, <1>5, <2>1
<1>8. Says(BoxesFold(<<>>, boxes), Sum({}, [i \in 1 .. whole |-> BoxNames(boxes[i])], whole))
  <2>1. whole \in Nat
    BY <1>3, <1>4
  <2>2. QED BY <1>5, <1>7, <2>1, NothingSays, BoxesSay
<1>9. Sum({}, [i \in 1 .. whole |-> BoxNames(boxes[i])], whole) = Session!Named(d)
  <2>1. \A i \in 1 .. n : i \in 1 .. whole <=> \A e \in 1 .. i : all[e].pssh
    BY <1>3, <1>4
  <2>2. ASSUME NEW p PROVE p \in Session!Named(d) <=> \E i \in 1 .. whole : p \in BoxNames(all[i])
    BY <1>5, <1>6, <2>1
  <2>3. ASSUME NEW p PROVE p \in Sum({}, [i \in 1 .. whole |-> BoxNames(boxes[i])], whole)
                             <=> \E i \in 1 .. whole : p \in BoxNames(all[i])
    BY <1>5 DEF Sum
  <2>4. QED BY <2>2, <2>3
<1>10. QED BY <1>1, <1>8, <1>9

\* Parse finds what the initialization data names, whatever its form.
LEMMA ParseSays ==
  ASSUME NEW d, Session!WellFormed(d)
  PROVE  Says(Session!Parse(d), Session!Named(d))
<1>1. \A S : {} \cup S = S
  OBVIOUS
<1>2. CASE d.form = "boxes"
  BY <1>2, FileSays
<1>3. CASE d.form = "xml"
  <2>1. Session!Parse(d) = Session!ParseXMLBox(<<>>, d.content)
    BY <1>3 DEF Session!Parse
  <2>2. Session!Named(d) = Session!InText(d.content) \X {"PlayReady"}
    BY <1>3 DEF Session!Named
  <2>3. Session!WellFormedText(d.content)
    BY <1>3 DEF Session!WellFormed
  <2>4. Says(Session!ParseXMLBox(<<>>, d.content), {} \cup (Session!InText(d.content) \X {"PlayReady"}))
    BY <2>3, NothingSays, TextSays
  <2>5. QED BY <1>1, <2>1, <2>2, <2>4
<1>4. CASE d.form = "object"
  <2>1. Session!Parse(d) = Session!ParsePlayReadyPSSHData(<<>>, d.content)
    BY <1>4 DEF Session!Parse
  <2>2. Session!Named(d) = Session!InObject(d.content) \X {"PlayReady"}
    BY <1>4 DEF Session!Named
  <2>3. Session!WellFormedObject(d.content)
    BY <1>4 DEF Session!WellFormed
  <2>4. Says(Session!ParsePlayReadyPSSHData(<<>>, d.content), {} \cup (Session!InObject(d.content) \X {"PlayReady"}))
    BY <2>3, NothingSays, ObjectSays
  <2>5. QED BY <1>1, <2>1, <2>2, <2>4
<1>5. CASE d.form = "json"
  <2>1. Session!Parse(d) = Session!AddKeyIds(<<>>, d.content, "ClearKey")
    BY <1>5 DEF Session!Parse
  <2>2. Session!Named(d) = Session!ToSet(d.content) \X {"ClearKey"}
    BY <1>5 DEF Session!Named
  <2>3. d.content \in Seq(Keys) /\ "ClearKey" \in Session!systemType
    BY <1>5 DEF Session!WellFormed, Session!systemType
  <2>4. Says(Session!AddKeyIds(<<>>, d.content, "ClearKey"), {} \cup (Session!ToSet(d.content) \X {"ClearKey"}))
    BY <2>3, NothingSays, ListSays
  <2>5. QED BY <1>1, <2>1, <2>2, <2>4
<1>6. CASE d.form \notin {"boxes", "xml", "object", "json"}
  <2>1. Session!Parse(d) = <<>> /\ Session!Named(d) = {}
    BY <1>6 DEF Session!Parse, Session!Named
  <2>2. QED BY <2>1, NothingSays
<1>7. QED BY <1>2, <1>3, <1>4, <1>5, <1>6

\* The names of well-formed data are keys, for the systems that there are.
LEMMA NamesArePairs ==
  ASSUME NEW d, Session!WellFormed(d)
  PROVE  Session!Named(d) \subseteq Keys \X Session!systemType
<1>1. \A xml : Session!InText(xml) \subseteq Keys
  BY DEF Session!InText
<1>2. \A object : Session!InObject(object) \subseteq Keys
  BY <1>1 DEF Session!InObject
<1>3. \A keys \in Seq(Keys) : Session!ToSet(keys) \subseteq Keys
  BY DEF Session!ToSet
<1>4. \A s \in {"Common", "ClearKey", "PlayReady", "Widevine"} : s \in Session!systemType
  BY DEF Session!systemType
<1>5. ASSUME NEW box, box.pssh, Session!WellFormedBox(box)
      PROVE  BoxNames(box) \subseteq Keys \X Session!systemType
  <2> DEFINE known == IF box.system = "unknown" THEN "Common" ELSE box.system
  <2>1. box.keys \in Seq(Keys) /\ known \in Session!systemType /\ (box.system = "Widevine" => box.payload \in Seq(Keys))
    BY <1>5 DEF Session!WellFormedBox, Session!systemType
  <2>2. Session!InBox(box) \subseteq Keys \X Session!systemType
    BY <1>2, <1>3, <1>4, <2>1 DEF Session!InBox
  <2>3. Session!ToSet(box.keys) \X {known} \subseteq Keys \X Session!systemType
    BY <1>3, <2>1
  <2>4. BoxNames(box) \subseteq Session!InBox(box) \cup (Session!ToSet(box.keys) \X {known})
    BY DEF BoxNames
  <2> HIDE DEF known
  <2>5. QED BY <2>2, <2>3, <2>4
<1>6. CASE d.form = "boxes"
  <2>1. ASSUME NEW i \in DOMAIN d.content, d.content[i].pssh
        PROVE  BoxNames(d.content[i]) \subseteq Keys \X Session!systemType
    <3>1. Session!WellFormedBox(d.content[i])
      BY <1>6 DEF Session!WellFormed
    <3>2. QED BY <1>5, <2>1, <3>1
  <2>2. Len(d.content) \in Nat /\ DOMAIN d.content = 1 .. Len(d.content)
    <3>1. d.content \in Seq({d.content[i] : i \in DOMAIN d.content})
      BY <1>6 DEF Session!WellFormed
    <3>2. QED BY <3>1, LenProperties
  <2>3. \A x : x \in Session!Named(d) <=>
          \E j \in 1 .. Len(d.content) : (\A e \in 1 .. j : d.content[e].pssh) /\ x \in BoxNames(d.content[j])
    BY <1>6 DEF Session!Named, BoxNames
  <2>4. ASSUME NEW x \in Session!Named(d) PROVE x \in Keys \X Session!systemType
    <3>1. PICK j \in 1 .. Len(d.content) : (\A e \in 1 .. j : d.content[e].pssh) /\ x \in BoxNames(d.content[j])
      BY <2>3
    <3>2. d.content[j].pssh /\ j \in DOMAIN d.content
      BY <2>2, <3>1
    <3>3. QED BY <2>1, <3>1, <3>2
  <2>5. QED BY <2>4
<1>7. CASE d.form = "xml"
  <2>1. Session!Named(d) = Session!InText(d.content) \X {"PlayReady"}
    BY <1>7 DEF Session!Named
  <2>2. QED BY <1>1, <1>4, <2>1
<1>8. CASE d.form = "object"
  <2>1. Session!Named(d) = Session!InObject(d.content) \X {"PlayReady"}
    BY <1>8 DEF Session!Named
  <2>2. QED BY <1>2, <1>4, <2>1
<1>9. CASE d.form = "json"
  <2>1. Session!Named(d) = Session!ToSet(d.content) \X {"ClearKey"} /\ d.content \in Seq(Keys)
    BY <1>9 DEF Session!Named, Session!WellFormed
  <2>2. QED BY <1>3, <1>4, <2>1
<1>10. CASE d.form \notin {"boxes", "xml", "object", "json"}
  <2>1. Session!Named(d) = {}
    BY <1>10 DEF Session!Named
  <2>2. QED BY <2>1
<1>11. QED BY <1>6, <1>7, <1>8, <1>9, <1>10

-----------------------------------------------------------------------------
(* A session keeps the keys that were named and those that it was told of. *)
(* What its client heard last is their status, or it is about to hear it.  *)
Known == Statuses \cup {"nothing"}

Keeps(list, pairs, statuses) ==
  /\ list \in Seq(KeyRecord)
  /\ \A i, j \in 1 .. Len(list) : list[i].id = list[j].id => i = j
  /\ \A i \in 1 .. Len(list) :
       /\ list[i].status = IF statuses[list[i].id] = "nothing" THEN "Pending" ELSE statuses[list[i].id]
       /\ \A s \in Session!systemType : s \in list[i].systems <=> <<list[i].id, s>> \in pairs
  /\ \A k \in Keys : Session!Has(list, k) <=>
                       (\E s \in Session!systemType : <<k, s>> \in pairs) \/ statuses[k] # "nothing"

Hears(k) == telling = [key |-> k, status |-> updated[k]]

KeysInv ==
  /\ updated \in [Keys -> Known] /\ told \in [Keys -> Known] /\ toTell \in Seq(Keys)
  /\ telling = Session!None \/ \E k \in Keys : Hears(k)
  /\ IF session = "none"
     THEN telling = Session!None /\ \A k \in Keys : updated[k] = "nothing" /\ told[k] = "nothing"
     ELSE /\ data \in InitData /\ Keeps(keyIds, Session!Named(data), updated)
          /\ \A k \in Keys : \/ told[k] \in {"nothing", "Pending"} \/ ~listening
                             \/ told[k] = updated[k] \/ Hears(k)

LEMMA NoneIsNothing == \A k, s : [key |-> k, status |-> s] # Session!None
<1>1. ASSUME NEW k, NEW s, [key |-> k, status |-> s] = <<>> PROVE FALSE
  <2>1. "key" \in DOMAIN [key |-> k, status |-> s]
    OBVIOUS
  <2>2. DOMAIN <<>> = {}
    OBVIOUS
  <2>3. QED BY <1>1, <2>1, <2>2
<1>2. QED BY <1>1 DEF Session!None

LEMMA KeysBegin == MCInit => KeysInv
BY DEF MCInit, Session!Init, KeysInv, Known

LEMMA SaidIsKept ==
  ASSUME NEW list, NEW P, Says(list, P), NEW statuses, \A k \in Keys : statuses[k] = "nothing"
  PROVE  Keeps(list, P, statuses)
<1>1. \A i \in 1 .. Len(list) : list[i].id \in Keys /\ list[i].systems \in SUBSET Session!systemType
  BY RecordIs DEF Says
<1>2. ASSUME NEW k \in Keys, NEW i \in 1 .. Len(list), list[i].id = k
      PROVE  \E s \in Session!systemType : <<k, s>> \in P
  BY <1>1, <1>2 DEF Says
<1>3. QED BY <1>1, <1>2 DEF Says, Keeps, Session!Has

\* UpdateKeyStatus gives a key the status, and the others keep theirs.
LEMMA StatusIsKept ==
  ASSUME NEW list, NEW P, NEW statuses \in [Keys -> Known], Keeps(list, P, statuses),
         NEW key \in Keys, NEW status \in Statuses, status # "nothing"
  PROVE  Keeps(Session!UpdateKeyStatus(list, key, status), P, [statuses EXCEPT ![key] = status])
<1> DEFINE new == [id |-> key, systems |-> {}, status |-> "Pending"]
           all == IF Session!Has(list, key) THEN list ELSE Append(list, new)
           n == Len(all)
           after == [statuses EXCEPT ![key] = status]
           changed == [i \in 1 .. n |-> IF all[i].id = key THEN [all[i] EXCEPT !.status = status] ELSE all[i]]
<1>1. Session!UpdateKeyStatus(list, key, status) = changed
  BY DEF Session!UpdateKeyStatus
<1>2. list \in Seq(KeyRecord) /\ Len(list) \in Nat
  BY DEF Keeps
<1>3. new \in KeyRecord /\ new.id = key /\ new.systems = {}
  <2>1. {} \in SUBSET Session!systemType /\ "Pending" \in Statuses
    BY DEF Statuses
  <2>2. QED BY <2>1 DEF KeyRecord
<1> HIDE DEF new
<1>4. /\ all \in Seq(KeyRecord) /\ n \in Nat
      /\ \A i, j \in 1 .. n : all[i].id = all[j].id => i = j
      /\ \A i \in 1 .. n : /\ all[i].id # key => all[i].status = IF statuses[all[i].id] = "nothing" THEN "Pending"
                                                                 ELSE statuses[all[i].id]
                           /\ \A s \in Session!systemType : s \in all[i].systems <=> <<all[i].id, s>> \in P
      /\ \A k \in Keys : (\E i \in 1 .. n : all[i].id = k) <=>
                           (\E s \in Session!systemType : <<k, s>> \in P) \/ statuses[k] # "nothing" \/ k = key
  <2>1. CASE Session!Has(list, key)
    BY <1>2, <2>1 DEF Keeps, Session!Has
  <2>2. CASE ~Session!Has(list, key)
    <3> DEFINE longer == Append(list, new)
               l == Len(list)
    <3>1. all = longer
      BY <2>2
    <3>2. /\ longer \in Seq(KeyRecord) /\ Len(longer) = l + 1 /\ longer[l + 1] = new
          /\ \A i \in 1 .. l : longer[i] = list[i]
      BY <1>2, <1>3, AppendProperties
    <3> HIDE DEF longer, all
    <3>3. n = l + 1 /\ n \in Nat /\ (\A i \in 1 .. n : i \in 1 .. l \/ i = n) /\ n \in 1 .. n /\ \A i \in 1 .. l : i \in 1 .. n
      BY <1>2, <3>1, <3>2
    <3>4. all \in Seq(KeyRecord) /\ all[n] = new /\ \A i \in 1 .. l : all[i] = list[i]
      BY <3>1, <3>2, <3>3
    <3>5. \A i \in 1 .. l : list[i].id # key
      BY <2>2 DEF Session!Has
    <3> HIDE DEF n, l
    <3>6. \A i, j \in 1 .. n : all[i].id = all[j].id => i = j
      BY <1>3, <3>3, <3>4, <3>5 DEF Keeps, l
    <3>7. \A s \in Session!systemType : <<key, s>> \notin P
      BY <2>2 DEF Keeps
    <3>8. ASSUME NEW i \in 1 .. n
          PROVE  /\ all[i].id # key => all[i].status = IF statuses[all[i].id] = "nothing" THEN "Pending"
                                                       ELSE statuses[all[i].id]
                 /\ \A s \in Session!systemType : s \in all[i].systems <=> <<all[i].id, s>> \in P
      <4>1. CASE i = n
        BY <1>3, <3>4, <3>7, <4>1
      <4>2. CASE i \in 1 .. l
        <5>1. /\ list[i].status = IF statuses[list[i].id] = "nothing" THEN "Pending" ELSE statuses[list[i].id]
              /\ \A s \in Session!systemType : s \in list[i].systems <=> <<list[i].id, s>> \in P
          BY <4>2 DEF Keeps, l
        <5>2. QED BY <3>4, <4>2, <5>1
      <4>3. QED BY <3>3, <4>1, <4>2
    <3>9. ASSUME NEW k \in Keys
          PROVE  (\E i \in 1 .. n : all[i].id = k) <=>
                   (\E s \in Session!systemType : <<k, s>> \in P) \/ statuses[k] # "nothing" \/ k = key
      <4>1. (\E i \in 1 .. l : list[i].id = k) <=>
              (\E s \in Session!systemType : <<k, s>> \in P) \/ statuses[k] # "nothing"
        BY DEF Keeps, Session!Has, l
      <4>2. (\E i \in 1 .. n : all[i].id = k) <=> (\E i \in 1 .. l : list[i].id = k) \/ k = key
        BY <1>3, <3>3, <3>4
      <4>3. QED BY <4>1, <4>2
    <3>10. QED BY <3>3, <3>4, <3>6, <3>8, <3>9
  <2>3. QED BY <2>1, <2>2
<1> HIDE DEF all, n
<1>5. ASSUME NEW i \in 1 .. n
      PROVE  /\ changed[i] \in KeyRecord /\ all[i].id \in Keys
             /\ changed[i].id = all[i].id /\ changed[i].systems = all[i].systems
             /\ changed[i].status = IF all[i].id = key THEN status ELSE all[i].status
  <2>1. all[i] \in KeyRecord
    BY <1>4 DEF n
  <2>2. QED BY <2>1, RecordIs
<1>6. changed \in Seq(KeyRecord) /\ Len(changed) = n
  <2>1. changed \in [1 .. n -> KeyRecord]
    BY <1>5
  <2> HIDE DEF changed
  <2>2. QED BY <1>4, <2>1
<1> HIDE DEF changed
<1>7. \A k \in Keys : after[k] = IF k = key THEN status ELSE statuses[k]
  OBVIOUS
<1> HIDE DEF after
<1>8. \A i, j \in 1 .. n : changed[i].id = changed[j].id => i = j
  BY <1>4, <1>5
<1>9. ASSUME NEW i \in 1 .. n
      PROVE  /\ changed[i].status = IF after[changed[i].id] = "nothing" THEN "Pending" ELSE after[changed[i].id]
             /\ \A s \in Session!systemType : s \in changed[i].systems <=> <<changed[i].id, s>> \in P
  BY <1>4, <1>5, <1>7
<1>10. ASSUME NEW k \in Keys
       PROVE  Session!Has(changed, k) <=> (\E s \in Session!systemType : <<k, s>> \in P) \/ after[k] # "nothing"
  <2>1. Session!Has(changed, k) <=> \E i \in 1 .. n : all[i].id = k
    BY <1>5, <1>6 DEF Session!Has
  <2>2. QED BY <1>4, <1>7, <2>1
<1>11. Keeps(changed, P, after)
  BY <1>6, <1>8, <1>9, <1>10 DEF Keeps
<1>12. QED BY <1>1, <1>11 DEF after

LEMMA ToldIsKnown ==
  ASSUME KeysInv
  PROVE  /\ \A k \in Keys : updated[k] \in Known /\ told[k] \in Known
         /\ telling # Session!None =>
              \E k \in Keys : telling.key = k /\ telling.status = updated[k] /\ \A l \in Keys : Hears(l) => l = k
<1>1. \A k \in Keys : updated[k] \in Known /\ told[k] \in Known
  BY DEF KeysInv
<1>2. ASSUME telling # Session!None
      PROVE  \E k \in Keys : telling.key = k /\ telling.status = updated[k] /\ \A l \in Keys : Hears(l) => l = k
  <2>1. PICK k \in Keys : Hears(k)
    BY <1>2 DEF KeysInv
  <2>2. telling.key = k /\ telling.status = updated[k]
    BY <2>1 DEF Hears
  <2>3. \A l \in Keys : Hears(l) => telling.key = l
    BY DEF Hears
  <2>4. QED BY <2>2, <2>3
<1>3. QED BY <1>1, <1>2

LEMMA KeysStep ==
  ASSUME KeysInv, Session!Next \/ UNCHANGED sessionVars
  PROVE  KeysInv'
<1>1. CASE UNCHANGED sessionVars
  BY <1>1 DEF sessionVars, KeysInv, Keeps, Hears
<1>2. CASE Session!Constructed
  <2>1. PICK d \in InitData : data' = d /\ keyIds' = Session!Parse(d)
    BY <1>2 DEF Session!Constructed
  <2>2. /\ session = "none" /\ session' = "runs"
        /\ updated' = updated /\ told' = told /\ telling' = telling /\ toTell' = toTell
    BY <1>2 DEF Session!Constructed
  <2>3. telling = Session!None /\ \A k \in Keys : updated[k] = "nothing" /\ told[k] = "nothing"
    BY <2>2 DEF KeysInv
  <2>4. Says(keyIds', Session!Named(data'))
    BY <2>1, DataAssumption, ParseSays
  <2>5. Keeps(keyIds', Session!Named(data'), updated')
    BY <2>2, <2>3, <2>4, SaidIsKept
  <2>6. QED BY <2>1, <2>2, <2>3, <2>5 DEF KeysInv
<1>3. CASE Session!CreateSession
  <2>1. /\ session = "runs" /\ session' = "tells"
        /\ data' = data /\ keyIds' = keyIds /\ listening' = listening
        /\ updated' = updated /\ told' = told /\ telling' = telling
        /\ toTell' = [i \in 1 .. Len(Session!Parse(data)) |-> Session!Parse(data)[i].id]
    BY <1>3 DEF Session!CreateSession
  <2>2. toTell' \in Seq(Keys)
    <3> DEFINE parsed == Session!Parse(data)
    <3>1. Says(parsed, Session!Named(data))
      BY <2>1, DataAssumption, ParseSays DEF KeysInv
    <3> HIDE DEF parsed
    <3>2. Len(parsed) \in Nat /\ \A i \in 1 .. Len(parsed) : parsed[i].id \in Keys
      BY <3>1, RecordIs DEF Says
    <3>3. [i \in 1 .. Len(parsed) |-> parsed[i].id] \in Seq(Keys)
      BY <3>2
    <3>4. QED BY <2>1, <3>3 DEF parsed
  <2>3. QED BY <2>1, <2>2 DEF KeysInv, Keeps, Hears
<1>4. CASE Session!TellPending
  <2>1. /\ session = "tells" /\ session' \in {"tells", "open"}
        /\ data' = data /\ keyIds' = keyIds /\ listening' = listening /\ updated' = updated /\ telling' = telling
    BY <1>4 DEF Session!TellPending
  <2>2. toTell' \in Seq(Keys) /\ told' \in [Keys -> Known] /\ \A k \in Keys : told'[k] \in {told[k], "Pending"}
    <3>1. CASE toTell = <<>>
      <4>1. toTell' = toTell /\ told' = told
        BY <1>4, <3>1 DEF Session!TellPending
      <4>2. QED BY <4>1 DEF KeysInv
    <3>2. CASE toTell # <<>>
      <4>1. told' = [told EXCEPT ![Head(toTell)] = "Pending"] /\ toTell' = Tail(toTell)
        BY <1>4, <3>2 DEF Session!TellPending
      <4>2. told \in [Keys -> Known] /\ toTell \in Seq(Keys) /\ "Pending" \in Known
        BY DEF KeysInv, Known, Statuses
      <4>3. Head(toTell) \in Keys /\ Tail(toTell) \in Seq(Keys)
        BY <3>2, <4>2, HeadTailProperties
      <4>4. QED BY <4>1, <4>2, <4>3
    <3>3. QED BY <3>1, <3>2
  <2>3. \A k \in Keys : Hears(k)' <=> Hears(k)
    BY <2>1 DEF Hears
  <2>4. Keeps(keyIds', Session!Named(data'), updated')
    BY <2>1 DEF KeysInv
  <2>5. \A k \in Keys : \/ told'[k] \in {"nothing", "Pending"} \/ ~listening'
                        \/ told'[k] = updated'[k] \/ Hears(k)'
    BY <2>1, <2>2, <2>3 DEF KeysInv
  <2>6. QED BY <2>1, <2>2, <2>3, <2>4, <2>5 DEF KeysInv
<1>5. CASE \E key \in Keys, m \in {"KeyUsable", "KeyExpired", "other"} : Session!OnKeyStatusUpdate(key, m)
  <2>1. PICK key \in Keys, m \in {"KeyUsable", "KeyExpired", "other"} : Session!OnKeyStatusUpdate(key, m)
    BY <1>5
  <2> DEFINE status == Session!KeyStatus[m]
  <2>2. status \in Statuses /\ status \in Known /\ status # "nothing"
    BY DEF Session!KeyStatus, Statuses, Known
  <2>3. /\ session # "none" /\ telling = Session!None
        /\ session' = session /\ data' = data /\ listening' = listening /\ told' = told /\ toTell' = toTell
        /\ keyIds' = Session!UpdateKeyStatus(keyIds, key, status)
        /\ updated' = [updated EXCEPT ![key] = status]
        /\ telling' = [key |-> key, status |-> status]
    BY <2>1 DEF Session!OnKeyStatusUpdate
  <2> HIDE DEF status
  <2>4. updated \in [Keys -> Known] /\ Keeps(keyIds, Session!Named(data), updated)
    BY <2>3 DEF KeysInv
  <2>5. Keeps(keyIds', Session!Named(data'), updated')
    BY <2>2, <2>3, <2>4, StatusIsKept
  <2>6. updated' \in [Keys -> Known] /\ updated'[key] = status /\ \A k \in Keys : k # key => updated'[k] = updated[k]
    BY <2>2, <2>3, <2>4
  <2>7. Hears(key)'
    BY <2>3, <2>6 DEF Hears
  <2>8. \A k \in Keys : ~Hears(k)
    BY <2>3, NoneIsNothing DEF Hears
  <2>9. \A k \in Keys : \/ told'[k] \in {"nothing", "Pending"} \/ ~listening'
                        \/ told'[k] = updated'[k] \/ Hears(k)'
    BY <2>3, <2>6, <2>7, <2>8 DEF KeysInv
  <2>10. QED BY <2>3, <2>5, <2>6, <2>7, <2>9 DEF KeysInv
<1>6. CASE Session!Told
  <2>1. /\ telling # Session!None /\ telling' = Session!None
        /\ told' = IF listening THEN [told EXCEPT ![telling.key] = telling.status] ELSE told
        /\ session' = session /\ data' = data /\ keyIds' = keyIds /\ toTell' = toTell
        /\ listening' = listening /\ updated' = updated
    BY <1>6 DEF Session!Told
  <2>2. PICK key \in Keys : telling.key = key /\ telling.status = updated[key] /\ \A l \in Keys : Hears(l) => l = key
    BY <2>1, ToldIsKnown
  <2>3. session # "none" /\ told \in [Keys -> Known] /\ updated[key] \in Known
    BY <2>1, ToldIsKnown DEF KeysInv
  <2>4. told' \in [Keys -> Known] /\ \A k \in Keys : told'[k] = IF listening /\ k = key THEN updated[key] ELSE told[k]
    BY <2>1, <2>2, <2>3
  <2>5. \A k \in Keys : \/ told'[k] \in {"nothing", "Pending"} \/ ~listening' \/ told'[k] = updated'[k]
    BY <2>1, <2>2, <2>3, <2>4 DEF KeysInv
  <2>6. Keeps(keyIds', Session!Named(data'), updated')
    BY <2>1, <2>3 DEF KeysInv
  <2>7. QED BY <2>1, <2>3, <2>4, <2>5, <2>6 DEF KeysInv
<1>7. CASE Session!Revoke
  <2>1. /\ session = "open" /\ session' = session /\ ~listening'
        /\ data' = data /\ keyIds' = keyIds /\ toTell' = toTell
        /\ updated' = updated /\ told' = told /\ telling' = telling
    BY <1>7 DEF Session!Revoke
  <2>2. QED BY <2>1 DEF KeysInv, Hears
<1>8. QED BY <1>1, <1>2, <1>3, <1>4, <1>5, <1>6, <1>7 DEF Session!Next

LEMMA KeysAreThere ==
  ASSUME KeysInv
  PROVE  KeysOfTheSession
<1> SUFFICES ASSUME session # "none" PROVE Session!KeysOfTheSession
  BY DEF KeysOfTheSession, Session!KeysOfTheSession
<1> DEFINE pairs == Session!Named(data)
<1>1. data \in InitData /\ Session!WellFormed(data) /\ Keeps(keyIds, pairs, updated)
  BY DataAssumption DEF KeysInv
<1>2. pairs \subseteq Keys \X Session!systemType
  BY <1>1, NamesArePairs
<1>3. Says(Session!Parse(data), pairs)
  BY <1>1, ParseSays
<1> HIDE DEF pairs
<1>4. \A k : (\E n \in pairs : n[1] = k) <=> k \in Keys /\ \E s \in Session!systemType : <<k, s>> \in pairs
  <2>1. \A n \in pairs : n = <<n[1], n[2]>> /\ n[1] \in Keys /\ n[2] \in Session!systemType
    BY <1>2
  <2>2. ASSUME NEW k, NEW n \in pairs, n[1] = k
        PROVE  k \in Keys /\ \E s \in Session!systemType : <<k, s>> \in pairs
    BY <2>1, <2>2
  <2>3. ASSUME NEW k, NEW s, <<k, s>> \in pairs PROVE \E n \in pairs : n[1] = k
    <3>1. <<k, s>>[1] = k
      OBVIOUS
    <3>2. QED BY <2>3, <3>1
  <2>4. QED BY <2>2, <2>3
<1>5. \A i \in 1 .. Len(keyIds) : /\ keyIds[i].id \in Keys /\ keyIds[i].systems \in SUBSET Session!systemType
  BY <1>1, RecordIs DEF Keeps
<1>6. \A i, j \in 1 .. Len(keyIds) : keyIds[i].id = keyIds[j].id => i = j
  BY <1>1 DEF Keeps
<1>7. {k \in Keys : Session!Has(keyIds, k)} = {n[1] : n \in pairs} \cup {k \in Keys : updated[k] # "nothing"}
  <2>1. \A k \in Keys : Session!Has(keyIds, k) <=> (\E s \in Session!systemType : <<k, s>> \in pairs) \/ updated[k] # "nothing"
    BY <1>1 DEF Keeps
  <2>2. QED BY <1>4, <2>1
<1>8. Session!IsSupported(Session!Parse(data))
  <2> DEFINE parsed == Session!Parse(data)
  <2>1. ASSUME NEW i \in 1 .. Len(parsed) PROVE Session!Has(keyIds, parsed[i].id)
    <3> HIDE DEF parsed
    <3>1. parsed[i].id \in Keys /\ parsed[i].systems # {} /\ parsed[i].systems \in SUBSET Session!systemType
      BY <1>3, RecordIs DEF Says, parsed
    <3>2. \E s \in Session!systemType : <<parsed[i].id, s>> \in pairs
      BY <1>3, <3>1 DEF Says, parsed
    <3>3. QED BY <1>1, <3>1, <3>2 DEF Keeps
  <2>2. QED BY <2>1 DEF Session!IsSupported
<1>9. ASSUME NEW i \in 1 .. Len(keyIds)
      PROVE  /\ keyIds[i].systems = {n[2] : n \in {m \in pairs : m[1] = keyIds[i].id}}
             /\ keyIds[i].status = IF updated[keyIds[i].id] = "nothing" THEN "Pending" ELSE updated[keyIds[i].id]
  <2>1. /\ keyIds[i].status = IF updated[keyIds[i].id] = "nothing" THEN "Pending" ELSE updated[keyIds[i].id]
        /\ \A s \in Session!systemType : s \in keyIds[i].systems <=> <<keyIds[i].id, s>> \in pairs
    BY <1>1 DEF Keeps
  <2>2. \A s : s \in {n[2] : n \in {m \in pairs : m[1] = keyIds[i].id}} <=>
                 s \in Session!systemType /\ <<keyIds[i].id, s>> \in pairs
    BY <1>2
  <2>3. \A s : s \in keyIds[i].systems <=> s \in {n[2] : n \in {m \in pairs : m[1] = keyIds[i].id}}
    BY <1>5, <2>1, <2>2
  <2>4. QED BY <2>1, <2>3
<1>10. ASSUME NEW k \in Keys, listening, telling = Session!None, told[k] \notin {"nothing", "Pending"}
       PROVE  told[k] = Session!StatusOf(k)
  <2>1. ~Hears(k)
    BY <1>10, NoneIsNothing DEF Hears
  <2>2. told[k] = updated[k]
    BY <1>10, <2>1 DEF KeysInv
  <2>3. Session!Has(keyIds, k)
    BY <1>1, <1>10, <2>2 DEF Keeps
  <2> DEFINE I == {i \in 1 .. Len(keyIds) : keyIds[i].id = k}
             at == Session!Min(I)
  <2>4. I # {} /\ I \subseteq Nat
    BY <2>3 DEF Session!Has
  <2>5. Session!StatusOf(k) = keyIds[at].status
    BY <2>3, <2>4 DEF Session!StatusOf, Session!SelectInSeq, Session!Min
  <2>6. at \in I
    <3> HIDE DEF I
    <3>1. QED BY <2>4, MinOf
  <2> HIDE DEF at
  <2>7. at \in 1 .. Len(keyIds) /\ keyIds[at].id = k
    BY <2>6
  <2>8. QED BY <1>9, <1>10, <2>2, <2>5, <2>7
<1>11. QED BY <1>6, <1>7, <1>8, <1>9, <1>10 DEF Session!KeysOfTheSession, pairs

\* For any initialization data whose texts are those of PlayReady, in every form, whole or
\* broken, and for any order of announcements, updates and a revoked callback: the session
\* has each key that was named once, for the systems that it was named for, with the status
\* that was told last, and its client knows it (CommonEncryptionData, Sink).
THEOREM KeysAreInOrder == MCSpec => []KeysOfTheSession
<1>1. MCInit => KeysInv
  BY KeysBegin
<1>2. KeysInv /\ [MCNext]_<<group, vars, sessionVars, drmVars>> => KeysInv'
  <2> SUFFICES ASSUME KeysInv, [MCNext]_<<group, vars, sessionVars, drmVars>>
               PROVE  KeysInv'
    OBVIOUS
  <2>1. Session!Next \/ UNCHANGED sessionVars
    BY DEF MCNext
  <2>2. QED BY <2>1, KeysStep
<1>3. KeysInv => KeysOfTheSession
  BY KeysAreThere
<1>4. QED BY <1>1, <1>2, <1>3, PTL DEF MCSpec
=============================================================================
