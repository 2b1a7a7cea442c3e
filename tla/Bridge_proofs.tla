---------------------------- MODULE Bridge_proofs ----------------------------
(***************************************************************************)
(* The safety of the bridges, for any threads, clients, time-out and       *)
(* bounds, with every overlap of Invoke, answers and the job.              *)
(*                                                                         *)
(* That a call gets one reply needs to know where it can be: an id is      *)
(* fresh, in the hands of one thread that is about to enter it, or in the  *)
(* table, and in these three places there is no reply yet.                 *)
(*                                                                         *)
(* Then the bridge between two Thunders, for any plugins and clients: its  *)
(* proxies count the references of those that call, and the events under   *)
(* way are a course from what the link knows to what there is.             *)
(***************************************************************************)
EXTENDS Bridge, MCBridgeLink, FiniteSetTheorems, SequenceTheorems, TLAPS

\* Ids that no call has yet have no replies.
FreshIds == \A i \in Ids : i > sequenceId => replies[i] = <<>>

\* A call in the table is the one that was accepted and has no reply.
TableHoldsCalls ==
  \A i \in DOMAIN pending : pending[i] = caller[i] /\ replies[i] = <<>>

\* A call that is being entered is not in the table yet, has no reply, and
\* is in the hands of one thread.
EntersOnce ==
  \A t \in Emplacing :
    /\ at[t].id \in DOMAIN caller /\ at[t].id \notin DOMAIN pending
    /\ replies[at[t].id] = <<>>
    /\ \A u \in Emplacing : at[u].id = at[t].id => u = t

\* A thread that has entered its call holds an id that was given out.
BusyHasCall == \A t \in Threads : at[t].pc # "idle" => at[t].id \in DOMAIN caller

IInv == /\ TypeOK
        /\ FreshIds /\ TableHoldsCalls /\ EntersOnce /\ BusyHasCall
        /\ OneReply /\ AnswerToItsCaller /\ CleanerWatches

-----------------------------------------------------------------------------
\* A reply that is added is the last one and the others stay.
LEMMA ReplyAdded ==
  ASSUME NEW s \in Seq(Reply), NEW r \in Reply, s = <<>>
  PROVE  Append(s, r) \in Seq(Reply) /\ Len(Append(s, r)) = 1 /\ Append(s, r)[1] = r
OBVIOUS

\* Nothing has been called yet.
LEMMA InitIInv == Init => IInv
<1> SUFFICES ASSUME Init PROVE IInv
  OBVIOUS
<1> USE DEF Init, Idle, Never, Ids
<1>1. TypeOK
  <2>1. DOMAIN caller = 1 .. sequenceId /\ DOMAIN pending \subseteq 1 .. sequenceId
    OBVIOUS
  <2>2. (\A i \in DOMAIN caller : caller[i] \in Call) /\ (\A i \in DOMAIN pending : pending[i] \in Call)
    OBVIOUS
  <2>3. replies \in [Ids -> Seq(Reply)]
    OBVIOUS
  <2>4. at \in [Threads -> [pc : {"idle", "emplace", "forward", "arm"}, id : 0 .. sequenceId]]
    OBVIOUS
  <2>5. timer \in 0 .. MaxTime \cup {Never} /\ slot \in 0 .. MaxTime \cup {Never}
    OBVIOUS
  <2>6. sequenceId \in 0 .. MaxCalls /\ seen \in 0 .. MaxTime /\ now \in 0 .. MaxTime
    BY BoundsAssumption
  <2>7. QED BY <2>1, <2>2, <2>3, <2>4, <2>5, <2>6 DEF TypeOK
<1>2. FreshIds /\ TableHoldsCalls /\ EntersOnce /\ BusyHasCall
  BY DEF FreshIds, TableHoldsCalls, EntersOnce, BusyHasCall, Emplacing
<1>3. OneReply /\ AnswerToItsCaller /\ CleanerWatches
  BY DEF OneReply, AnswerToItsCaller, CleanerWatches
<1>4. QED BY <1>1, <1>2, <1>3 DEF IInv

-----------------------------------------------------------------------------
\* A call gets an id nobody has: it is fresh in the state before.
LEMMA InvokeStartsStep ==
  ASSUME IInv, NEW t \in Threads, NEW c \in Channels, NEW s \in Seqs, InvokeStarts(t, c, s)
  PROVE  IInv'
<1>a. PICK n : n = sequenceId + 1
  OBVIOUS
<1>b. PICK call : call = [channel |-> c, seq |-> s, due |-> now + TimeOut]
  OBVIOUS
<1> USE DEF IInv
<1>1. /\ n \in 1 .. MaxCalls /\ sequenceId' = n /\ n \in Ids /\ sequenceId \in Nat
      /\ call \in Call
      /\ at' = [at EXCEPT ![t] = [pc |-> "emplace", id |-> n]] /\ at[t].pc = "idle"
      /\ caller' = With(n, caller, call)
      /\ UNCHANGED <<pending, overlapped, jobVars, worldVars, replies>>
  BY <1>a, <1>b, TimeOutAssumption, BoundsAssumption DEF InvokeStarts, TypeOK, Call, Ids, Idle
<1>2. /\ DOMAIN caller' = 1 .. n /\ n \notin DOMAIN caller /\ DOMAIN caller' = DOMAIN caller \cup {n}
      /\ caller'[n] = call /\ \A i \in DOMAIN caller : caller'[i] = caller[i]
  <2>1. DOMAIN caller = 1 .. sequenceId
    BY DEF TypeOK
  <2>2. n \notin DOMAIN caller /\ (DOMAIN caller) \cup {n} = 1 .. n
    BY <1>a, <1>1, <2>1
  <2>0. caller' = With(n, caller, call)
    BY <1>a, <1>1
  <2>3. DOMAIN caller' = (DOMAIN caller) \cup {n} /\ caller'[n] = call
    BY <2>0 DEF With
  <2>4. \A i \in DOMAIN caller \ {n} : caller'[i] = caller[i]
    BY <2>0 DEF With
  <2>5. QED BY <2>2, <2>3, <2>4
<1>3. replies[n] = <<>> /\ n \notin DOMAIN pending
  BY <1>a, <1>1, <1>2 DEF FreshIds, TypeOK
<1>4. TypeOK'
  <2>1. at' \in [Threads -> [pc : {"idle", "emplace", "forward", "arm"}, id : 0 .. n]]
    BY <1>a, <1>1, BoundsAssumption DEF TypeOK
  <2>2. \A i \in DOMAIN caller' : caller'[i] \in Call
    BY <1>1, <1>2 DEF TypeOK
  <2>5. DOMAIN pending \subseteq 1 .. n
    BY <1>a, <1>1, <1>2 DEF TypeOK
  <2>3. asked \subseteq 1 .. n
    BY <1>a, <1>1, BoundsAssumption DEF TypeOK
  <2>4. QED BY <1>a, <1>1, <1>2, <2>1, <2>2, <2>3, <2>5 DEF TypeOK, jobVars, worldVars
<1>5. (FreshIds /\ TableHoldsCalls)'
  <2>1. \A i \in DOMAIN pending : caller'[i] = caller[i]
    BY <1>a, <1>1, <1>2 DEF TypeOK
  <2>2. QED BY <1>a, <1>1, <2>1 DEF FreshIds, TableHoldsCalls, TypeOK, Ids
<1>6. (EntersOnce /\ BusyHasCall)'
  <2>1. \A u \in Threads \ {t} : at'[u] = at[u]
    BY <1>a, <1>1 DEF TypeOK
  <2>2. at'[t].pc = "emplace" /\ at'[t].id = n
    BY <1>a, <1>1 DEF TypeOK
  <2>3. \A u \in Threads \ {t} : at[u].pc # "idle" => at[u].id \in DOMAIN caller /\ at[u].id # n
    BY <1>2 DEF BusyHasCall
  <2>4. BusyHasCall'
    <3> SUFFICES ASSUME NEW u \in Threads, at'[u].pc # "idle"
                 PROVE  at'[u].id \in DOMAIN caller'
      BY DEF BusyHasCall
    <3>1. CASE u = t
      BY <1>2, <2>2, <3>1
    <3>2. CASE u # t
      BY <1>2, <2>1, <2>3, <3>2
    <3>3. QED BY <3>1, <3>2
  <2>5. Emplacing' = Emplacing \cup {t}
    BY <2>1, <2>2 DEF Emplacing
  <2>6. EntersOnce'
    <3>1. \A u \in Emplacing : u # t
      BY <1>1 DEF Emplacing
    <3>2. \A u \in Emplacing : at'[u] = at[u] /\ at[u].id # n /\ at[u].id \in DOMAIN caller'
      BY <1>2, <2>1, <2>3, <3>1 DEF Emplacing
    <3>3. \A u \in Emplacing' : at'[u].id \in DOMAIN caller' /\ at'[u].id \notin DOMAIN pending /\ replies[at'[u].id] = <<>>
      BY <1>2, <1>3, <2>2, <2>5, <3>2 DEF EntersOnce
    <3>4. \A u, v \in Emplacing' : at'[u].id = at'[v].id => u = v
      BY <2>2, <2>5, <3>2 DEF EntersOnce
    <3>5. QED BY <1>1, <3>3, <3>4 DEF EntersOnce
  <2>7. QED BY <2>4, <2>6
<1>7. (OneReply /\ AnswerToItsCaller)'
  <2>1. \A i \in DOMAIN caller : Len(replies[i]) <= 1
    BY DEF OneReply
  <2>2. \A i \in DOMAIN caller' : Len(replies[i]) <= 1 /\ (replies[i] # <<>> => i \in DOMAIN caller)
    BY <1>a, <1>1, <1>2, <1>3, <2>1 DEF TypeOK
  <2>3. OneReply'
    BY <1>a, <1>1, <1>5, <1>6, <2>2 DEF OneReply, TableHoldsCalls, EntersOnce
  <2>4. AnswerToItsCaller'
    <3> SUFFICES ASSUME NEW i \in DOMAIN caller', NEW k \in 1 .. Len(replies[i]),
                        replies[i][k].kind = "answer"
                 PROVE  replies[i][k].channel = caller'[i].channel /\ replies[i][k].seq = caller'[i].seq
      BY <1>a, <1>1 DEF AnswerToItsCaller
    <3>1. replies[i] # <<>>
      OBVIOUS
    <3>2. QED BY <1>2, <2>2, <3>1 DEF AnswerToItsCaller
  <2>5. QED BY <2>3, <2>4
<1>8. CleanerWatches'
  <2>1. \A u \in Threads : at[u].pc \in {"forward", "arm"} => at'[u] = at[u]
    BY <1>a, <1>1 DEF TypeOK
  <2>2. QED BY <1>a, <1>1, <2>1 DEF CleanerWatches, jobVars
<1>9. QED BY <1>4, <1>5, <1>6, <1>7, <1>8

\* The entry is the call of the thread, and the only one with its id, even where
\* the emplace loses another one.
LEMMA InvokeEmplacesStep ==
  ASSUME IInv, NEW t \in Threads, InvokeEmplaces(t)
  PROVE  IInv'
<1>a. PICK n : n = at[t].id
  OBVIOUS
<1> USE DEF IInv
<1>1. /\ t \in Emplacing /\ n \in DOMAIN caller /\ n \notin DOMAIN pending /\ replies[n] = <<>>
      /\ \A u \in Emplacing : at[u].id = n => u = t
      /\ at' = [at EXCEPT ![t].pc = "forward"]
      /\ UNCHANGED <<sequenceId, jobVars, worldVars, histVars>>
  BY <1>a DEF InvokeEmplaces, EntersOnce, Emplacing
<1>2. /\ at' \in [Threads -> [pc : {"idle", "emplace", "forward", "arm"}, id : 0 .. sequenceId]]
      /\ at'[t].pc = "forward" /\ \A u \in Threads : at'[u].id = at[u].id
      /\ \A u \in Threads \ {t} : at'[u] = at[u]
  BY <1>1 DEF TypeOK
<1>3. /\ DOMAIN pending' \subseteq DOMAIN pending \cup {n}
      /\ n \in DOMAIN pending' => pending'[n] = caller[n]
      /\ \A i \in DOMAIN pending : i \in DOMAIN pending' /\ pending'[i] = pending[i]
  <2>1. CASE pending' = With(n, pending, caller[n])
    BY <2>1, <1>1 DEF With
  <2>2. CASE UNCHANGED pending
    BY <2>2, <1>1
  <2>3. QED BY <1>a, <2>1, <2>2 DEF InvokeEmplaces
<1>4. Emplacing' = Emplacing \ {t}
  BY <1>2 DEF Emplacing
<1>5. TypeOK'
  <2>1. \A i \in DOMAIN pending' : pending'[i] \in Call
    BY <1>1, <1>3 DEF TypeOK
  <2>2. overlapped' \subseteq Threads
    BY DEF InvokeEmplaces, TypeOK, Emplacing
  <2>3. DOMAIN pending' \subseteq 1 .. sequenceId
    BY <1>1, <1>3 DEF TypeOK
  <2>4. QED BY <1>1, <1>2, <2>1, <2>2, <2>3 DEF TypeOK, jobVars, worldVars, histVars
<1>6. (FreshIds /\ TableHoldsCalls)'
  BY <1>1, <1>3 DEF FreshIds, TableHoldsCalls, histVars
<1>7. (EntersOnce /\ BusyHasCall)'
  <2>1. \A u \in Emplacing' : u \in Emplacing /\ at'[u] = at[u] /\ at[u].id # n
    BY <1>1, <1>2, <1>4 DEF Emplacing
  <2>2. EntersOnce'
    BY <1>1, <1>3, <1>4, <2>1 DEF EntersOnce, histVars
  <2>3. BusyHasCall'
    BY <1>a, <1>1, <1>2 DEF BusyHasCall, histVars
  <2>4. QED BY <2>2, <2>3
<1>8. (OneReply /\ AnswerToItsCaller)'
  BY <1>1, <1>6, <1>7 DEF OneReply, AnswerToItsCaller, TableHoldsCalls, EntersOnce, histVars
<1>9. CleanerWatches'
  BY <1>2 DEF CleanerWatches
<1>10. QED BY <1>5, <1>6, <1>7, <1>8, <1>9

\* Steps that change neither the calls nor their replies.
LEMMA CallsUntouched ==
  ASSUME IInv, TypeOK', UNCHANGED <<sequenceId, pending, histVars>>,
         \A t \in Threads : at'[t] # at[t] => at[t].pc \in {"forward", "arm"} /\ at'[t].pc \in {"idle", "arm"}
                                             /\ at'[t].id \in {0, at[t].id} /\ (at'[t].pc = "arm" => at'[t].id = at[t].id)
  PROVE  (FreshIds /\ TableHoldsCalls /\ EntersOnce /\ BusyHasCall /\ OneReply /\ AnswerToItsCaller)'
<1> USE DEF IInv
<1>1. Emplacing' = Emplacing /\ \A t \in Emplacing : at'[t] = at[t]
  BY DEF Emplacing
<1>2. (FreshIds /\ TableHoldsCalls /\ AnswerToItsCaller)'
  BY DEF FreshIds, TableHoldsCalls, AnswerToItsCaller, histVars
<1>3. (EntersOnce /\ OneReply)'
  BY <1>1 DEF EntersOnce, OneReply, histVars
<1>4. BusyHasCall'
  <2> SUFFICES ASSUME NEW t \in Threads, at'[t].pc # "idle"
               PROVE  at'[t].id \in DOMAIN caller'
    BY DEF BusyHasCall
  <2>1. CASE at'[t] = at[t]
    BY <2>1 DEF BusyHasCall, histVars
  <2>2. CASE at'[t] # at[t]
    BY <2>2 DEF BusyHasCall, histVars
  <2>3. QED BY <2>1, <2>2
<1>5. QED BY <1>2, <1>3, <1>4

\* Sending the call to the server changes neither table nor replies.
LEMMA InvokeForwardsStep ==
  ASSUME IInv, NEW t \in Threads, InvokeForwards(t)
  PROVE  IInv'
<1> USE DEF IInv
<1>1. /\ at[t].pc = "forward" /\ at' = [at EXCEPT ![t].pc = "arm"] /\ at \in [Threads -> [pc : {"idle", "emplace", "forward", "arm"}, id : 0 .. sequenceId]]
      /\ UNCHANGED <<sequenceId, pending, overlapped, server, service, now, jobVars, histVars>>
      /\ asked' \subseteq asked \cup {at[t].id} /\ at[t].id \in DOMAIN caller
  BY DEF InvokeForwards, BusyHasCall, TypeOK
<1>2. /\ at'[t].pc = "arm" /\ at'[t].id = at[t].id /\ \A u \in Threads \ {t} : at'[u] = at[u]
      /\ at' \in [Threads -> [pc : {"idle", "emplace", "forward", "arm"}, id : 0 .. sequenceId]]
  BY <1>1
<1>3. asked' \subseteq 1 .. sequenceId
  BY <1>1 DEF TypeOK
<1>4. TypeOK'
  BY <1>1, <1>2, <1>3 DEF TypeOK, jobVars, histVars
<1>5. (FreshIds /\ TableHoldsCalls /\ EntersOnce /\ BusyHasCall /\ OneReply /\ AnswerToItsCaller)'
  BY <1>1, <1>2, <1>4, CallsUntouched
<1>6. CleanerWatches'
  BY <1>2 DEF CleanerWatches
<1>7. QED BY <1>4, <1>5, <1>6

\* The cleaner is scheduled for the call of the thread.
LEMMA InvokeArmsStep ==
  ASSUME IInv, NEW t \in Threads, InvokeArms(t)
  PROVE  IInv'
<1> USE DEF IInv
<1>1. /\ at[t].pc = "arm" /\ at' = [at EXCEPT ![t] = Idle] /\ at \in [Threads -> [pc : {"idle", "emplace", "forward", "arm"}, id : 0 .. sequenceId]]
      /\ UNCHANGED <<sequenceId, pending, overlapped, job, seen, slot, worldVars, histVars>>
      /\ at[t].id \in DOMAIN caller
  BY DEF InvokeArms, BusyHasCall, TypeOK
<1>2. /\ at'[t].pc = "idle" /\ at'[t].id = 0 /\ \A u \in Threads \ {t} : at'[u] = at[u]
      /\ at' \in [Threads -> [pc : {"idle", "emplace", "forward", "arm"}, id : 0 .. sequenceId]]
  BY <1>1, BoundsAssumption DEF Idle, TypeOK
<1>3. caller[at[t].id].due \in 0 .. MaxTime /\ (TimeOut # 0 => timer' = caller[at[t].id].due)
      /\ timer' \in 0 .. MaxTime \cup {Never}
  BY <1>1 DEF TypeOK, Call, InvokeArms
<1>4. TypeOK'
  BY <1>1, <1>2, <1>3 DEF TypeOK, worldVars, histVars
<1>5. (FreshIds /\ TableHoldsCalls /\ EntersOnce /\ BusyHasCall /\ OneReply /\ AnswerToItsCaller)'
  BY <1>1, <1>2, <1>4, CallsUntouched
<1>6. CleanerWatches'
  BY <1>3, BoundsAssumption DEF CleanerWatches, Never
<1>7. QED BY <1>4, <1>5, <1>6

\* An answer finds the entry, which has no reply yet, and takes it out.
LEMMA AnswerStep ==
  ASSUME IInv, NEW id \in Ids, Answer(id)
  PROVE  IInv'
<1>a. PICK r : r = AnswerFor(id)
  OBVIOUS
<1> USE DEF IInv
<1>1. /\ id \in DOMAIN pending /\ id \in DOMAIN caller /\ pending[id] = caller[id] /\ replies[id] = <<>>
      /\ replies' = [replies EXCEPT ![id] = Append(replies[id], r)]
      /\ pending' = Without({id}, pending)
      /\ UNCHANGED <<sequenceId, at, jobVars, worldVars, caller>>
  BY <1>a DEF Answer, Answered, TypeOK, TableHoldsCalls
<1>2. r.kind = "answer" /\ r.channel = caller[id].channel /\ r.seq = caller[id].seq /\ r \in Reply
  BY <1>a, <1>1 DEF AnswerFor, TypeOK, Call, Reply
<1>3. replies'[id] \in Seq(Reply) /\ Len(replies'[id]) = 1 /\ replies'[id][1] = r
  BY <1>1, <1>2, ReplyAdded DEF TypeOK
<1>4. /\ replies' \in [Ids -> Seq(Reply)] /\ \A i \in Ids \ {id} : replies'[i] = replies[i]
  BY <1>1, <1>3 DEF TypeOK
<1>5. DOMAIN pending' = DOMAIN pending \ {id} /\ \A i \in DOMAIN pending' : pending'[i] = pending[i]
  BY <1>1 DEF Without
<1>6. Emplacing' = Emplacing /\ \A t \in Emplacing : at[t].id # id
  BY <1>1 DEF Emplacing, EntersOnce
<1>7. DOMAIN caller \subseteq Ids
  BY BoundsAssumption DEF TypeOK, Ids
<1>8. TypeOK'
  <2>1. overlapped' \subseteq Threads
    BY DEF Answer, TypeOK, Emplacing
  <2>2. QED BY <1>1, <1>4, <1>5, <2>1 DEF TypeOK, jobVars, worldVars
<1>9. (FreshIds /\ TableHoldsCalls)'
  <2>1. id \in 1 .. sequenceId /\ sequenceId \in Nat
    BY <1>1, BoundsAssumption DEF TypeOK
  <2>2. FreshIds'
    <3>1. \A i \in Ids : i > sequenceId => i # id
      BY <2>1 DEF Ids
    <3>2. QED BY <1>1, <1>4, <3>1 DEF FreshIds
  <2>3. TableHoldsCalls'
    BY <1>1, <1>4, <1>5, <1>7 DEF TableHoldsCalls, TypeOK
  <2>4. QED BY <2>2, <2>3
<1>10. (EntersOnce /\ BusyHasCall)'
  <2>1. \A t \in Emplacing : at[t].id \in Ids \ {id}
    BY <1>6, <1>7 DEF EntersOnce
  <2>2. QED BY <1>1, <1>4, <1>5, <1>6, <2>1 DEF EntersOnce, BusyHasCall
<1>11. (OneReply /\ AnswerToItsCaller)'
  <2>1. \A i \in DOMAIN caller : Len(replies'[i]) <= 1
    <3> SUFFICES ASSUME NEW i \in DOMAIN caller PROVE Len(replies'[i]) <= 1
      OBVIOUS
    <3>1. CASE i = id
      <4>1. Len(replies'[i]) = 1
        BY <1>3, <3>1
      <4>2. QED BY <4>1
    <3>2. CASE i # id
      <4>1. replies'[i] = replies[i]
        BY <1>4, <1>7, <3>2
      <4>2. Len(replies[i]) <= 1
        BY DEF OneReply
      <4>3. QED BY <4>1, <4>2
    <3>3. QED BY <3>1, <3>2
  <2>2. OneReply'
    BY <1>1, <1>9, <1>10, <2>1 DEF OneReply, TableHoldsCalls, EntersOnce
  <2>3. AnswerToItsCaller'
    <3> SUFFICES ASSUME NEW i \in DOMAIN caller, NEW k \in 1 .. Len(replies'[i]),
                        replies'[i][k].kind = "answer"
                 PROVE  replies'[i][k].channel = caller[i].channel /\ replies'[i][k].seq = caller[i].seq
      BY <1>1 DEF AnswerToItsCaller
    <3>1. CASE i = id
      <4>1. k = 1
        BY <1>3, <3>1
      <4>2. QED BY <1>2, <1>3, <3>1, <4>1
    <3>2. CASE i # id
      BY <1>4, <1>7, <3>2 DEF AnswerToItsCaller
    <3>3. QED BY <3>1, <3>2
  <2>4. QED BY <2>2, <2>3
<1>12. CleanerWatches'
  <2>1. pending' # <<>> => pending # <<>>
    BY <1>1
  <2>2. QED BY <1>1, <2>1 DEF CleanerWatches, jobVars
<1>13. QED BY <1>8, <1>9, <1>10, <1>11, <1>12

\* The cleaner that scans is not scheduled any more.
LEMMA JobStartsStep ==
  ASSUME IInv, JobStarts
  PROVE  IInv'
<1> USE DEF IInv
<1>1. TypeOK'
  BY DEF JobStarts, TypeOK, worldVars, histVars
<1>2. (FreshIds /\ TableHoldsCalls /\ EntersOnce /\ BusyHasCall /\ OneReply /\ AnswerToItsCaller)'
  BY <1>1, CallsUntouched DEF JobStarts
<1>3. CleanerWatches'
  BY DEF JobStarts, CleanerWatches
<1>4. QED BY <1>1, <1>2, <1>3

\* The cleaner replies to the calls that it takes out, once each.
LEMMA JobScansStep ==
  ASSUME IInv, JobScans
  PROVE  IInv'
<1> USE DEF IInv
<1>1. /\ job = "scan" /\ job' = "reschedule" /\ seen' = 0 /\ slot' \in NextSlots
      /\ pending' = Without(Expired, pending)
      /\ overlapped' \in {overlapped, overlapped \cup Emplacing}
      /\ UNCHANGED <<sequenceId, at, timer, worldVars, caller>>
  BY DEF JobScans
<1>2. PICK order \in Orders, garbage \in Channels \cup {Nobody} : replies' = RepliesAfterScan(order, garbage)
  BY DEF JobScans
<1>3. DOMAIN caller \subseteq Ids /\ DOMAIN pending \subseteq DOMAIN caller /\ Expired \subseteq DOMAIN pending
  BY BoundsAssumption DEF TypeOK, Ids, Expired
<1>4. DOMAIN pending' = DOMAIN pending \ Expired /\ \A i \in DOMAIN pending' : pending'[i] = pending[i]
  BY <1>1 DEF Without
<1>5. \A i \in Ids \ Expired : replies'[i] = replies[i]
  BY <1>2 DEF RepliesAfterScan
<1>6. ASSUME NEW i \in Expired
      PROVE  /\ replies'[i] \in Seq(Reply) /\ Len(replies'[i]) = 1 /\ replies'[i][1].kind = "timeout"
  <2>1. PICK r : r = [kind |-> "timeout", seq |-> pending[i].seq, channel |-> ChannelAfter(i, order, garbage)]
    OBVIOUS
  <2>2. ChannelAfter(i, order, garbage) \in Channels \cup {Nobody}
    BY DEF ChannelAfter, TypeOK, Call
  <2>3. pending[i].seq \in Seqs
    BY <1>3 DEF TypeOK, Call
  <2>4. r \in Reply /\ r.kind = "timeout"
    BY <2>1, <2>2, <2>3 DEF Reply
  <2>5. replies[i] = <<>> /\ replies[i] \in Seq(Reply)
    BY <1>3 DEF TableHoldsCalls, TypeOK
  <2>6. replies'[i] = Append(replies[i], r)
    BY <1>2, <1>3, <2>1 DEF RepliesAfterScan
  <2>7. QED BY <2>4, <2>5, <2>6, ReplyAdded
<1>7. replies' \in [Ids -> Seq(Reply)]
  <2>1. DOMAIN replies' = Ids /\ replies' = [i \in Ids |-> replies'[i]]
    BY <1>2 DEF RepliesAfterScan
  <2>2. \A i \in Ids : replies'[i] \in Seq(Reply)
    BY <1>5, <1>6 DEF TypeOK
  <2>3. QED BY <2>1, <2>2
<1>8. /\ slot' \in 0 .. MaxTime \cup {Never}
      /\ DOMAIN pending' # {} => slot' \in 0 .. MaxTime
  <2>1. \A i \in DOMAIN pending : pending[i].due \in 0 .. MaxTime
    BY DEF TypeOK, Call
  <2>2. QED BY <1>1, <1>4, <2>1 DEF NextSlots
<1>9. TypeOK'
  <2>1. overlapped' \subseteq Threads
    BY <1>1 DEF TypeOK, Emplacing
  <2>2. \A i \in DOMAIN pending' : pending'[i] \in Call
    BY <1>4 DEF TypeOK
  <2>3. seen' \in 0 .. MaxTime
    BY <1>1, BoundsAssumption
  <2>4. DOMAIN pending' \subseteq 1 .. sequenceId
    BY <1>4 DEF TypeOK
  <2>5. QED BY <1>1, <1>7, <1>8, <2>1, <2>2, <2>3, <2>4 DEF TypeOK, worldVars
<1>10. Emplacing' = Emplacing /\ \A t \in Emplacing : at[t].id \in Ids \ Expired /\ at[t].id \notin DOMAIN pending
  BY <1>1, <1>3 DEF Emplacing, EntersOnce
<1>11. (FreshIds /\ TableHoldsCalls /\ EntersOnce /\ BusyHasCall)'
  <2>1. \A i \in Ids : i > sequenceId => i \notin Expired
    BY <1>3 DEF TypeOK
  <2>2. FreshIds'
    BY <1>1, <1>5, <2>1 DEF FreshIds
  <2>3. TableHoldsCalls'
    BY <1>1, <1>3, <1>4, <1>5 DEF TableHoldsCalls
  <2>4. EntersOnce' /\ BusyHasCall'
    BY <1>1, <1>4, <1>5, <1>10 DEF EntersOnce, BusyHasCall
  <2>5. QED BY <2>2, <2>3, <2>4
<1>12. (OneReply /\ AnswerToItsCaller)'
  <2>1. \A i \in DOMAIN caller : Len(replies'[i]) <= 1
    <3> SUFFICES ASSUME NEW i \in DOMAIN caller PROVE Len(replies'[i]) <= 1
      OBVIOUS
    <3>1. CASE i \in Expired
      <4>1. Len(replies'[i]) = 1
        BY <1>6, <3>1
      <4>2. QED BY <4>1
    <3>2. CASE i \notin Expired
      <4>1. replies'[i] = replies[i]
        BY <1>3, <1>5, <3>2
      <4>2. Len(replies[i]) <= 1
        BY DEF OneReply
      <4>3. QED BY <4>1, <4>2
    <3>3. QED BY <3>1, <3>2
  <2>2. OneReply'
    BY <1>1, <1>11, <2>1 DEF OneReply, TableHoldsCalls, EntersOnce
  <2>3. AnswerToItsCaller'
    <3> SUFFICES ASSUME NEW i \in DOMAIN caller, NEW k \in 1 .. Len(replies'[i]),
                        replies'[i][k].kind = "answer"
                 PROVE  replies'[i][k].channel = caller[i].channel /\ replies'[i][k].seq = caller[i].seq
      BY <1>1 DEF AnswerToItsCaller
    <3>1. CASE i \in Expired
      <4>1. k = 1
        BY <1>6, <3>1
      <4>2. QED BY <1>6, <3>1, <4>1
    <3>2. CASE i \notin Expired
      BY <1>3, <1>5, <3>2 DEF AnswerToItsCaller
    <3>3. QED BY <3>1, <3>2
  <2>4. QED BY <2>2, <2>3
<1>13. CleanerWatches'
  <2>1. pending' # <<>> => DOMAIN pending' # {}
    BY <1>1 DEF Without
  <2>2. QED BY <1>1, <1>8, <2>1, BoundsAssumption DEF CleanerWatches, Never
<1>14. QED BY <1>9, <1>11, <1>12, <1>13

\* The cleaner schedules itself for the calls that it left in the table.
LEMMA JobReschedulesStep ==
  ASSUME IInv, JobReschedules
  PROVE  IInv'
<1> USE DEF IInv
<1>1. TypeOK'
  BY DEF JobReschedules, TypeOK, worldVars, histVars
<1>2. (FreshIds /\ TableHoldsCalls /\ EntersOnce /\ BusyHasCall /\ OneReply /\ AnswerToItsCaller)'
  BY <1>1, CallsUntouched DEF JobReschedules
<1>3. CleanerWatches'
  BY DEF JobReschedules, CleanerWatches
<1>4. QED BY <1>1, <1>2, <1>3

\* The server comes and goes, the plugin stops, time passes.
LEMMA WorldStep ==
  ASSUME IInv, Attach \/ Detach \/ Deinitialize \/ Crash \/ Tick \/ UNCHANGED vars
  PROVE  IInv'
<1> USE DEF IInv
<1>1. UNCHANGED <<sequenceId, pending, at, overlapped, jobVars, histVars>>
  BY DEF Attach, Detach, Deinitialize, Crash, Tick, vars
<1>2. now' \in 0 .. MaxTime /\ server' \in BOOLEAN /\ service' \in {"up", "released", "crashed"} /\ asked' \subseteq asked
  <2>1. CASE Attach \/ Detach
    BY <2>1 DEF Attach, Detach, TypeOK
  <2>2. CASE Deinitialize \/ Crash
    BY <2>2 DEF Deinitialize, Crash, TypeOK
  <2>3. CASE Tick
    BY <2>3, BoundsAssumption DEF Tick, TypeOK
  <2>4. CASE UNCHANGED vars
    BY <2>4 DEF vars, worldVars, TypeOK
  <2>5. QED BY <2>1, <2>2, <2>3, <2>4
<1>3. TypeOK'
  BY <1>1, <1>2 DEF TypeOK, jobVars, histVars
<1>4. (FreshIds /\ TableHoldsCalls /\ EntersOnce /\ BusyHasCall /\ OneReply /\ AnswerToItsCaller)'
  BY <1>1, <1>3, CallsUntouched
<1>5. CleanerWatches'
  BY <1>1 DEF CleanerWatches, jobVars
<1>6. QED BY <1>3, <1>4, <1>5

-----------------------------------------------------------------------------
\* Every step keeps the invariant.
LEMMA StepIInv == IInv /\ [Next]_vars => IInv'
<1> SUFFICES ASSUME IInv, [Next]_vars PROVE IInv'
  OBVIOUS
<1>1. CASE \E t \in Threads : Invoke(t)
  BY <1>1, InvokeStartsStep, InvokeEmplacesStep, InvokeForwardsStep, InvokeArmsStep DEF Invoke
<1>2. CASE Server
  BY <1>2, AnswerStep, WorldStep DEF Server
<1>3. CASE Job
  BY <1>3, JobStartsStep, JobScansStep, JobReschedulesStep DEF Job
<1>4. CASE Deinitialize \/ Crash \/ Tick \/ UNCHANGED vars
  BY <1>4, WorldStep
<1>5. QED BY <1>1, <1>2, <1>3, <1>4 DEF Next

\* The inductive invariant holds in every state of the bridge.
THEOREM Invariance == Spec => []IInv
<1>1. QED BY InitIInv, StepIInv, PTL DEF Spec

\* The state of a bridge is well typed.
THEOREM BridgeTypeCorrect == Spec => []TypeOK
<1>1. IInv => TypeOK
  BY DEF IInv
<1>2. QED BY <1>1, Invariance, PTL

\* No call is replied to twice, or while it is still in the table.
THEOREM BridgeRepliesOnce == Spec => []OneReply
<1>1. IInv => OneReply
  BY DEF IInv
<1>2. QED BY <1>1, Invariance, PTL

\* Answers reach the client that called, under the id it used.
THEOREM BridgeAnswersItsCaller == Spec => []AnswerToItsCaller
<1>1. IInv => AnswerToItsCaller
  BY DEF IInv
<1>2. QED BY <1>1, Invariance, PTL

\* No overlap of calls and job leaves waiting calls without a scheduled job.
THEOREM BridgeCleanerWatches == Spec => []CleanerWatches
<1>1. IInv => CleanerWatches
  BY DEF IInv
<1>2. QED BY <1>1, Invariance, PTL

\* A call that leaves the table leaves it with a reply.
THEOREM BridgeLeavesWithReply == Spec => LeavesWithReply
<1>1. ASSUME IInv, [Next]_vars
      PROVE  [\A i \in DOMAIN pending \ DOMAIN pending' : Len(replies'[i]) = Len(replies[i]) + 1]_vars
  <2> SUFFICES ASSUME Next, NEW i \in DOMAIN pending, i \notin DOMAIN pending'
               PROVE  Len(replies'[i]) = Len(replies[i]) + 1
    BY <1>1
  <2>0. i \in Ids /\ replies[i] \in Seq(Reply)
    BY <1>1, BoundsAssumption DEF IInv, TypeOK, Ids
  <2>1. ASSUME NEW id \in Ids, Answer(id)
        PROVE  Len(replies'[i]) = Len(replies[i]) + 1
    <3>1. i = id
      BY <2>1 DEF Answer, Answered, Without
    <3>2. replies'[i] = Append(replies[i], AnswerFor(i))
      BY <2>0, <2>1, <3>1, <1>1 DEF Answer, IInv, TypeOK
    <3>3. QED BY <2>0, <3>2
  <2>2. CASE JobScans
    <3>1. i \in Expired
      BY <2>2 DEF JobScans, Without
    <3>2. PICK order, garbage : replies' = RepliesAfterScan(order, garbage)
      BY <2>2 DEF JobScans
    <3>3. \E r : replies'[i] = Append(replies[i], r)
      BY <2>0, <3>1, <3>2 DEF RepliesAfterScan
    <3>4. QED BY <2>0, <3>3
  <2>3. CASE \E t \in Threads : Invoke(t)
    BY <2>3 DEF Invoke, InvokeStarts, InvokeEmplaces, InvokeForwards, InvokeArms, With
  <2>4. CASE Attach \/ Detach \/ JobStarts \/ JobReschedules \/ Deinitialize \/ Crash \/ Tick
    BY <2>4 DEF Attach, Detach, JobStarts, JobReschedules, Deinitialize, Crash, Tick
  <2>5. QED BY <2>1, <2>2, <2>3, <2>4 DEF Next, Server, Job
<1>2. QED BY <1>1, Invariance, PTL DEF Spec, LeavesWithReply

\* Every call gets its own reply, once, for any number of clients and ids.
THEOREM BridgeRepliesInOrder == Spec => []RepliesInOrder
<1>1. IInv => RepliesInOrder
  BY DEF IInv, RepliesInOrder
<1>2. QED BY <1>1, Invariance, PTL
-----------------------------------------------------------------------------
(* The proxy of BridgeLink.  It shares nothing with the above.             *)

\* Clients that call the shell, or the dispatcher.
Callers(of) == {c \in Clients : asks[c].at = "calling" /\ asks[c].of = of}

\* What is asked does not matter.
Questions == {asks[c].what : c \in Clients}

ProxyTypes ==
  /\ shell \in BOOLEAN /\ dispatcher \in BOOLEAN
  /\ asks \in [Clients -> [at : {"none", "calling", "default"}, what : Questions,
                           of : {"none", "shell", "dispatcher"}]]
  /\ \A c \in Clients : asks[c].at = "calling" => asks[c].of # "none"

\* Each call has a reference of its own, and so has the proxy.
RefsAccountFor(of, refs, kept) ==
  /\ IsFiniteSet(Callers(of))
  /\ refs = Cardinality(Callers(of)) + (IF kept THEN 1 ELSE 0)

ProxyInv ==
  /\ ProxyTypes
  /\ RefsAccountFor("shell", shellRefs, shell)
  /\ RefsAccountFor("dispatcher", dispatcherRefs, dispatcher)
  /\ dispatcher => state = "ACTIVATED"

LEMMA ProxyStarts == ProxyOf!Init => ProxyInv
<1> SUFFICES ASSUME ProxyOf!Init PROVE ProxyInv
  OBVIOUS
<1>1. ProxyTypes
  BY DEF ProxyOf!Init, ProxyTypes, Questions, ProxyOf!Quiet
<1>2. \A of : Callers(of) = {}
  BY DEF ProxyOf!Init, Callers, ProxyOf!Quiet
<1> QED
  BY <1>1, <1>2, FS_EmptySet DEF ProxyInv, RefsAccountFor, ProxyOf!Init

\* One caller more, or one less.
LEMMA CallerComes ==
  ASSUME NEW of, IsFiniteSet(Callers(of)), NEW c, c \notin Callers(of),
         Callers(of)' = Callers(of) \cup {c}
  PROVE  IsFiniteSet(Callers(of)') /\ Cardinality(Callers(of)') = Cardinality(Callers(of)) + 1
BY FS_AddElement

LEMMA CallerGoes ==
  ASSUME NEW of, IsFiniteSet(Callers(of)), NEW c, c \in Callers(of),
         Callers(of)' = Callers(of) \ {c}
  PROVE  IsFiniteSet(Callers(of)') /\ Cardinality(Callers(of)') = Cardinality(Callers(of)) - 1
BY FS_RemoveElement

LEMMA ProxyGoesOn == ProxyInv /\ [ProxyOf!Next]_(ProxyOf!proxyVars) => ProxyInv'
<1> SUFFICES ASSUME ProxyInv, [ProxyOf!Next]_(ProxyOf!proxyVars) PROVE ProxyInv'
  OBVIOUS
<1> USE DEF ProxyInv, RefsAccountFor
<1>0. \A of \in {"shell", "dispatcher"} : Cardinality(Callers(of)) \in Nat
  BY FS_CardinalityType
<1>1. ASSUME UNCHANGED asks PROVE \A of : Callers(of)' = Callers(of)
  BY <1>1 DEF Callers
<1>2. ASSUME NEW c \in Clients, ProxyOf!Ask(c) PROVE ProxyInv'
  <2> USE <1>2 DEF ProxyOf!Ask
  <2>1. c \notin Callers("shell") /\ c \notin Callers("dispatcher")
    BY DEF Callers
  <2>2. ASSUME NEW what, ProxyOf!Source(c, what) PROVE ProxyInv'
    <3> USE <2>2 DEF ProxyOf!Source, ProxyOf!Takes
    <3>1. ProxyTypes'
      BY DEF ProxyTypes, Questions
    <3>2. Callers("shell")' = Callers("shell") \cup {c} /\ Callers("dispatcher")' = Callers("dispatcher")
      BY <2>1 DEF Callers, ProxyTypes
    <3> QED
      BY <1>0, <2>1, <3>1, <3>2, CallerComes
  <2>3. ASSUME NEW what, ProxyOf!Link(c, what) PROVE ProxyInv'
    <3> USE <2>3 DEF ProxyOf!Link, ProxyOf!Takes
    <3>1. ProxyTypes'
      BY DEF ProxyTypes, Questions
    <3>2. Callers("dispatcher")' = Callers("dispatcher") \cup {c} /\ Callers("shell")' = Callers("shell")
      BY <2>1 DEF Callers, ProxyTypes
    <3> QED
      BY <1>0, <2>1, <3>1, <3>2, CallerComes
  <2>4. ASSUME NEW what, ProxyOf!Answered(c, what) PROVE ProxyInv'
    <3> USE <2>4 DEF ProxyOf!Answered
    <3>1. ProxyTypes'
      BY DEF ProxyTypes, Questions
    <3>2. Callers("dispatcher")' = Callers("dispatcher") /\ Callers("shell")' = Callers("shell")
      BY <2>1 DEF Callers, ProxyTypes
    <3> QED
      BY <1>0, <3>1, <3>2
  <2> QED
    BY <2>2, <2>3, <2>4
<1>3. ASSUME NEW c \in Clients, ProxyOf!Return(c) PROVE ProxyInv'
  <2> USE <1>3 DEF ProxyOf!Return, ProxyOf!Quiet
  <2>1. ProxyTypes'
    BY DEF ProxyTypes, Questions
  <2>2. CASE asks[c].of = "shell"
    <3>1. Callers("shell")' = Callers("shell") \ {c} /\ Callers("dispatcher")' = Callers("dispatcher")
          /\ c \in Callers("shell")
      BY <2>2 DEF Callers, ProxyTypes
    <3> QED
      BY <1>0, <2>1, <2>2, <3>1, CallerGoes
  <2>3. CASE asks[c].of # "shell"
    <3>1. Callers("dispatcher")' = Callers("dispatcher") \ {c} /\ Callers("shell")' = Callers("shell")
          /\ c \in Callers("dispatcher")
      BY <2>3 DEF Callers, ProxyTypes
    <3> QED
      BY <1>0, <2>1, <2>3, <3>1, CallerGoes
  <2> QED
    BY <2>2, <2>3
<1>4. CASE ProxyOf!Note \/ ProxyOf!Report \/ ProxyOf!Unlink \/ UNCHANGED ProxyOf!proxyVars
  <2> USE <1>4 DEF ProxyOf!Note, ProxyOf!Report, ProxyOf!Unlink, ProxyOf!proxyVars, ProxyOf!HasDispatcher
  <2>1. ProxyTypes' /\ UNCHANGED asks
    BY DEF ProxyTypes, Questions
  <2>2. Callers("shell")' = Callers("shell") /\ Callers("dispatcher")' = Callers("dispatcher")
    BY <1>1, <2>1
  <2>3. CASE ProxyOf!Report
    <3>1. dispatcher' => state' = "ACTIVATED"
      BY <2>3 DEF ProxyTypes
    <3> QED
      BY <1>0, <2>1, <2>2, <2>3, <3>1 DEF ProxyTypes
  <2>4. CASE ProxyOf!Unlink
    BY <1>0, <2>1, <2>2, <2>4 DEF ProxyTypes
  <2>5. CASE ProxyOf!Note \/ UNCHANGED ProxyOf!proxyVars
    BY <2>1, <2>2, <2>5
  <2> QED
    BY <1>4, <2>3, <2>4, <2>5
<1> QED
  BY <1>2, <1>3, <1>4 DEF ProxyOf!Next

\* A reference that a caller has is counted.
LEMMA CalledIsAlive == ProxyInv => ProxyOf!LivesDuringCall
<1> SUFFICES ASSUME ProxyInv, NEW c \in Clients, asks[c].at = "calling"
    PROVE  IF asks[c].of = "shell" THEN shellRefs > 0 ELSE dispatcherRefs > 0
  BY DEF ProxyInv, ProxyOf!LivesDuringCall
<1>1. PICK of \in {"shell", "dispatcher"} : of = asks[c].of /\ c \in Callers(of)
  BY DEF ProxyInv, ProxyTypes, Callers
<1>2. Cardinality(Callers(of)) \in Nat /\ Cardinality(Callers(of)) # 0
  BY <1>1, FS_EmptySet, FS_CardinalityType DEF ProxyInv, RefsAccountFor
<1> QED
  BY <1>1, <1>2 DEF ProxyInv, RefsAccountFor, ProxyTypes

\* Whoever is asked by a client of a proxy lives as long as the call takes,
\* whatever the link does meanwhile, and a plugin that is not reported as
\* activated is not invoked any more.
THEOREM CalledLives == MCSpec => []LivesDuringCall
<1> DEFINE v == <<linkVars, proxyVars, group>>
<1>1. MCInit => ProxyInv
  BY ProxyStarts DEF MCInit
<1>2. ProxyInv /\ [MCNext]_v => ProxyInv'
  <2> SUFFICES ASSUME ProxyInv, [MCNext]_v PROVE [ProxyOf!Next]_(ProxyOf!proxyVars)
    BY ProxyGoesOn
  <2> QED
    BY DEF MCNext, proxyVars, ProxyOf!proxyVars
<1>3. ProxyInv => LivesDuringCall
  BY CalledIsAlive DEF LivesDuringCall
<1> QED
  BY <1>1, <1>2, <1>3, PTL DEF MCSpec

-----------------------------------------------------------------------------
(* The link of BridgeLink.                                                 *)

LinkEvents ==
  [event : {"Created", "Destroy", "Activated", "Deactivated", "Unavailable"}, callsign : Callsigns]
Reports == Link!States \cup {"none"}

LinkTypes ==
  /\ IsFiniteSet(Callsigns)
  /\ remote \in [Callsigns -> Link!States \cup {"absent"}]
  /\ channel \in {"closed", "opening", "broken", "open", "dead"}
  /\ events \in Seq(LinkEvents) /\ late \in SUBSET LinkEvents /\ strays \in SUBSET Callsigns
  /\ created \in SUBSET Callsigns
  /\ destructed \in SUBSET Callsigns
  /\ shells \in [Callsigns -> [state : Reports, report : Reports, listed : BOOLEAN]]
  /\ pc.at \in {"Destroy", "Load", "Created", "Change"} => pc.callsign \in Callsigns
  /\ pc = [at |-> pc.at, callsign |-> pc.callsign, seen |-> pc.seen] /\ pc.seen \in Reports
  /\ told \in [Callsigns -> Reports \cup {"created"}]

Here == created \cup Link!Listed
There == {c \in Callsigns : remote[c] # "absent"}

\* What the link knows before and after an event.
Follows(e, before, after) ==
  CASE e.event = "Created" -> e.callsign \notin before /\ after = before \cup {e.callsign}
    [] e.event = "Destroy" -> e.callsign \in before /\ after = before \ {e.callsign}
    [] OTHER -> after = before

\* The events under way lead from what is known here to what there is at the
\* other side, in a course where each one fits.
Course(s, here, there) ==
  \E stage \in [0 .. Len(s) -> SUBSET Callsigns] :
    /\ stage[0] = here /\ stage[Len(s)] = there
    /\ \A i \in 1 .. Len(s) : Follows(s[i], stage[i - 1], stage[i])

\* Up to the strays: what is known is what the link has, until Deinitialize
\* empties the maps; a connector opens a channel with empty maps.
EventsInOrder ==
  /\ created \cap Link!Listed \subseteq strays
  /\ channel # "open" => events = <<>>
  /\ connecting => channel = "closed"
  /\ connecting \/ channel \in {"opening", "broken"} => Here \subseteq strays
  /\ channel = "open" =>
       \E all \in SUBSET Callsigns :
         /\ Here \subseteq all \cup strays
         /\ phase \in {"up", "revoked", "closed"} => all \subseteq Here \cup strays
         /\ Course(events, all, There)

\* A proxy whose predecessor is still to be reported as destroyed is overtaken;
\* what is being reported of one is its state.
ReportsInOrder ==
  /\ destructed \cap Link!Listed \subseteq overtaken
  /\ pc.at = "Destroy" => pc.callsign \notin Link!Listed \ overtaken
  /\ pc.at \in {"Load", "Created"} => shells[pc.callsign].state = "none" \/ pc.callsign \in strays
  /\ pc.at = "Change" => pc.callsign \notin Link!Listed \/ shells[pc.callsign].state = pc.seen
  /\ Link!StateAsReported

LinkInv == LinkTypes /\ EventsInOrder /\ ReportsInOrder

\* SetToSeq names each element of a finite set once.
LEMMA SetInSequence ==
  ASSUME NEW S, IsFiniteSet(S)
  PROVE  /\ Link!SetToSeq(S) \in Seq(S)
         /\ \A x \in S : \E i \in 1 .. Len(Link!SetToSeq(S)) : Link!SetToSeq(S)[i] = x
         /\ \A i, j \in 1 .. Len(Link!SetToSeq(S)) :
              Link!SetToSeq(S)[i] = Link!SetToSeq(S)[j] => i = j
<1> DEFINE n == Cardinality(S)
<1>1. n \in Nat /\ ExistsBijection(1 .. n, S)
  BY FS_CardinalityType
<1>2. PICK b \in Bijection(1 .. n, S) : TRUE
  BY <1>1 DEF ExistsBijection
<1>3. b \in [1 .. n -> S] /\ Link!IsInjective(b)
  BY <1>2 DEF Bijection, Injection, IsInjective, Link!IsInjective
<1>4. Link!Cardinality(S) = n
  BY DEF Link!Cardinality, Cardinality
<1> DEFINE f == Link!SetToSeq(S)
<1>5. f \in [1 .. n -> S] /\ Link!IsInjective(f)
  BY <1>3, <1>4 DEF Link!SetToSeq
<1>6. f \in Seq(S) /\ Len(f) = n
  BY <1>1, <1>5
<1>7. f \in Injection(1 .. n, S)
  BY <1>5 DEF Injection, IsInjective, Link!IsInjective
<1>8. f \in Surjection(1 .. n, S)
  <2>1. IsFiniteSet(1 .. n) /\ Cardinality(1 .. n) = n
    BY <1>1, FS_Interval
  <2> QED
    BY <2>1, <1>7, FS_Injection
<1> QED
  BY <1>5, <1>6, <1>8 DEF Surjection, Link!IsInjective

\* The first event fits what is known, and the others what is known then.
LEMMA CourseBegins ==
  ASSUME NEW s \in Seq(LinkEvents), s # <<>>, NEW here, NEW there, Course(s, here, there)
  PROVE  \E then \in SUBSET Callsigns : Follows(Head(s), here, then) /\ Course(Tail(s), then, there)
<1>1. PICK k \in [0 .. Len(s) -> SUBSET Callsigns] :
        /\ k[0] = here /\ k[Len(s)] = there
        /\ \A i \in 1 .. Len(s) : Follows(s[i], k[i - 1], k[i])
  BY DEF Course
<1>2. Len(s) \in Nat /\ Len(s) >= 1 /\ Head(s) = s[1] /\ Tail(s) \in Seq(LinkEvents)
      /\ Len(Tail(s)) = Len(s) - 1 /\ \A i \in 1 .. Len(Tail(s)) : Tail(s)[i] = s[i + 1]
  OBVIOUS
<1> DEFINE g == [i \in 0 .. Len(Tail(s)) |-> k[i + 1]]
<1>3. g \in [0 .. Len(Tail(s)) -> SUBSET Callsigns] /\ g[0] = k[1] /\ g[Len(Tail(s))] = there
  BY <1>1, <1>2
<1>4. ASSUME NEW i \in 1 .. Len(Tail(s)) PROVE Follows(Tail(s)[i], g[i - 1], g[i])
  <2>1. i + 1 \in 1 .. Len(s) /\ (i + 1) - 1 = i /\ i - 1 \in 0 .. Len(Tail(s)) /\ (i - 1) + 1 = i
    BY <1>2
  <2>2. Follows(s[i + 1], k[i], k[i + 1])
    BY <1>1, <2>1
  <2> QED
    BY <1>2, <2>1, <2>2
<1>5. Course(Tail(s), k[1], there)
  <2> HIDE DEF g
  <2> QED
    BY <1>3, <1>4 DEF Course
<1>6. Follows(Head(s), here, k[1]) /\ k[1] \in SUBSET Callsigns
  BY <1>1, <1>2
<1> QED
  BY <1>5, <1>6

\* One event more.
LEMMA CourseGoesOn ==
  ASSUME NEW s \in Seq(LinkEvents), NEW e \in LinkEvents, NEW here, NEW there,
         NEW then \in SUBSET Callsigns, Course(s, here, there), Follows(e, there, then)
  PROVE  Course(Append(s, e), here, then)
<1>1. PICK k \in [0 .. Len(s) -> SUBSET Callsigns] :
        /\ k[0] = here /\ k[Len(s)] = there
        /\ \A i \in 1 .. Len(s) : Follows(s[i], k[i - 1], k[i])
  BY DEF Course
<1> DEFINE n == Len(s)
           a == Append(s, e)
           g == [i \in 0 .. Len(a) |-> IF i <= n THEN k[i] ELSE then]
<1>2. n \in Nat /\ Len(a) = n + 1 /\ a[n + 1] = e /\ \A i \in 1 .. n : a[i] = s[i]
  OBVIOUS
<1>3. g \in [0 .. Len(a) -> SUBSET Callsigns] /\ g[0] = here /\ g[Len(a)] = then
  BY <1>1, <1>2
<1>4. ASSUME NEW i \in 1 .. Len(a) PROVE Follows(a[i], g[i - 1], g[i])
  <2>1. CASE i \in 1 .. n
    <3>1. g[i - 1] = k[i - 1] /\ g[i] = k[i] /\ a[i] = s[i]
      BY <1>1, <1>2, <2>1
    <3> QED
      BY <1>1, <2>1, <3>1
  <2>2. CASE i = n + 1
    <3>1. g[i - 1] = there /\ g[i] = then /\ a[i] = e
      BY <1>1, <1>2, <2>2
    <3> QED
      BY <3>1
  <2> QED
    BY <1>2, <2>1, <2>2
<1> QED
  <2> HIDE DEF g
  <2> QED
    BY <1>3, <1>4 DEF Course

\* What the other side announces leads from nothing to what there is.
LEMMA AnnouncementIsACourse ==
  ASSUME IsFiniteSet(Callsigns)
  PROVE  Link!Announced \in Seq(LinkEvents) /\ Course(Link!Announced, {}, There)
<1> DEFINE On == {c \in Callsigns : remote[c] = "ACTIVATED"}
           all == Link!SetToSeq(There)
           active == Link!SetToSeq(On)
           m == Len(all)
           n == Len(active)
           a == Link!Announced
<1>1. IsFiniteSet(There) /\ IsFiniteSet(On)
  BY FS_Subset DEF There
<1>2. /\ all \in Seq(There) /\ active \in Seq(On)
      /\ \A x \in There : \E i \in 1 .. m : all[i] = x
      /\ \A i, j \in 1 .. m : all[i] = all[j] => i = j
  BY <1>1, SetInSequence
<1> DEFINE creations == [i \in 1 .. m |-> Link!Event("Created", all[i])]
           activations == [i \in 1 .. n |-> Link!Event("Activated", active[i])]
<1>3. m \in Nat /\ n \in Nat /\ (\A i \in 1 .. m : all[i] \in There) /\ (\A i \in 1 .. n : active[i] \in On)
  <2> HIDE DEF all, active, On
  <2> QED
    BY <1>2, ElementOfSeq, LenProperties
<1>4. a = creations \o activations
  BY DEF Link!Announced, There
<1> HIDE DEF all, active, m, n, a
<1>5. /\ creations \in Seq(LinkEvents) /\ Len(creations) = m
      /\ activations \in Seq(LinkEvents) /\ Len(activations) = n
  BY <1>3 DEF Link!Event, LinkEvents, There
<1>6. /\ a \in Seq(LinkEvents) /\ Len(a) = m + n
      /\ \A i \in 1 .. m + n : a[i] = IF i <= m THEN Link!Event("Created", all[i])
                                              ELSE Link!Event("Activated", active[i - m])
  BY <1>3, <1>4, <1>5
<1> DEFINE g == [i \in 0 .. Len(a) |-> {all[j] : j \in {j \in 1 .. m : j <= i}}]
<1>7. g \in [0 .. Len(a) -> SUBSET Callsigns] /\ g[0] = {} /\ g[Len(a)] = There
  <2>1. g \in [0 .. Len(a) -> SUBSET Callsigns]
    BY <1>3, <1>6 DEF There
  <2>2. g[0] = {}
    BY <1>3, <1>6
  <2>3. g[Len(a)] = There
    <3>1. g[Len(a)] = {all[j] : j \in {j \in 1 .. m : j <= Len(a)}} /\ m <= Len(a)
      BY <1>3, <1>6
    <3>2. {j \in 1 .. m : j <= Len(a)} = 1 .. m
      BY <1>3, <1>6, <3>1
    <3>3. {all[j] : j \in 1 .. m} = There
      <4> HIDE DEF g
      <4>1. \A x \in There : \E i \in 1 .. m : all[i] = x
        BY <1>2 DEF m
      <4> QED
        BY <1>3, <4>1
    <3> HIDE DEF g
    <3> QED
      BY <3>1, <3>2, <3>3
  <2> QED
    BY <2>1, <2>2, <2>3
<1>8. ASSUME NEW i \in 1 .. Len(a) PROVE Follows(a[i], g[i - 1], g[i])
  <2>0. i \in 1 .. m + n /\ i - 1 \in 0 .. Len(a) /\ i \in 0 .. Len(a)
    BY <1>3, <1>6
  <2>1. CASE i <= m
    <3>1. a[i] = [event |-> "Created", callsign |-> all[i]]
      BY <1>6, <2>0, <2>1 DEF Link!Event
    <3>2. i \in 1 .. m
      BY <1>3, <2>0, <2>1
    <3>3. {j \in 1 .. m : j <= i} = {j \in 1 .. m : j <= i - 1} \cup {i}
      BY <1>3, <3>2
    <3>4. g[i] = g[i - 1] \cup {all[i]}
      BY <2>0, <3>3
    <3>5. all[i] \notin g[i - 1]
      <4> SUFFICES ASSUME NEW j \in 1 .. m, j <= i - 1, all[j] = all[i] PROVE FALSE
        BY <2>0
      <4>1. j = i
        BY <1>2, <3>2 DEF m
      <4> QED
        BY <4>1, <1>3, <3>2
    <3> HIDE DEF g
    <3> QED
      BY <3>1, <3>4, <3>5 DEF Follows
  <2>2. CASE i > m
    <3>1. a[i] = [event |-> "Activated", callsign |-> active[i - m]]
      <4>1. ~(i <= m)
        BY <1>3, <2>0, <2>2
      <4> HIDE DEF On, g
      <4> QED
        BY <1>6, <2>0, <4>1 DEF Link!Event
    <3>2. {j \in 1 .. m : j <= i} = {j \in 1 .. m : j <= i - 1}
      BY <1>3, <2>0, <2>2
    <3>3. g[i] = g[i - 1]
      BY <2>0, <3>2
    <3> HIDE DEF g
    <3> QED
      BY <3>1, <3>3 DEF Follows
  <2> QED
    BY <1>3, <2>0, <2>1, <2>2
<1>9. Course(a, {}, There)
  <2> HIDE DEF g
  <2> QED
    BY <1>7, <1>8 DEF Course
<1> QED
  BY <1>6, <1>9 DEF a

LEMMA LinkStarts == IsFiniteSet(Callsigns) /\ Link!Init => LinkInv
<1> SUFFICES ASSUME IsFiniteSet(Callsigns), Link!Init PROVE LinkInv
  OBVIOUS
<1> USE DEF Link!Init, Link!Idle, Link!At, Link!Nowhere, Link!States, Reports
<1>1. LinkTypes
  BY DEF LinkTypes, LinkEvents
<1>2. EventsInOrder
  BY DEF EventsInOrder, Here, Link!Listed
<1>3. ReportsInOrder
  BY DEF ReportsInOrder, Link!Listed, Link!StateAsReported
<1> QED
  BY <1>1, <1>2, <1>3 DEF LinkInv

\* The events that the worker pool holds, and those that come after them.
LEMMA HeldEvents ==
  ASSUME LinkTypes
  PROVE  /\ \A e \in Link!Held : e \in LinkEvents /\ e.callsign \in Callsigns
         /\ events # <<>> => Head(events) \in LinkEvents /\ Tail(events) \in Seq(LinkEvents)
<1>1. events # <<>> => Head(events) \in LinkEvents /\ Tail(events) \in Seq(LinkEvents)
  BY DEF LinkTypes
<1>2. \A e \in Link!Held : e \in late \/ (events # <<>> /\ e = Head(events))
  BY DEF Link!Held
<1>3. \A e \in LinkEvents : e.callsign \in Callsigns
  BY DEF LinkEvents
<1> QED
  BY <1>1, <1>2, <1>3 DEF LinkTypes

\* Of an event that is received.
LEMMA Received ==
  ASSUME LinkTypes, NEW event, NEW e \in Link!Held, Link!Receive(event, e)
  PROVE  /\ e.callsign \in Callsigns
         /\ events' \in Seq(LinkEvents) /\ late' \in SUBSET LinkEvents /\ strays' \in SUBSET Callsigns
         /\ UNCHANGED <<remote, channel, pc, told>>
<1>1. e.callsign \in Callsigns /\ (events # <<>> => Tail(events) \in Seq(LinkEvents))
  BY HeldEvents
<1>2. CASE events # <<>> /\ events' = Tail(events) /\ UNCHANGED <<late, strays>>
  BY <1>1, <1>2 DEF Link!Receive, LinkTypes
<1>3. CASE /\ late' = late \ {e} /\ UNCHANGED events
           /\ strays' = IF event \in {"Created", "Destroy"} THEN strays \cup {e.callsign} ELSE strays
  BY <1>1, <1>3 DEF Link!Receive, LinkTypes
<1> QED
  BY <1>2, <1>3 DEF Link!Receive

LEMMA LinkKeepsTypes == LinkTypes /\ [Link!Next]_(Link!vars) => LinkTypes'
<1> SUFFICES ASSUME LinkTypes, [Link!Next]_(Link!vars) PROVE LinkTypes'
  OBVIOUS
<1> USE DEF LinkTypes, Link!linkVars, Link!outside, Link!States, Reports
<1>1. CASE Link!RemoteChange
  <2>1. PICK c \in Callsigns, s \in Link!States \cup {"absent"}, 
             e \in {"Created", "Destroy", "Activated", "Deactivated", "Unavailable"} : Link!Change(c, s, e)
    BY <1>1 DEF Link!RemoteChange
  <2>2. Link!Event(e, c) \in LinkEvents
    BY DEF Link!Event, LinkEvents
  <2>3. events' \in Seq(LinkEvents)
    <3>1. Append(events, Link!Event(e, c)) \in Seq(LinkEvents)
      BY <2>2
    <3> QED
      BY <2>1, <3>1 DEF Link!Change
  <2>4. remote' \in [Callsigns -> Link!States \cup {"absent"}]
    BY <2>1 DEF Link!Change
  <2> QED
    BY <2>1, <2>3, <2>4 DEF Link!Change
<1>2. CASE Link!Connect \/ Link!Break
  BY <1>2, AnnouncementIsACourse DEF Link!Connect, Link!Open, Link!Register, Link!BrokenUnseen,
                                     Link!ConnectFailed, Link!Break
<1>3. Link!Held \subseteq LinkEvents
  BY HeldEvents
<1>4. CASE Link!Closed
  BY <1>3, <1>4 DEF Link!Closed, Link!Flush, Link!Nowhere, Link!Listed
<1>5. ASSUME NEW e \in Link!Held, Link!Created(e) PROVE LinkTypes'
  BY <1>5, Received DEF Link!Created
<1>6. ASSUME NEW e \in Link!Held, Link!Destroy(e) PROVE LinkTypes'
  <2> USE DEF Link!Destroy, Link!DestroyEntry
  <2>1. /\ events' \in Seq(LinkEvents) /\ late' \in SUBSET LinkEvents /\ strays' \in SUBSET Callsigns
        /\ e.callsign \in Callsigns /\ UNCHANGED <<remote, channel, pc, told>>
    BY <1>6, Received
  <2>2. CASE e.callsign \in created
    <3>1. created' \in SUBSET created /\ UNCHANGED <<shells, destructed>>
      BY <1>6, <2>2
    <3> QED
      BY <2>1, <3>1
  <2>3. CASE e.callsign \notin created
    <3>1. shells' = [shells EXCEPT ![e.callsign] = Link!Nowhere] /\ UNCHANGED created
          /\ destructed' \in SUBSET (destructed \cup {e.callsign})
      BY <1>6, <2>3
    <3>2. shells' \in [Callsigns -> [state : Reports, report : Reports, listed : BOOLEAN]]
      BY <3>1 DEF Link!Nowhere
    <3> QED
      BY <2>1, <3>1, <3>2
  <2> QED
    BY <2>2, <2>3
<1>7. ASSUME NEW s \in Link!States, NEW event, NEW e \in Link!Held, Link!Receive(event, e),
             Link!Noted(e.callsign, s)
      PROVE  LinkTypes'
  <2>1. /\ events' \in Seq(LinkEvents) /\ late' \in SUBSET LinkEvents /\ strays' \in SUBSET Callsigns
        /\ e.callsign \in Callsigns /\ UNCHANGED <<remote, channel, pc, told>>
    BY <1>7, Received
  <2>2. shells' \in [Callsigns -> [state : Reports, report : Reports, listed : BOOLEAN]]
        /\ UNCHANGED <<created, destructed>>
    BY <1>7, <2>1 DEF Link!Noted
  <2> QED
    BY <2>1, <2>2
<1>8. ASSUME NEW e \in Link!Held, Link!Activated(e) \/ Link!Deactivated(e) \/ Link!Unavailable(e)
      PROVE  LinkTypes'
  BY <1>7, <1>8 DEF Link!Activated, Link!Deactivated, Link!Unavailable
<1>9. CASE Link!Dispatch
  <2> USE DEF Link!At, Link!Idle
  <2>1. CASE Link!Start \/ Link!DestructedDone \/ Link!CreatedDone \/ Link!End \/ Link!Crash
    BY <2>1 DEF Link!Start, Link!DestructedDone, Link!CreatedDone, Link!End, Link!Crash
  <2>2. CASE Link!CallDestroy \/ Link!CallChange
    BY <2>2 DEF Link!CallDestroy, Link!CallChange
  <2>3. CASE Link!LoadAsk
    <3>1. \E s \in Reports : pc' = [pc EXCEPT !.at = "Created", !.seen = s]
      <4>1. Link!Answers(pc.callsign) \subseteq Reports
        BY <2>3 DEF Link!LoadAsk, Link!Answers
      <4> QED
        BY <2>3, <4>1 DEF Link!LoadAsk
    <3> QED
      BY <2>3, <3>1 DEF Link!LoadAsk
  <2>4. CASE Link!CallCreated
    BY <2>4 DEF Link!CallCreated
  <2>5. ASSUME NEW c \in Callsigns, Link!TakeDestructed(c) PROVE LinkTypes'
    BY <2>5 DEF Link!TakeDestructed
  <2>6. ASSUME NEW c \in Callsigns, Link!TakeCreated(c) PROVE LinkTypes'
    BY <2>6 DEF Link!TakeCreated, Link!Proxy, Link!Nowhere
  <2>7. ASSUME NEW c \in Callsigns, Link!TakeChange(c) PROVE LinkTypes'
    BY <2>7 DEF Link!TakeChange, Link!Reported
  <2> QED
    BY <1>9, <2>1, <2>2, <2>3, <2>4, <2>5, <2>6, <2>7 DEF Link!Dispatch
<1>10. CASE Link!Callback
  BY <1>10 DEF Link!Callback, Link!Subscribe, Link!Unsubscribe, Link!Told
<1>11. CASE Link!Deinitialize
  <2>1. CASE Link!Revoke \/ Link!Down
    BY <2>1 DEF Link!Revoke, Link!Down
  <2>2. CASE Link!Close
    BY <1>3, <2>2 DEF Link!Close
  <2>3. CASE Link!FlushAll
    BY <2>3 DEF Link!FlushAll, Link!Flush, Link!Nowhere, Link!Listed
  <2> QED
    BY <1>11, <2>1, <2>2, <2>3 DEF Link!Deinitialize
<1>12. CASE UNCHANGED Link!vars
  BY <1>12 DEF Link!vars
<1> QED
  BY <1>1, <1>2, <1>4, <1>5, <1>6, <1>8, <1>9, <1>10, <1>11, <1>12 DEF Link!Next, Link!Events

\* What the link knows and which events are under way does not change.
LEMMA NothingComes ==
  ASSUME EventsInOrder, UNCHANGED <<remote, channel, connecting, events, strays, phase>>,
         Here' = Here, created' \cap Link!Listed' \subseteq strays
  PROVE  EventsInOrder'
<1>1. There' = There
  BY DEF There
<1> QED
  BY <1>1 DEF EventsInOrder, Course

\* An event of the channel is received: what it says is what the link makes of it.
LEMMA EventArrives ==
  ASSUME LinkTypes, EventsInOrder, events # <<>>, events' = Tail(events),
         UNCHANGED <<remote, channel, connecting, strays, phase>>,
         NEW e, e = Head(events),
         CASE e.event = "Created" -> created' = created \cup {e.callsign} /\ Link!Listed' = Link!Listed
           [] e.event = "Destroy" -> /\ created' = created \ {e.callsign}
                                     /\ Link!Listed' = Link!Listed \
                                          (IF e.callsign \in created THEN {} ELSE {e.callsign})
           [] OTHER -> created' = created /\ Link!Listed' = Link!Listed
  PROVE  EventsInOrder'
<1>1. channel = "open" /\ ~connecting /\ created \cap Link!Listed \subseteq strays
  BY DEF EventsInOrder
<1>2. PICK all \in SUBSET Callsigns :
         /\ Here \subseteq all \cup strays
         /\ phase \in {"up", "revoked", "closed"} => all \subseteq Here \cup strays
         /\ Course(events, all, There)
  BY <1>1 DEF EventsInOrder
<1>3. PICK then \in SUBSET Callsigns : Follows(e, all, then) /\ Course(events', then, There)
  <2>1. events \in Seq(LinkEvents)
    BY DEF LinkTypes
  <2> QED
    BY <1>2, <2>1, CourseBegins
<1>4. There' = There
  BY DEF There
<1>5. /\ Here' \subseteq then \cup strays
      /\ phase \in {"up", "revoked", "closed"} => then \subseteq Here' \cup strays
      /\ created' \cap Link!Listed' \subseteq strays
  <2> DEFINE L == Link!Listed
  <2>1. Here = created \cup L /\ Here' = created' \cup L'
    BY DEF Here
  <2> HIDE DEF L
  <2>2. created \cap L \subseteq strays
    BY <1>1 DEF L
  <2>3. CASE e.event = "Created"
    <3>1. e.callsign \notin all /\ then = all \cup {e.callsign}
      BY <1>3, <2>3 DEF Follows
    <3> QED
      BY <1>2, <2>1, <2>2, <2>3, <3>1 DEF L
  <2>4. CASE e.event = "Destroy"
    <3>1. e.callsign \in all /\ then = all \ {e.callsign}
      BY <1>3, <2>4 DEF Follows
    <3> DEFINE c == e.callsign
    <3>2. created' = created \ {c} /\ L' = L \ (IF c \in created THEN {} ELSE {c})
      BY <2>4 DEF L
    <3>3. c \notin Here' \/ c \in strays
      BY <2>1, <2>2, <3>2
    <3>4. Here \ {c} \subseteq Here' /\ Here' \subseteq Here
      BY <2>1, <3>2
    <3>5. created' \cap L' \subseteq strays
      BY <2>2, <3>2
    <3> QED
      BY <1>2, <3>1, <3>3, <3>4, <3>5 DEF L
  <2>5. CASE e.event \notin {"Created", "Destroy"}
    <3>1. then = all
      BY <1>3, <2>5 DEF Follows
    <3> QED
      BY <1>2, <2>1, <2>2, <2>5, <3>1 DEF L
  <2> QED
    BY <2>3, <2>4, <2>5
<1> QED
  BY <1>1, <1>3, <1>4, <1>5 DEF EventsInOrder

\* A late event makes its callsign a stray, and concerns no other.
LEMMA LateArrives ==
  ASSUME LinkTypes, EventsInOrder, UNCHANGED <<remote, channel, connecting, events, phase>>,
         NEW c \in Callsigns, strays' = strays \cup {c},
         created' \ {c} = created \ {c}, Link!Listed' \ {c} = Link!Listed \ {c}
  PROVE  EventsInOrder'
<1>1. There' = There
  BY DEF There
<1>2. Here' \ {c} = Here \ {c} /\ created' \cap Link!Listed' \subseteq strays'
  <2> DEFINE L == Link!Listed
  <2>1. Here = created \cup L /\ Here' = created' \cup L' /\ created \cap L \subseteq strays
        /\ L' \ {c} = L \ {c}
    BY DEF Here, EventsInOrder
  <2> HIDE DEF L
  <2>2. created' \cap L' \subseteq strays'
    BY <2>1
  <2>3. Here' \ {c} = Here \ {c}
    BY <2>1
  <2> QED
    BY <2>2, <2>3 DEF L
<1>3. ASSUME channel = "open"
      PROVE  \E all \in SUBSET Callsigns :
               /\ Here' \subseteq all \cup strays'
               /\ phase \in {"up", "revoked", "closed"} => all \subseteq Here' \cup strays'
               /\ Course(events, all, There)
  <2>1. PICK all \in SUBSET Callsigns :
         /\ Here \subseteq all \cup strays
         /\ phase \in {"up", "revoked", "closed"} => all \subseteq Here \cup strays
         /\ Course(events, all, There)
    BY <1>3 DEF EventsInOrder
  <2>2. Here' \subseteq all \cup strays'
    BY <1>2, <2>1
  <2>3. phase \in {"up", "revoked", "closed"} => all \subseteq Here' \cup strays'
    BY <1>2, <2>1
  <2> QED
    BY <2>1, <2>2, <2>3
<1>4. connecting \/ channel \in {"opening", "broken"} => Here' \subseteq strays'
  BY <1>2 DEF EventsInOrder
<1> QED
  BY <1>1, <1>2, <1>3, <1>4 DEF EventsInOrder

LEMMA EventsStayInOrder ==
  LinkTypes /\ LinkTypes' /\ EventsInOrder /\ [Link!Next]_(Link!vars) => EventsInOrder'
<1> SUFFICES ASSUME LinkTypes, LinkTypes', EventsInOrder, [Link!Next]_(Link!vars) PROVE EventsInOrder'
  OBVIOUS
<1> USE DEF Link!linkVars, Link!outside
<1>0. ASSUME UNCHANGED shells PROVE Link!Listed' = Link!Listed
  BY <1>0 DEF Link!Listed
<1>a. ASSUME UNCHANGED <<remote, channel, connecting, events, strays, phase>>,
             Link!Listed' = Link!Listed, created' = created
      PROVE  EventsInOrder'
  <2>1. Here' = Here /\ created' \cap Link!Listed' \subseteq strays
    BY <1>a DEF Here, EventsInOrder
  <2> QED
    BY <1>a, <2>1, NothingComes
<1>1. CASE Link!RemoteChange
  <2>1. PICK c \in Callsigns, s \in Link!States \cup {"absent"},
             e \in {"Created", "Destroy", "Activated", "Deactivated", "Unavailable"} :
          /\ Link!Change(c, s, e)
          /\ CASE e = "Created" -> remote[c] = "absent" /\ s # "absent"
               [] e = "Destroy" -> remote[c] # "absent" /\ s = "absent"
               [] OTHER -> remote[c] # "absent" /\ s # "absent"
    BY <1>1 DEF Link!RemoteChange, Link!States
  <2>2. Link!Event(e, c) \in LinkEvents /\ remote \in [Callsigns -> Link!States \cup {"absent"}]
        /\ events \in Seq(LinkEvents)
    BY DEF Link!Event, LinkEvents, LinkTypes
  <2>3. Link!Listed' = Link!Listed /\ created' = created /\ UNCHANGED <<phase, channel, connecting, strays>>
    BY <2>1, <1>0 DEF Link!Change
  <2>4. Here' = Here
    BY <2>3 DEF Here
  <2>5. Follows(Link!Event(e, c), There, There')
    <3>1. There' = IF s = "absent" THEN There \ {c} ELSE There \cup {c}
      BY <2>1, <2>2 DEF Link!Change, There
    <3>2. c \in There <=> remote[c] # "absent"
      BY DEF There
    <3>3. CASE e = "Created"
      BY <2>1, <3>1, <3>2, <3>3 DEF Follows, Link!Event
    <3>4. CASE e = "Destroy"
      BY <2>1, <3>1, <3>2, <3>4 DEF Follows, Link!Event
    <3>5. CASE e \notin {"Created", "Destroy"}
      BY <2>1, <3>1, <3>2, <3>5 DEF Follows, Link!Event
    <3> QED
      BY <3>3, <3>4, <3>5
  <2>6. CASE channel = "open"
    <3>1. events' = Append(events, Link!Event(e, c)) /\ There' \in SUBSET Callsigns
      BY <2>1, <2>6 DEF Link!Change, There
    <3>2. ASSUME NEW all, Course(events, all, There)
          PROVE  Course(events', all, There')
      BY <3>2, <3>1, <2>2, <2>5, CourseGoesOn
    <3> QED
      BY <2>3, <2>4, <2>6, <3>2 DEF EventsInOrder
  <2>7. CASE channel # "open"
    <3>1. events' = events
      BY <2>1, <2>7 DEF Link!Change
    <3> QED
      BY <2>3, <2>4, <2>7, <3>1 DEF EventsInOrder
  <2> QED
    BY <2>6, <2>7
<1>2. CASE Link!Register
  <2>1. /\ channel = "opening" /\ channel' = "open" /\ events' = Link!Announced
        /\ UNCHANGED <<remote, connecting, strays, phase, created, shells>>
    BY <1>2 DEF Link!Register
  <2>2. Here' = Here /\ There' = There /\ Link!Listed' = Link!Listed
    BY <1>0, <2>1 DEF Here, There
  <2>3. Course(events', {}, There)
    BY <2>1, AnnouncementIsACourse DEF LinkTypes
  <2>4. ~connecting /\ Here \subseteq strays
    BY <2>1 DEF EventsInOrder
  <2> QED
    BY <2>1, <2>2, <2>3, <2>4 DEF EventsInOrder
<1>3. CASE Link!Open \/ Link!BrokenUnseen \/ Link!ConnectFailed \/ Link!Break
  <2>1. /\ channel # "open" /\ channel' # "open" /\ (connecting' => channel' = "closed")
        /\ connecting \/ channel \in {"opening", "broken"}
        /\ UNCHANGED <<events, strays, phase, created, shells>>
    BY <1>3 DEF Link!Open, Link!BrokenUnseen, Link!ConnectFailed, Link!Break, EventsInOrder
  <2>2. Here' = Here /\ Link!Listed' = Link!Listed
    BY <1>0, <2>1 DEF Here
  <2> QED
    BY <2>1, <2>2 DEF EventsInOrder
<1>4. CASE Link!Closed
  BY <1>4 DEF Link!Closed, Link!Flush, EventsInOrder, Here, Link!Listed, Link!Nowhere
<1>5. ASSUME NEW e \in Link!Held, Link!Created(e) PROVE EventsInOrder'
  <2>1. Link!Listed' = Link!Listed /\ created' = created \cup {e.callsign} /\ e.callsign \in Callsigns
    BY <1>0, <1>5, Received DEF Link!Created
  <2> QED
    BY <1>5, <2>1, EventArrives, LateArrives DEF Link!Created, Link!Receive
<1>6. ASSUME NEW e \in Link!Held, Link!Destroy(e) PROVE EventsInOrder'
  <2>1. created' = created \ {e.callsign} /\ e.callsign \in Callsigns
        /\ Link!Listed' = Link!Listed \ (IF e.callsign \in created THEN {} ELSE {e.callsign})
    <3>0. e.callsign \in Callsigns
      BY <1>6, Received DEF Link!Destroy
    <3>1. CASE e.callsign \in created
      BY <1>0, <1>6, <3>0, <3>1 DEF Link!Destroy, Link!DestroyEntry
    <3>2. CASE e.callsign \notin created
      BY <1>6, <3>0, <3>2 DEF Link!Destroy, Link!DestroyEntry, Link!Listed, Link!Nowhere, LinkTypes
    <3> QED
      BY <3>1, <3>2
  <2>2. Link!Listed' \ {e.callsign} = Link!Listed \ {e.callsign}
        /\ created' \ {e.callsign} = created \ {e.callsign}
    BY <2>1
  <2> QED
    BY <1>6, <2>1, <2>2, EventArrives, LateArrives DEF Link!Destroy, Link!Receive
<1>7. ASSUME NEW s, NEW c \in Callsigns, Link!Noted(c, s), LinkTypes PROVE Link!Listed' = Link!Listed
  BY <1>7 DEF Link!Noted, Link!Listed, LinkTypes
<1>8. ASSUME NEW e \in Link!Held, Link!Activated(e) \/ Link!Deactivated(e) \/ Link!Unavailable(e)
      PROVE  EventsInOrder'
  <2>1. Link!Listed' = Link!Listed /\ created' = created
    BY <1>7, <1>8, HeldEvents DEF Link!Activated, Link!Deactivated, Link!Unavailable, Link!Noted
  <2>2. PICK event \in {"Activated", "Deactivated", "Unavailable"} : Link!Receive(event, e)
    BY <1>8 DEF Link!Activated, Link!Deactivated, Link!Unavailable
  <2>3. CASE UNCHANGED <<events, strays>>
    BY <1>a, <2>1, <2>2, <2>3 DEF Link!Receive
  <2>4. CASE events # <<>> /\ e = Head(events) /\ events' = Tail(events) /\ UNCHANGED strays
    BY <2>1, <2>2, <2>4, EventArrives DEF Link!Receive
  <2> QED
    BY <2>2, <2>3, <2>4 DEF Link!Receive
<1>9. CASE Link!Dispatch
  <2>1. CASE Link!Start \/ Link!DestructedDone \/ Link!CreatedDone \/ Link!End \/ Link!CallDestroy
             \/ Link!CallChange \/ Link!LoadAsk \/ \E c \in Callsigns : Link!TakeDestructed(c)
    <3>1. UNCHANGED <<shells, created, remote, channel, connecting, events, strays, phase>>
      BY <2>1 DEF Link!Start, Link!DestructedDone, Link!CreatedDone, Link!End, Link!CallDestroy,
                  Link!CallChange, Link!LoadAsk, Link!TakeDestructed
    <3> QED
      BY <1>0, <1>a, <3>1
  <2>2. CASE Link!CallCreated
    <3>1. created' = created /\ Link!Listed' = Link!Listed
      BY <2>2 DEF Link!CallCreated, Link!Listed, LinkTypes
    <3> QED
      BY <1>a, <2>2, <3>1 DEF Link!CallCreated
  <2>3. ASSUME NEW c \in Callsigns, Link!TakeChange(c) PROVE EventsInOrder'
    <3>1. created' = created /\ Link!Listed' = Link!Listed
      BY <2>3 DEF Link!TakeChange, Link!Reported, Link!Listed, LinkTypes
    <3> QED
      BY <1>a, <2>3, <3>1 DEF Link!TakeChange
  <2>4. ASSUME NEW c \in Callsigns, Link!TakeCreated(c) PROVE EventsInOrder'
    <3>1. c \in created /\ created' = created \ {c} /\ Link!Listed' = Link!Listed \cup {c}
          /\ UNCHANGED <<remote, channel, connecting, events, strays, phase>>
      BY <2>4 DEF Link!TakeCreated, Link!Proxy, Link!Nowhere, Link!Listed, LinkTypes
    <3>2. Here' = Here /\ created' \cap Link!Listed' \subseteq strays
      BY <3>1 DEF Here, EventsInOrder
    <3> QED
      BY <3>1, <3>2, NothingComes
  <2>5. CASE Link!Crash
    <3>1. UNCHANGED <<shells, created, remote, channel, connecting, events, strays>> /\ phase' = "crashed"
      BY <2>5 DEF Link!Crash
    <3>2. Here' = Here /\ There' = There /\ Link!Listed' = Link!Listed
      BY <1>0, <3>1 DEF Here, There
    <3> QED
      BY <3>1, <3>2 DEF EventsInOrder, Course
  <2> QED
    BY <1>9, <2>1, <2>2, <2>3, <2>4, <2>5 DEF Link!Dispatch
<1>10. CASE Link!Callback
  BY <1>0, <1>a, <1>10 DEF Link!Callback, Link!Subscribe, Link!Unsubscribe
<1>11. CASE Link!Deinitialize
  <2>1. CASE Link!Revoke \/ Link!Down
    <3>1. /\ UNCHANGED <<remote, channel, events, strays, shells, created>> /\ (connecting' => connecting)
          /\ phase \in {"up", "revoked", "closed"} \/ phase' \notin {"up", "revoked", "closed"}
      BY <2>1 DEF Link!Revoke, Link!Down
    <3>2. Here' = Here /\ There' = There /\ Link!Listed' = Link!Listed
      BY <1>0, <3>1 DEF Here, There
    <3> QED
      BY <3>1, <3>2 DEF EventsInOrder, Course
  <2>2. CASE Link!Close
    <3>1. /\ channel' = IF channel \in {"opening", "broken"} THEN "broken" ELSE "closed"
          /\ UNCHANGED <<connecting, strays, shells, created>> /\ events' = <<>>
      BY <2>2 DEF Link!Close
    <3>2. Here' = Here /\ Link!Listed' = Link!Listed
      BY <1>0, <3>1 DEF Here
    <3> QED
      BY <3>1, <3>2 DEF EventsInOrder
  <2>3. CASE Link!FlushAll
    <3>1. /\ UNCHANGED <<remote, channel, connecting, events>> /\ strays' = {} /\ phase' = "flushed"
          /\ Here' = {} /\ Link!Listed' = {}
      BY <2>3 DEF Link!FlushAll, Link!Flush, Here, Link!Listed, Link!Nowhere
    <3>2. There' = There
      BY <3>1 DEF There
    <3> QED
      BY <3>1, <3>2 DEF EventsInOrder
  <2> QED
    BY <1>11, <2>1, <2>2, <2>3 DEF Link!Deinitialize
<1>12. CASE UNCHANGED Link!vars
  BY <1>0, <1>a, <1>12 DEF Link!vars
<1> QED
  BY <1>1, <1>2, <1>3, <1>4, <1>5, <1>6, <1>8, <1>9, <1>10, <1>11, <1>12
     DEF Link!Next, Link!Events, Link!Connect

\* The job is not concerned: a state that a proxy has it keeps, if it is not
\* unlinked, and no proxy comes.
LEMMA ReportsStay ==
  ASSUME LinkTypes, LinkTypes', ReportsInOrder, UNCHANGED <<pc, told>>, callback' => callback,
         \A c \in Link!Listed' : c \in Link!Listed /\ shells'[c].state = shells[c].state,
         \A c \in Callsigns : shells'[c].state \in {"none", shells[c].state},
         Link!Listed' \cap (overtaken \cup strays) \subseteq overtaken' \cup strays',
         Link!Listed' \cap overtaken \subseteq overtaken',
         \A c \in strays \ strays' : shells'[c].state = "none",
         destructed' \cap Link!Listed' \subseteq destructed
  PROVE  ReportsInOrder'
<1>1. Link!StateAsReported'
  <2> SUFFICES ASSUME callback', NEW c \in Link!Listed' \ (overtaken' \cup strays')
      PROVE  \/ pc.callsign = c /\ pc.at \in {"Load", "Created", "Change"}
             \/ told[c] = shells'[c].state
             \/ shells'[c].state = "none" /\ told[c] \in {"created", "DEACTIVATED"}
    BY DEF Link!StateAsReported
  <2>1. c \in Link!Listed \ (overtaken \cup strays) /\ shells'[c].state = shells[c].state
    OBVIOUS
  <2> QED
    BY <2>1 DEF ReportsInOrder, Link!StateAsReported
<1>2. /\ destructed' \cap Link!Listed' \subseteq overtaken'
      /\ pc'.at = "Destroy" => pc'.callsign \notin Link!Listed' \ overtaken'
      /\ pc'.at = "Change" => pc'.callsign \notin Link!Listed' \/ shells'[pc'.callsign].state = pc'.seen
  BY DEF ReportsInOrder
<1>3. pc'.at \in {"Load", "Created"} => shells'[pc'.callsign].state = "none" \/ pc'.callsign \in strays'
  BY DEF ReportsInOrder, LinkTypes
<1> QED
  BY <1>1, <1>2, <1>3 DEF ReportsInOrder

LEMMA ReportsStayInOrder ==
  LinkTypes /\ LinkTypes' /\ EventsInOrder /\ ReportsInOrder /\ [Link!Next]_(Link!vars)
    => ReportsInOrder'
<1> SUFFICES ASSUME LinkTypes, LinkTypes', EventsInOrder, ReportsInOrder, [Link!Next]_(Link!vars)
    PROVE  ReportsInOrder'
  OBVIOUS
<1> USE DEF Link!linkVars, Link!outside
<1>1. ASSUME UNCHANGED <<shells, destructed, pc, told, overtaken>>, callback' => callback,
             strays \subseteq strays'
      PROVE  ReportsInOrder'
  <2>1. Link!Listed' = Link!Listed
    BY <1>1 DEF Link!Listed
  <2> QED
    BY <1>1, <2>1, ReportsStay
<1>a. ASSUME NEW event, NEW e \in Link!Held, Link!Receive(event, e)
      PROVE  UNCHANGED <<pc, told, callback>> /\ strays \subseteq strays' /\ e.callsign \in Callsigns
  BY <1>a, HeldEvents DEF Link!Receive
<1>2. CASE Link!RemoteChange \/ Link!Connect \/ Link!Break
           \/ Link!Revoke \/ Link!Close \/ Link!Down \/ Link!Unsubscribe \/ UNCHANGED Link!vars
  BY <1>1, <1>2 DEF Link!RemoteChange, Link!Change, Link!Connect, Link!Open, Link!Register, Link!BrokenUnseen,
            Link!ConnectFailed, Link!Break, Link!Revoke, Link!Close, Link!Down, Link!Unsubscribe, Link!vars
<1>b. ASSUME NEW e \in Link!Held, Link!Created(e) PROVE ReportsInOrder'
  BY <1>1, <1>a, <1>b DEF Link!Created
<1>3. CASE Link!Closed \/ Link!FlushAll
  <2>1. Link!Listed' = {} /\ (\A c \in Callsigns : shells'[c].state = "none")
        /\ UNCHANGED <<pc, told, callback>>
    BY <1>3 DEF Link!Closed, Link!FlushAll, Link!Flush, Link!Listed, Link!Nowhere
  <2>2. \A c \in strays \ strays' : shells'[c].state = "none"
    BY <2>1 DEF LinkTypes
  <2> QED
    BY <2>1, <2>2, ReportsStay
<1>4. ASSUME NEW e \in Link!Held, Link!Destroy(e) PROVE ReportsInOrder'
  <2>1. UNCHANGED <<pc, told, callback>> /\ strays \subseteq strays' /\ e.callsign \in Callsigns
    BY <1>4, <1>a DEF Link!Destroy
  <2>2. CASE UNCHANGED <<shells, destructed, overtaken>>
    BY <1>1, <2>1, <2>2
  <2>3. CASE /\ shells' = [shells EXCEPT ![e.callsign] = Link!Nowhere]
             /\ destructed' \in SUBSET (destructed \cup {e.callsign})
             /\ overtaken' = overtaken \ {e.callsign}
    <3>1. \A c \in Callsigns : shells'[c] = IF c = e.callsign THEN Link!Nowhere ELSE shells[c]
      BY <2>1, <2>3 DEF LinkTypes
    <3>2. Link!Listed' = Link!Listed \ {e.callsign}
      BY <3>1 DEF Link!Listed, Link!Nowhere
    <3> QED
      BY <2>1, <2>3, <3>1, <3>2, ReportsStay DEF Link!Listed, Link!Nowhere
  <2> QED
    BY <1>4, <2>2, <2>3 DEF Link!Destroy, Link!DestroyEntry
<1>5. ASSUME NEW e \in Link!Held, Link!Activated(e) \/ Link!Deactivated(e) \/ Link!Unavailable(e)
      PROVE  ReportsInOrder'
  <2>1. PICK s : /\ Link!Noted(e.callsign, s) /\ UNCHANGED <<pc, told, callback>>
                 /\ strays \subseteq strays' /\ e.callsign \in Callsigns
    BY <1>5, <1>a DEF Link!Activated, Link!Deactivated, Link!Unavailable
  <2>2. destructed' = destructed /\ overtaken' = overtaken
        /\ \A c \in Callsigns : shells'[c].state = shells[c].state /\ shells'[c].listed = shells[c].listed
    BY <2>1 DEF Link!Noted, LinkTypes
  <2>3. Link!Listed' = Link!Listed
    BY <2>2 DEF Link!Listed
  <2> QED
    BY <2>1, <2>2, <2>3, ReportsStay DEF Link!Listed
<1>6. CASE Link!Subscribe
  <2>1. /\ UNCHANGED <<shells, destructed, pc, overtaken, strays>>
        /\ told' = [c \in Callsigns |-> Link!Told(shells[c])]
    BY <1>6 DEF Link!Subscribe
  <2>2. Link!Listed' = Link!Listed
    BY <2>1 DEF Link!Listed
  <2>3. \A c \in Link!Listed : told'[c] = IF shells[c].state = "none" THEN "DEACTIVATED" ELSE shells[c].state
    BY <2>1 DEF Link!Listed, Link!Told
  <2>4. Link!StateAsReported'
    BY <2>1, <2>2, <2>3 DEF Link!StateAsReported
  <2> QED
    BY <2>1, <2>2, <2>4 DEF ReportsInOrder
<1>7. CASE Link!Dispatch
  <2> USE DEF Link!At, Link!Idle
  <2>1. CASE Link!Start \/ Link!DestructedDone \/ Link!CreatedDone \/ Link!End
    <3>1. UNCHANGED <<shells, destructed, told, overtaken, strays, callback>>
          /\ pc.at \in {"idle", "destructed", "created", "report"}
          /\ pc'.at \in {"idle", "destructed", "created", "report"}
      BY <2>1 DEF Link!Start, Link!DestructedDone, Link!CreatedDone, Link!End
    <3>2. Link!Listed' = Link!Listed
      BY <3>1 DEF Link!Listed
    <3> QED
      BY <3>1, <3>2 DEF ReportsInOrder, Link!StateAsReported
  <2>2. ASSUME NEW d \in Callsigns, Link!TakeDestructed(d) PROVE ReportsInOrder'
    <3>1. UNCHANGED <<shells, told, overtaken, strays, callback>> /\ d \in destructed /\ destructed' = destructed \ {d}
          /\ pc.at = "destructed" /\ (pc' = pc \/ (pc'.at = "Destroy" /\ pc'.callsign = d))
      BY <2>2 DEF Link!TakeDestructed
    <3>2. Link!Listed' = Link!Listed
      BY <3>1 DEF Link!Listed
    <3> QED
      BY <3>1, <3>2 DEF ReportsInOrder, Link!StateAsReported
  <2>3. CASE Link!CallDestroy
    <3>1. UNCHANGED <<shells, destructed, overtaken, strays, callback>> /\ pc.at = "Destroy" /\ pc'.at = "destructed"
          /\ told' = [told EXCEPT ![pc.callsign] = "none"]
      BY <2>3 DEF Link!CallDestroy
    <3>2. Link!Listed' = Link!Listed
      BY <3>1 DEF Link!Listed
    <3>3. \A c \in Link!Listed \ overtaken : told'[c] = told[c]
      BY <3>1 DEF ReportsInOrder, LinkTypes, Link!Listed
    <3> QED
      BY <3>1, <3>2, <3>3 DEF ReportsInOrder, Link!StateAsReported
  <2>4. ASSUME NEW d \in Callsigns, Link!TakeCreated(d) PROVE ReportsInOrder'
    <3>1. /\ UNCHANGED <<destructed, told, strays, callback>>
          /\ shells' = IF d \in Link!Listed THEN shells ELSE [shells EXCEPT ![d] = Link!Proxy]
          /\ overtaken' = IF d \in destructed THEN overtaken \cup {d} ELSE overtaken
          /\ pc.at = "created"
          /\ IF callback THEN pc'.at \in {"Load", "Created"} /\ pc'.callsign = d ELSE pc' = pc
      BY <2>4 DEF Link!TakeCreated
    <3>2. \A c \in Callsigns : shells'[c] = IF c = d /\ d \notin Link!Listed THEN Link!Proxy ELSE shells[c]
      BY <3>1 DEF LinkTypes
    <3>3. Link!Listed' = Link!Listed \cup {d}
      BY <3>2 DEF Link!Listed, Link!Proxy, Link!Nowhere
    <3>4. Link!StateAsReported'
      <4> SUFFICES ASSUME callback', NEW c \in Link!Listed' \ (overtaken' \cup strays'), c # d
          PROVE  \/ told'[c] = shells'[c].state
                 \/ shells'[c].state = "none" /\ told'[c] \in {"created", "DEACTIVATED"}
        BY <3>1 DEF Link!StateAsReported
      <4>1. c \in Link!Listed \ (overtaken \cup strays) /\ shells'[c] = shells[c]
        BY <3>1, <3>2, <3>3 DEF Link!Listed
      <4> QED
        BY <3>1, <4>1 DEF ReportsInOrder, Link!StateAsReported
    <3>5. destructed' \cap Link!Listed' \subseteq overtaken'
      BY <3>1, <3>3 DEF ReportsInOrder
    <3>6. shells'[d].state = "none" \/ d \in strays'
      <4>1. d \in Link!Listed => d \in strays
        BY <2>4 DEF Link!TakeCreated, EventsInOrder
      <4> QED
        BY <3>1, <3>2, <4>1 DEF Link!Proxy, Link!Nowhere
    <3> QED
      BY <3>1, <3>4, <3>5, <3>6 DEF ReportsInOrder
  <2>5. CASE Link!LoadAsk
    <3>1. UNCHANGED <<shells, destructed, told, overtaken, strays, callback>>
          /\ pc.at = "Load" /\ pc'.at = "Created" /\ pc'.callsign = pc.callsign
      BY <2>5 DEF Link!LoadAsk, LinkTypes
    <3>2. Link!Listed' = Link!Listed
      BY <3>1 DEF Link!Listed
    <3> QED
      BY <3>1, <3>2 DEF ReportsInOrder, Link!StateAsReported
  <2>6. CASE Link!CallCreated
    <3>1. UNCHANGED <<destructed, overtaken, strays, callback>> /\ pc.at = "Created" /\ pc'.at = "created"
          /\ told' = [told EXCEPT ![pc.callsign] = "created"]
      BY <2>6 DEF Link!CallCreated
    <3>2. \A c \in Callsigns : shells'[c].state = shells[c].state /\ shells'[c].listed = shells[c].listed
      BY <2>6 DEF Link!CallCreated, LinkTypes
    <3>3. Link!Listed' = Link!Listed
      BY <3>2 DEF Link!Listed
    <3>4. Link!StateAsReported'
      <4> SUFFICES ASSUME callback', NEW c \in Link!Listed' \ (overtaken' \cup strays')
          PROVE  \/ told'[c] = shells'[c].state
                 \/ shells'[c].state = "none" /\ told'[c] \in {"created", "DEACTIVATED"}
        BY DEF Link!StateAsReported
      <4>1. c \in Callsigns /\ told'[c] = IF c = pc.callsign THEN "created" ELSE told[c]
        BY <3>1 DEF Link!Listed, LinkTypes
      <4> QED
        BY <3>1, <3>2, <3>3, <4>1 DEF ReportsInOrder, Link!StateAsReported
    <3> QED
      BY <3>1, <3>3, <3>4 DEF ReportsInOrder
  <2>7. ASSUME NEW d \in Callsigns, Link!TakeChange(d) PROVE ReportsInOrder'
    <3>1. /\ UNCHANGED <<destructed, told, overtaken, strays, callback>> /\ pc.at = "report"
          /\ shells' = [shells EXCEPT ![d] = Link!Reported(@)]
          /\ IF callback THEN pc'.at = "Change" /\ pc'.callsign = d /\ pc'.seen = shells[d].report
                         ELSE pc' = pc
      BY <2>7 DEF Link!TakeChange
    <3>2. \A c \in Callsigns : /\ shells'[c].listed = shells[c].listed
                               /\ c # d => shells'[c] = shells[c]
                               /\ c = d => shells'[c].state = shells[c].report
      BY <3>1 DEF LinkTypes, Link!Reported
    <3>3. Link!Listed' = Link!Listed
      BY <3>2 DEF Link!Listed
    <3>4. Link!StateAsReported'
      <4> SUFFICES ASSUME callback', NEW c \in Link!Listed' \ (overtaken' \cup strays'), c # d
          PROVE  \/ told'[c] = shells'[c].state
                 \/ shells'[c].state = "none" /\ told'[c] \in {"created", "DEACTIVATED"}
        BY <3>1 DEF Link!StateAsReported
      <4>1. c \in Link!Listed \ (overtaken \cup strays) /\ shells'[c] = shells[c]
        BY <3>1, <3>2, <3>3 DEF Link!Listed
      <4> QED
        BY <3>1, <4>1 DEF ReportsInOrder, Link!StateAsReported
    <3> QED
      BY <3>1, <3>2, <3>3, <3>4 DEF ReportsInOrder
  <2>8. CASE Link!CallChange
    <3>1. UNCHANGED <<shells, destructed, overtaken, strays, callback>> /\ pc.at = "Change" /\ pc'.at = "report"
          /\ told' = [told EXCEPT ![pc.callsign] = pc.seen]
      BY <2>8 DEF Link!CallChange
    <3>2. Link!Listed' = Link!Listed
      BY <3>1 DEF Link!Listed
    <3>3. \A c \in Link!Listed : told'[c] = IF c = pc.callsign THEN pc.seen ELSE told[c]
      BY <3>1 DEF Link!Listed, LinkTypes
    <3> QED
      BY <3>1, <3>2, <3>3 DEF ReportsInOrder, Link!StateAsReported
  <2>9. CASE Link!Crash
    BY <1>1, <2>9 DEF Link!Crash
  <2> QED
    BY <1>7, <2>1, <2>2, <2>3, <2>4, <2>5, <2>6, <2>7, <2>8, <2>9 DEF Link!Dispatch
<1> QED
  BY <1>2, <1>b, <1>3, <1>4, <1>5, <1>6, <1>7
     DEF Link!Next, Link!Events, Link!Callback, Link!Deinitialize

\* The link and its clients agree on the plugins that there are: what is
\* created is new and what is destroyed is known, although the channel breaks
\* and the other side announces everything again (the assertions of Created
\* and Destroy); and a proxy shows the state that the sink was told last.
THEOREM LinkStaysInStep == MCSpec => []InStep
<1> DEFINE v == <<linkVars, proxyVars, group>>
<1>1. MCInit => LinkInv
  BY LinkStarts, CallsignsAssumption DEF MCInit
<1>2. LinkInv /\ [MCNext]_v => LinkInv'
  <2> SUFFICES ASSUME LinkInv, [MCNext]_v PROVE LinkInv'
    OBVIOUS
  <2>1. [Link!Next]_(Link!vars)
    BY DEF MCNext, linkVars, Link!vars, Link!linkVars
  <2> QED
    BY <2>1, LinkKeepsTypes, EventsStayInOrder, ReportsStayInOrder DEF LinkInv
<1>3. LinkInv => InStep
  <2> SUFFICES ASSUME LinkInv, events # <<>>, phase \in {"up", "revoked", "closed"},
                      Head(events).callsign \notin strays
      PROVE  /\ Head(events).event = "Created" => Head(events).callsign \notin Here
             /\ Head(events).event = "Destroy" => Head(events).callsign \in Here
    BY DEF LinkInv, ReportsInOrder, InStep, Link!InStep, Link!EventsFit, Link!Fits, Here
  <2>1. PICK all \in SUBSET Callsigns :
         /\ Here \subseteq all \cup strays /\ all \subseteq Here \cup strays
         /\ Course(events, all, There)
    BY DEF LinkInv, EventsInOrder
  <2>2. PICK then \in SUBSET Callsigns : Follows(Head(events), all, then)
    <3>1. events \in Seq(LinkEvents)
      BY DEF LinkInv, LinkTypes
    <3> QED
      BY <2>1, <3>1, CourseBegins
  <2> QED
    BY <2>1, <2>2 DEF Follows
<1> QED
  BY <1>1, <1>2, <1>3, PTL DEF MCSpec
=============================================================================
