--------------------------- MODULE Monitor_proofs ---------------------------
(***************************************************************************)
(* The safety of the monitor, for any plugins, intervals, limits and       *)
(* width of its counters.                                                  *)
(*                                                                         *)
(* Three arguments: a countdown is a multiple of the step it is lowered    *)
(* by, so it meets zero; a count of restarts is 2^k - 1, smaller than 2^n  *)
(* after n of them and, as long as it is not saturated, no smaller than n  *)
(* but one; a run that was not submitted again waits for whatever is on    *)
(* and behind it.                                                          *)
(***************************************************************************)
EXTENDS Monitor, WellFoundedInduction, TLAPS

\* A countdown is a multiple of the step.
CountdownsDivide ==
  \A p \in Plugins :
    /\ OperationalInterval[p] # 0 => Divides(Interval[p], operationalSlots[p])
    /\ MemoryInterval[p] # 0 => Divides(Interval[p], memorySlots[p])

\* The doublings of 1 up to the number of values of a counter.
IsDoubling(S) == /\ 1 \in S /\ MaxUint + 1 \in S
                 /\ \A n \in S : n = MaxUint + 1 \/ 2 * n \in S
Doublings == CHOOSE S \in SUBSET (1 .. MaxUint + 1) : IsDoubling(S)

\* The count overtakes the restarts.
RestartsCounted ==
  \A p \in Plugins :
    /\ restartCount[p] + 1 \in Doublings
    /\ restartCount[p] = MaxUint \/ attempts[p] <= restartCount[p] + 1
    /\ attempts[p] < MaxAttempts => restartCount[p] + 1 <= Power[attempts[p]]

\* What is on is still to come or waited for, unless the job comes again.
RunWaits == job = "running" => \A p \in Plugins : plugin[p] = "on" => p \in todo \cup wake

IInv == TypeOK /\ CountdownsDivide /\ CountdownsHitZero /\ RestartsCounted
        /\ RunWaits /\ ActiveIsWatched

-----------------------------------------------------------------------------
(* Numbers.                                                                *)

\* Unsigned arithmetic: in range, and what overflows once loses the width.
LEMMA WrapLemma ==
  /\ \A n \in Int : Wrap(n) \in 0 .. MaxUint
  /\ \A n \in 0 .. MaxUint : Wrap(n) = n
  /\ \A n \in MaxUint + 1 .. 2 * MaxUint + 1 : Wrap(n) = n - MaxUint - 1
<1>1. ASSUME NEW n \in Int PROVE Wrap(n) \in 0 .. MaxUint
  BY RestartAssumption, SMT DEF Wrap
<1>2. ASSUME NEW n \in 0 .. MaxUint PROVE Wrap(n) = n
  BY RestartAssumption, SMT DEF Wrap
<1>3. ASSUME NEW n \in MaxUint + 1 .. 2 * MaxUint + 1 PROVE Wrap(n) = n - MaxUint - 1
  BY RestartAssumption, SMT DEF Wrap
<1>4. QED BY <1>1, <1>2, <1>3

Less == {ss \in Nat \X Nat : ss[1] < ss[2]}

\* A set of natural numbers has a least element.
LEMMA LeastExists ==
  ASSUME NEW T \in SUBSET Nat, T # {}
  PROVE  \E x \in T : \A y \in T : x <= y
<1>1. IsWellFoundedOn(Less, Nat)
  BY NatLessThanWellFounded, Zenon DEF OpToRel, Less
<1>2. PICK x \in T : \A y \in T : ~ (<<y, x>> \in Less)
  BY <1>1, WFMin
<1>3. ASSUME NEW y \in T PROVE x <= y
  <2>1. <<y, x>> \in Nat \X Nat /\ x \in Nat /\ y \in Nat
    OBVIOUS
  <2>2. <<y, x>> \in Less <=> y < x
    BY <2>1 DEF Less
  <2>3. QED BY <1>2, <2>1, <2>2
<1>4. QED BY <1>3

\* A set of numbers up to b has a greatest.
LEMMA GreatestExists ==
  ASSUME NEW b \in Nat, NEW T \in SUBSET (0 .. b), T # {}
  PROVE  \E x \in T : \A y \in T : y <= x
<1>1. PICK D : D = {b - n : n \in T}
  OBVIOUS
<1>2. ASSUME NEW d \in D PROVE d \in Nat
  <2>1. PICK n \in T : d = b - n
    BY <1>1
  <2>2. QED BY <2>1
<1>3. D \in SUBSET Nat /\ D # {}
  BY <1>1, <1>2
<1>4. PICK m \in D : \A y \in D : m <= y
  BY <1>3, LeastExists
<1>5. PICK x \in T : m = b - x
  BY <1>1, <1>4
<1>6. ASSUME NEW y \in T PROVE y <= x
  <2>1. b - y \in D
    BY <1>1
  <2>2. QED BY <2>1, <1>4, <1>5
<1>7. QED BY <1>6

\* The step of a plugin divides its intervals.
LEMMA IntervalLemma ==
  ASSUME NEW p \in Plugins
  PROVE  /\ Interval[p] \in 1 .. MaxUint
         /\ Divides(Interval[p], OperationalInterval[p])
         /\ Divides(Interval[p], MemoryInterval[p])
<1> DEFINE o == OperationalInterval[p]
           m == MemoryInterval[p]
<1>1. o \in Nat /\ m \in Nat /\ o <= MaxUint /\ m <= MaxUint /\ (o # 0 \/ m # 0)
  BY IntervalAssumption, WidthAssumption
<1>2. 1 \in Common(p)
  <2>1. Divides(1, o) /\ Divides(1, m)
    <3>1. o \in 0 .. o /\ o = 1 * o /\ m \in 0 .. m /\ m = 1 * m
      BY <1>1
    <3>2. QED BY <3>1 DEF Divides
  <2>2. 1 \in 1 .. o + m
    BY <1>1
  <2>3. QED BY <2>1, <2>2 DEF Common
<1>3. Common(p) \in SUBSET (0 .. o + m)
  BY <1>1 DEF Common
<1>4. \E d \in Common(p) : \A e \in Common(p) : e <= d
  <2>1. o + m \in Nat
    BY <1>1
  <2>2. QED BY <1>2, <1>3, <2>1, GreatestExists
<1>5. Interval[p] \in Common(p)
  BY <1>4 DEF Interval
<1>6. Divides(Interval[p], o) /\ Divides(Interval[p], m) /\ Interval[p] \in 1 .. o + m
  BY <1>5 DEF Common
<1>7. ASSUME NEW i \in Nat, i # 0, i <= MaxUint, Divides(Interval[p], i)
      PROVE  Interval[p] <= MaxUint
  <2>1. PICK k \in 0 .. i : i = Interval[p] * k
    BY <1>7 DEF Divides
  <2>2. k # 0
    BY <2>1, <1>6, <1>1, <1>7
  <2>3. Interval[p] <= Interval[p] * k
    BY <2>1, <2>2, <1>6, <1>1
  <2>4. QED BY <2>1, <2>3, <1>7, <1>6, <1>1, RestartAssumption
<1>8. Interval[p] <= MaxUint
  BY <1>1, <1>6, <1>7
<1>9. QED BY <1>1, <1>6, <1>8, RestartAssumption

\* A countdown that is a multiple of the step is lowered to a multiple of it,
\* without wrapping.
LEMMA CountdownLemma ==
  ASSUME NEW p \in Plugins, NEW slot, NEW i \in 1 .. MaxUint,
         slot[p] \in 1 .. i, Divides(Interval[p], slot[p])
  PROVE  Left(slot, p) \in 0 .. i /\ Divides(Interval[p], Left(slot, p))
<1>1. PICK d \in 1 .. MaxUint : d = Interval[p]
  BY IntervalLemma
<1>2. PICK n \in 1 .. i : n = slot[p]
  OBVIOUS
<1>3. PICK k \in 0 .. n : n = d * k
  BY <1>1, <1>2 DEF Divides
<1>4. k # 0 /\ n - d = d * (k - 1)
  BY <1>3, <1>1, <1>2
<1>5. 0 <= d * (k - 1) /\ k - 1 <= d * (k - 1)
  BY <1>4, <1>3, <1>1, <1>2
<1>6. n - d \in 0 .. i
  BY <1>4, <1>5, <1>1, <1>2
<1>7. Left(slot, p) = n - d
  <2>1. PICK e \in MaxUint + 1 .. 2 * MaxUint + 1 : e = MaxUint + 1 + n - d
    BY <1>6, <1>1, <1>2, RestartAssumption
  <2>2. Wrap(e) = e - MaxUint - 1
    BY <2>1, WrapLemma
  <2>3. Left(slot, p) = Wrap(e)
    BY <1>1, <1>2, <2>1 DEF Left
  <2>4. e - MaxUint - 1 = n - d
    BY <1>1, <1>2, <2>1, RestartAssumption
  <2>5. QED BY <2>2, <2>3, <2>4
<1>8. Divides(d, n - d)
  <2>1. k - 1 \in 0 .. n - d
    BY <1>4, <1>5, <1>3, <1>1, <1>2
  <2>2. QED BY <2>1, <1>4 DEF Divides
<1>9. QED BY <1>1, <1>6, <1>7, <1>8

\* The counts are among the doublings less one: a step to the next does not
\* wrap, unless it stays at the last.
LEMMA DoublingsLemma ==
  /\ Doublings \subseteq 1 .. MaxUint + 1 /\ 1 \in Doublings
  /\ \A c \in 0 .. MaxUint : c + 1 \in Doublings =>
       /\ Wrap(2 * c + 1) \in 0 .. MaxUint /\ Wrap(2 * c + 1) + 1 \in Doublings
       /\ Wrap(2 * c + 1) = MaxUint \/ Wrap(2 * c + 1) = 2 * c + 1
       /\ c = MaxUint => Wrap(2 * c + 1) = MaxUint
<1>1. Doublings \in SUBSET (1 .. MaxUint + 1) /\ IsDoubling(Doublings)
  BY WidthAssumption DEF Doublings, IsDoubling
<1>2. ASSUME NEW c \in 0 .. MaxUint, c + 1 \in Doublings
      PROVE  /\ Wrap(2 * c + 1) \in 0 .. MaxUint /\ Wrap(2 * c + 1) + 1 \in Doublings
             /\ Wrap(2 * c + 1) = MaxUint \/ Wrap(2 * c + 1) = 2 * c + 1
             /\ c = MaxUint => Wrap(2 * c + 1) = MaxUint
  <2>1. CASE c = MaxUint
    <3>1. Wrap(2 * c + 1) = 2 * c + 1 - MaxUint - 1
      BY <2>1, WrapLemma, RestartAssumption
    <3>2. Wrap(2 * c + 1) = MaxUint
      BY <3>1, <2>1, RestartAssumption
    <3>3. QED BY <3>2, <1>1, RestartAssumption DEF IsDoubling
  <2>2. CASE c # MaxUint
    <3>1. 2 * (c + 1) \in Doublings
      BY <2>2, <1>1, <1>2, RestartAssumption DEF IsDoubling
    <3>2. 2 * c + 1 \in 0 .. MaxUint /\ 2 * c + 1 + 1 = 2 * (c + 1)
      BY <3>1, <1>1, RestartAssumption
    <3>3. Wrap(2 * c + 1) = 2 * c + 1
      BY <3>2, WrapLemma
    <3>4. QED BY <2>2, <3>1, <3>2, <3>3
  <2>3. QED BY <2>1, <2>2
<1>3. QED BY <1>1, <1>2 DEF IsDoubling

-----------------------------------------------------------------------------
(* Type correctness.                                                       *)

\* Counters, intervals and limits start in range.
LEMMA InitType == Init => TypeOK
<1> SUFFICES ASSUME Init PROVE TypeOK
  OBVIOUS
<1>1. operationalSlots \in [Plugins -> 0 .. MaxUint] /\ memorySlots \in [Plugins -> 0 .. MaxUint]
  BY IntervalAssumption, WidthAssumption, RestartAssumption DEF Init
<1>2. /\ restartCount \in [Plugins -> 0 .. MaxUint] /\ tried \in [Plugins -> 0 .. MaxTried]
      /\ attempts \in [Plugins -> 0 .. MaxAttempts]
  BY RestartAssumption DEF Init
<1>3. QED BY <1>1, <1>2 DEF Init, TypeOK

\* A countdown stays in range, whatever the step.
LEMMA SlotsType ==
  ASSUME NEW slot \in [Plugins -> 0 .. MaxUint], NEW interval \in [Plugins -> Nat],
         \A q \in Plugins : interval[q] <= MaxUint, NEW p \in Plugins
  PROVE  [slot EXCEPT ![p] = IF Checks(slot, interval, p) THEN interval[p] ELSE Left(slot, p)]
           \in [Plugins -> 0 .. MaxUint]
<1>1. Left(slot, p) \in 0 .. MaxUint
  <2>1. PICK e \in Int : e = MaxUint + 1 + slot[p] - Interval[p]
    BY IntervalLemma, RestartAssumption
  <2>2. QED BY <2>1, WrapLemma DEF Left
<1>2. interval[p] \in 0 .. MaxUint
  BY RestartAssumption
<1>3. QED BY <1>1, <1>2

\* The count of restarts stays in range.
LEMMA RestartType ==
  ASSUME TypeOK, NEW p \in Plugins, Restart(p), p \in Restartable
  PROVE  /\ restartCount' \in [Plugins -> 0 .. MaxUint] /\ tried' \in [Plugins -> 0 .. MaxTried]
         /\ attempts' \in [Plugins -> 0 .. MaxAttempts]
         /\ starts' \subseteq Restartable /\ inWindow' \subseteq Restartable
<1>1. \A q \in Plugins : Counted(q) \in 0 .. MaxUint
  <2> SUFFICES ASSUME NEW q \in Plugins PROVE Counted(q) \in 0 .. MaxUint
    OBVIOUS
  <2>1. restartCount[q] \in 0 .. MaxUint
    BY DEF TypeOK
  <2>2. 2 * restartCount[q] + 1 \in Int
    BY <2>1, RestartAssumption
  <2>3. Wrap(2 * restartCount[q] + 1) \in 0 .. MaxUint
    BY <2>2, WrapLemma
  <2>4. QED BY <2>3, RestartAssumption DEF Counted
<1>2. restartCount' \in [Plugins -> 0 .. MaxUint]
  BY <1>1, RestartAssumption DEF TypeOK, Restart, RegisterRestart, CountAfter
<1>3. /\ OneMore(tried[p], MaxTried) \in 0 .. MaxTried /\ 1 \in 0 .. MaxTried
      /\ OneMore(attempts[p], MaxAttempts) \in 0 .. MaxAttempts
      /\ 1 \in 0 .. MaxAttempts /\ 0 \in 0 .. MaxAttempts
  BY RestartAssumption DEF TypeOK, OneMore
<1>4. tried' \in [Plugins -> 0 .. MaxTried] /\ attempts' \in [Plugins -> 0 .. MaxAttempts]
  BY <1>3 DEF TypeOK, Restart
<1>5. QED BY <1>2, <1>4 DEF TypeOK, Restart, RegisterRestart

\* Every step keeps the types.
LEMMA NextType == TypeOK /\ [Next]_vars => TypeOK'
<1> SUFFICES ASSUME TypeOK, [Next]_vars PROVE TypeOK'
  OBVIOUS
<1> USE DEF TypeOK, pluginVars, slotVars, historyVars, restartVars, limitVars, runVars
<1>1. CASE DispatchStarts
  BY <1>1 DEF DispatchStarts
<1>2. CASE DispatchEnds
  BY <1>2 DEF DispatchEnds, JobAfterRun
<1>3. ASSUME NEW p \in Plugins, Skip(p) PROVE TypeOK'
  BY <1>3 DEF Skip, IsNext
<1>4. ASSUME NEW p \in Plugins, NotYet(p) PROVE TypeOK'
  BY <1>4 DEF NotYet, IsNext
<1>5. ASSUME NEW p \in Plugins, EvaluateNothing(p) PROVE TypeOK'
  BY <1>5 DEF EvaluateNothing, IsNext
<1>6. ASSUME NEW p \in Plugins, EvaluateStarts(p) PROVE TypeOK'
  BY <1>6 DEF EvaluateStarts, IsNext
<1>7. ASSUME NEW p \in Plugins, Evaluate(p) PROVE TypeOK'
  <2>1. operationalSlots' \in [Plugins -> 0 .. MaxUint] /\ memorySlots' \in [Plugins -> 0 .. MaxUint]
    BY <1>7, SlotsType, IntervalAssumption, WidthAssumption DEF Evaluate
  <2>2. QED BY <1>7, <2>1 DEF Evaluate
<1>8. ASSUME NEW p \in Plugins, Activated(p) PROVE TypeOK'
  BY <1>8 DEF Activated, Becomes, SubmittedByActivated, Submitted
<1>9. ASSUME NEW p \in Plugins, Deinitialized(p) PROVE TypeOK'
  <2>1. /\ restartCount' \in [Plugins -> 0 .. MaxUint] /\ tried' \in [Plugins -> 0 .. MaxTried]
        /\ attempts' \in [Plugins -> 0 .. MaxAttempts]
        /\ starts' \subseteq Restartable /\ inWindow' \subseteq Restartable
    BY <1>9, RestartType DEF Deinitialized
  <2>2. QED BY <1>9, <2>1 DEF Deinitialized, Becomes
<1>10. ASSUME NEW p \in Plugins, JobActivates(p) PROVE TypeOK'
  BY <1>10, RestartAssumption DEF JobActivates, Activate, Becomes
<1>11. ASSUME NEW p \in Plugins, JobDeactivates(p) PROVE TypeOK'
  BY <1>11 DEF JobDeactivates, Deactivate, SourceDropped, Becomes
<1>12. ASSUME NEW p \in Plugins, ClientActivates(p) PROVE TypeOK'
  BY <1>12 DEF ClientActivates, Activate, Becomes
<1>13. ASSUME NEW p \in Plugins, ClientDeactivates(p) PROVE TypeOK'
  BY <1>13 DEF ClientDeactivates, Deactivate, SourceDropped, Becomes
<1>14. ASSUME NEW p \in Plugins, Crashes(p) PROVE TypeOK'
  BY <1>14, RestartAssumption DEF Crashes, Deactivate, SourceDropped, Becomes
<1>15. ASSUME NEW p \in Plugins, NEW w \in Windows, NEW l \in Limits, Update(p, w, l)
       PROVE  TypeOK'
  BY <1>15 DEF Update
<1>16. ASSUME NEW p \in Plugins, SlotIsDue(p) PROVE TypeOK'
  BY <1>16 DEF SlotIsDue
<1>17. ASSUME NEW p \in Plugins, WindowEnds(p) PROVE TypeOK'
  BY <1>17 DEF WindowEnds
<1>18. CASE UNCHANGED vars
  BY <1>18 DEF vars
<1>19. QED BY <1>1, <1>2, <1>3, <1>4, <1>5, <1>6, <1>7, <1>8, <1>9, <1>10, <1>11, <1>12, <1>13, <1>14, <1>15, <1>16, <1>17, <1>18 DEF Next, Probes, Handles, Clients

\* Type correctness: whoever holds a source is active, the job runs while
\* there are plugins to come to.
THEOREM TypeCorrect == Spec => []TypeOK
<1>1. Spec => Init /\ [][Next]_vars
  BY DEF Spec
<1>2. QED BY <1>1, InitType, NextType, PTL

-----------------------------------------------------------------------------
(* Countdowns.                                                             *)

\* Countdowns change in Evaluate only.
LEMMA SlotsChange ==
  [Next]_vars => UNCHANGED slotVars \/ \E p \in Plugins : Evaluate(p)
BY DEF Next, Probes, Handles, Clients, vars, DispatchStarts, DispatchEnds, Skip, NotYet,
       EvaluateNothing, EvaluateStarts, Activated, Deinitialized, JobActivates, Activate,
       JobDeactivates, Deactivate, ClientActivates, ClientDeactivates, Crashes, Update,
       SlotIsDue, WindowEnds, slotVars

\* One countdown of the plugin that was asked.
LEMMA CountdownStep ==
  ASSUME NEW p \in Plugins, NEW slot \in [Plugins -> 0 .. MaxUint],
         NEW interval \in [Plugins -> 0 .. MaxUint], interval[p] # 0,
         slot[p] \in 1 .. interval[p], Divides(Interval[p], slot[p]),
         Divides(Interval[p], interval[p]),
         NEW after, after = IF Checks(slot, interval, p) THEN interval[p] ELSE Left(slot, p)
  PROVE  after \in 1 .. interval[p] /\ Divides(Interval[p], after)
<1>1. PICK i \in 1 .. MaxUint : i = interval[p]
  BY RestartAssumption
<1>2. Left(slot, p) \in 0 .. i /\ Divides(Interval[p], Left(slot, p))
  BY <1>1, CountdownLemma
<1>3. CASE Checks(slot, interval, p)
  BY <1>1, <1>3
<1>4. CASE ~ Checks(slot, interval, p)
  <2>1. Left(slot, p) # 0
    BY <1>4 DEF Checks
  <2>2. QED BY <2>1, <1>1, <1>2, <1>4
<1>5. QED BY <1>3, <1>4

\* Countdowns start with their intervals, which the step divides.
LEMMA InitCountdowns == Init => CountdownsDivide /\ CountdownsHitZero
<1> SUFFICES ASSUME Init, NEW p \in Plugins
             PROVE  /\ OperationalInterval[p] # 0 =>
                         /\ Divides(Interval[p], operationalSlots[p])
                         /\ operationalSlots[p] \in 1 .. OperationalInterval[p]
                    /\ MemoryInterval[p] # 0 =>
                         /\ Divides(Interval[p], memorySlots[p])
                         /\ memorySlots[p] \in 1 .. MemoryInterval[p]
  BY DEF CountdownsDivide, CountdownsHitZero
<1>1. OperationalInterval[p] \in Nat /\ MemoryInterval[p] \in Nat
  BY IntervalAssumption
<1>2. operationalSlots[p] = OperationalInterval[p] /\ memorySlots[p] = MemoryInterval[p]
  BY DEF Init
<1>3. QED BY <1>1, <1>2, IntervalLemma

\* Every step keeps the countdowns multiples of the step.
LEMMA NextCountdowns ==
  TypeOK /\ CountdownsDivide /\ CountdownsHitZero /\ [Next]_vars
    => CountdownsDivide' /\ CountdownsHitZero'
<1> SUFFICES ASSUME TypeOK, CountdownsDivide, CountdownsHitZero, [Next]_vars
             PROVE  CountdownsDivide' /\ CountdownsHitZero'
  OBVIOUS
<1>1. CASE UNCHANGED slotVars
  BY <1>1 DEF CountdownsDivide, CountdownsHitZero, slotVars
<1>2. ASSUME NEW p \in Plugins, Evaluate(p)
      PROVE  CountdownsDivide' /\ CountdownsHitZero'
  <2>1. /\ OperationalInterval \in [Plugins -> 0 .. MaxUint]
        /\ MemoryInterval \in [Plugins -> 0 .. MaxUint]
    BY IntervalAssumption, WidthAssumption, RestartAssumption
  <2>2. operationalSlots \in [Plugins -> 0 .. MaxUint] /\ memorySlots \in [Plugins -> 0 .. MaxUint]
    BY DEF TypeOK
  <2>3. /\ operationalSlots' =
             [operationalSlots EXCEPT ![p] =
                IF Checks(operationalSlots, OperationalInterval, p)
                  THEN OperationalInterval[p] ELSE Left(operationalSlots, p)]
        /\ memorySlots' =
             [memorySlots EXCEPT ![p] =
                IF Checks(memorySlots, MemoryInterval, p)
                  THEN MemoryInterval[p] ELSE Left(memorySlots, p)]
    BY <1>2 DEF Evaluate
  <2>4. OperationalInterval[p] # 0 => /\ operationalSlots'[p] \in 1 .. OperationalInterval[p]
                                      /\ Divides(Interval[p], operationalSlots'[p])
    BY <2>1, <2>2, <2>3, CountdownStep, IntervalLemma DEF CountdownsDivide, CountdownsHitZero
  <2>5. MemoryInterval[p] # 0 => /\ memorySlots'[p] \in 1 .. MemoryInterval[p]
                                 /\ Divides(Interval[p], memorySlots'[p])
    BY <2>1, <2>2, <2>3, CountdownStep, IntervalLemma DEF CountdownsDivide, CountdownsHitZero
  <2>6. \A q \in Plugins : q # p => operationalSlots'[q] = operationalSlots[q]
                                    /\ memorySlots'[q] = memorySlots[q]
    BY <2>2, <2>3
  <2>7. QED BY <2>4, <2>5, <2>6 DEF CountdownsDivide, CountdownsHitZero
<1>3. QED BY <1>1, <1>2, SlotsChange

-----------------------------------------------------------------------------
(* Restarts.                                                               *)

\* Restarts are counted where a plugin that failed is restarted, and nowhere else.
LEMMA RestartsChange ==
  [Next]_vars => \/ UNCHANGED <<restartCount, attempts>> /\ starts' \subseteq starts
                 \/ \E p \in Plugins : Deinitialized(p) /\ Restart(p) /\ p \in Restartable
BY DEF Next, Probes, Handles, Clients, vars, DispatchStarts, DispatchEnds, Skip, NotYet,
       EvaluateNothing, EvaluateStarts, Evaluate, Activated, Deinitialized, JobActivates,
       Activate, JobDeactivates, Deactivate, ClientActivates, ClientDeactivates, Crashes,
       Update, SlotIsDue, WindowEnds, historyVars, restartVars, pluginVars

\* No restart has been tried.
LEMMA InitRestarts == Init => RestartsCounted
BY DoublingsLemma, PowerAssumption DEF Init, RestartsCounted

\* What a restart counts; that it is within the limit when it is allowed; and
\* how many there were when it is not.
LEMMA RestartStep ==
  ASSUME TypeOK, RestartsCounted, NEW p \in Restartable, Restart(p)
  PROVE  /\ restartCount'[p] + 1 \in Doublings
         /\ restartCount'[p] = MaxUint \/ attempts'[p] <= restartCount'[p] + 1
         /\ attempts'[p] < MaxAttempts => restartCount'[p] + 1 <= Power[attempts'[p]]
         /\ Allowed(p) /\ limit[p] # 0 => attempts'[p] <= limit[p]
         /\ ~Allowed(p) /\ attempts[p] < MaxAttempts => limit[p] < Power[attempts[p] + 1]
<1> DEFINE c == restartCount[p]
           t == attempts[p]
<1>1. /\ c \in 0 .. MaxUint /\ c + 1 \in Doublings /\ (c = MaxUint \/ t <= c + 1)
      /\ t \in 0 .. MaxAttempts /\ MaxAttempts \in Nat \ {0} /\ MaxUint \in Nat
      /\ limit[p] \in Nat /\ limit[p] <= MaxUint
      /\ t < MaxAttempts => c + 1 <= Power[t]
  BY RestartAssumption, WidthAssumption DEF TypeOK, RestartsCounted
<1>2. /\ restartCount'[p] = IF Allowed(p) THEN Counted(p) ELSE 0
      /\ attempts'[p] = IF ~Allowed(p) THEN 0
                        ELSE IF WithinWindow(p) THEN OneMore(t, MaxAttempts) ELSE 1
  BY RestartAssumption DEF Restart, RegisterRestart, CountAfter, TypeOK
\* The doubling and the power of 2 go together.
<1>3. /\ Power[0] = 1 /\ Power[1] = 2
      /\ t < MaxAttempts => Power[t] \in Nat /\ Power[t + 1] = 2 * Power[t]
  <2>1. \A n \in 0 .. MaxAttempts : Power[n] \in Nat
    BY PowerAssumption
  <2>2. ASSUME t < MaxAttempts PROVE Power[t + 1] = 2 * Power[t]
    <3>1. PICK k \in 1 .. MaxAttempts : k = t + 1 /\ k - 1 = t
      BY <1>1, <2>2
    <3>2. Power[k] = 2 * Power[k - 1]
      BY PowerAssumption
    <3>3. QED BY <3>1, <3>2
  <2>3. 1 \in 1 .. MaxAttempts /\ 1 - 1 = 0
    BY <1>1
  <2>4. Power[1] = 2 * Power[0]
    <3>1. Power[1] = 2 * Power[1 - 1]
      BY <2>3, PowerAssumption
    <3>2. QED BY <3>1, <2>3
  <2>5. QED BY <1>1, <2>1, <2>2, <2>4, PowerAssumption
<1>4. PICK n \in 0 .. MaxUint :
          /\ n = Wrap(2 * c + 1) /\ n + 1 \in Doublings
          /\ n = MaxUint \/ n = 2 * c + 1
          /\ c = MaxUint => n = MaxUint
  BY <1>1, DoublingsLemma
<1>5. n <= 2 * c + 1
  <2>1. CASE 2 * c + 1 <= MaxUint
    BY <2>1, <1>1, <1>4, WrapLemma
  <2>2. CASE 2 * c + 1 > MaxUint
    BY <2>2, <1>1, <1>4
  <2>3. QED BY <2>1, <2>2, <1>1
<1>6. CASE ~ Allowed(p)
  <2>1. restartCount'[p] = 0 /\ attempts'[p] = 0
    BY <1>2, <1>6
  <2>2. Counted(p) >= limit[p] /\ (Counted(p) = n \/ Counted(p) = 0)
    BY <1>1, <1>4, <1>6 DEF Allowed, Counted
  <2>3. t < MaxAttempts => limit[p] < Power[t + 1]
    BY <2>2, <1>1, <1>3, <1>4, <1>5
  <2>4. QED BY <2>1, <2>3, <1>1, <1>3, <1>6, DoublingsLemma
<1>7. CASE Allowed(p) /\ ~ WithinWindow(p)
  <2>1. restartCount'[p] = 0 /\ attempts'[p] = 1
    BY <1>2, <1>7 DEF Counted
  <2>2. QED BY <2>1, <1>1, <1>3, <1>7, DoublingsLemma
<1>8. CASE Allowed(p) /\ WithinWindow(p)
  <2>1. restartCount'[p] = n /\ Counted(p) = n
    BY <1>2, <1>8, <1>4 DEF Counted
  <2>2. attempts'[p] \in 0 .. MaxAttempts /\ attempts'[p] <= t + 1
        /\ (attempts'[p] < MaxAttempts => attempts'[p] = t + 1 /\ t < MaxAttempts)
    BY <1>1, <1>2, <1>8 DEF OneMore
  <2>3. n = MaxUint \/ attempts'[p] <= n + 1
    BY <1>4, <2>2, <1>1
  <2>4. limit[p] # 0 => n < limit[p]
    BY <1>8, <2>1 DEF Allowed
  <2>5. limit[p] # 0 => attempts'[p] <= limit[p]
    BY <1>4, <2>2, <2>3, <2>4, <1>1
  <2>6. attempts'[p] < MaxAttempts => n + 1 <= Power[attempts'[p]]
    BY <2>2, <1>1, <1>3, <1>5
  <2>7. QED BY <1>4, <1>8, <2>1, <2>3, <2>5, <2>6
<1>9. QED BY <1>6, <1>7, <1>8

\* Every step keeps the count up with the restarts that were tried.
LEMMA NextRestarts ==
  TypeOK /\ RestartsCounted /\ [Next]_vars => RestartsCounted'
<1> SUFFICES ASSUME TypeOK, RestartsCounted, [Next]_vars PROVE RestartsCounted'
  OBVIOUS
<1>1. CASE UNCHANGED <<restartCount, attempts>>
  BY <1>1 DEF RestartsCounted
<1>2. ASSUME NEW p \in Restartable, Restart(p) PROVE RestartsCounted'
  <2>1. \A q \in Plugins : q # p => restartCount'[q] = restartCount[q] /\ attempts'[q] = attempts[q]
    BY <1>2 DEF Restart, RegisterRestart, CountAfter, TypeOK
  <2>2. QED BY <1>2, <2>1, RestartStep DEF RestartsCounted
<1>3. QED BY <1>1, <1>2, RestartsChange

-----------------------------------------------------------------------------
(* The job.                                                                *)

\* The job is submitted before any plugin is on.
LEMMA InitWatched == Init => RunWaits /\ ActiveIsWatched
BY DEF Init, RunWaits, ActiveIsWatched

\* Every step keeps what is on watched, and waited for.
LEMMA NextWatched ==
  TypeOK /\ RunWaits /\ ActiveIsWatched /\ [Next]_vars => RunWaits' /\ ActiveIsWatched'
<1> SUFFICES ASSUME TypeOK, RunWaits, ActiveIsWatched, [Next]_vars
             PROVE  RunWaits' /\ ActiveIsWatched'
  OBVIOUS
<1> USE DEF RunWaits, ActiveIsWatched, pluginVars, runVars
\* A plugin that comes up has the job submitted.
<1>1. ASSUME NEW p \in Plugins, Activated(p) PROVE RunWaits' /\ ActiveIsWatched'
  BY <1>1 DEF Activated, Becomes, SubmittedByActivated, Submitted, TypeOK
\* Otherwise none is on that was not before.
<1>2. ASSUME UNCHANGED <<job, todo, wake>>,
             \A p \in Plugins : plugin'[p] = "on" => plugin[p] = "on"
      PROVE  RunWaits' /\ ActiveIsWatched'
  BY <1>2
<1>3. ASSUME NEW p \in Plugins,
             \/ Deinitialized(p) \/ JobActivates(p) \/ JobDeactivates(p)
             \/ ClientActivates(p) \/ ClientDeactivates(p) \/ Crashes(p)
             \/ \E w \in Windows, l \in Limits : Update(p, w, l)
             \/ SlotIsDue(p) \/ WindowEnds(p) \/ EvaluateStarts(p)
      PROVE  RunWaits' /\ ActiveIsWatched'
  <2>1. UNCHANGED <<job, todo, wake>>
    BY <1>3 DEF Deinitialized, JobActivates, Activate, JobDeactivates, Deactivate,
                ClientActivates, ClientDeactivates, Crashes, Update, SlotIsDue,
                WindowEnds, EvaluateStarts
  <2>2. \A q \in Plugins : plugin'[q] = "on" => plugin[q] = "on"
    BY <1>3 DEF Deinitialized, JobActivates, Activate, JobDeactivates, Deactivate,
                ClientActivates, ClientDeactivates, Crashes, Update, SlotIsDue,
                WindowEnds, EvaluateStarts, Becomes, TypeOK
  <2>3. QED BY <1>2, <2>1, <2>2
<1>4. CASE DispatchStarts
  BY <1>4 DEF DispatchStarts
\* A run skips what is not active, and waits for what it does not skip.
<1>5. ASSUME NEW p \in Plugins, Skip(p) PROVE RunWaits' /\ ActiveIsWatched'
  <2>1. plugin[p] # "on"
    BY <1>5 DEF Skip, TypeOK
  <2>2. QED BY <1>5, <2>1 DEF Skip
<1>6. ASSUME NEW p \in Plugins, NotYet(p) \/ EvaluateNothing(p) \/ Evaluate(p)
      PROVE  RunWaits' /\ ActiveIsWatched'
  BY <1>6 DEF NotYet, EvaluateNothing, Evaluate
<1>7. CASE DispatchEnds
  BY <1>7 DEF DispatchEnds, JobAfterRun
<1>8. CASE UNCHANGED vars
  BY <1>8 DEF vars
<1>9. QED
  BY <1>1, <1>3, <1>4, <1>5, <1>6, <1>7, <1>8 DEF Next, Probes, Handles, Clients

-----------------------------------------------------------------------------

\* The initial state is in order.
LEMMA InitIInv == Init => IInv
BY InitType, InitCountdowns, InitRestarts, InitWatched DEF IInv

\* Every step keeps the invariant.
LEMMA NextIInv == IInv /\ [Next]_vars => IInv'
BY NextType, NextCountdowns, NextRestarts, NextWatched DEF IInv

\* The inductive invariant holds in every state of the Monitor.
LEMMA InductiveInvariant == Spec => []IInv
<1>1. Spec => Init /\ [][Next]_vars
  BY DEF Spec
<1>2. QED BY <1>1, InitIInv, NextIInv, PTL

\* The check of a plugin comes when its interval has passed: the countdowns of
\* Evaluate() hit zero, whatever the two intervals are.
THEOREM CountdownsMeetZero == Spec => []CountdownsHitZero
<1>1. IInv => CountdownsHitZero
  BY DEF IInv
<1>2. QED BY <1>1, InductiveInvariant, PTL

\* The job does not stop as long as a plugin is active, whenever plugins come
\* and go during its run.
THEOREM JobWatches == Spec => []ActiveIsWatched
<1>1. IInv => ActiveIsWatched
  BY DEF IInv
<1>2. QED BY <1>1, InductiveInvariant, PTL

\* RegisterRestart() allows no more restarts in a row than the limit, for any
\* limits, changes of limits, and width of the count that it doubles.
THEOREM NoMoreInARowThanTheLimit == Spec => RestartsInARow
<1>1. ASSUME IInv, [Next]_vars, NEW p \in Plugins, p \in starts' \ starts, limit[p] # 0
      PROVE  attempts'[p] <= limit[p]
  <2>1. PICK q \in Restartable : Restart(q)
    BY <1>1, RestartsChange
  <2>2. p = q /\ Allowed(q)
    BY <1>1, <2>1 DEF Restart
  <2>3. QED BY <1>1, <2>1, <2>2, RestartStep DEF IInv
<1>2. IInv /\ [Next]_vars =>
        [\A p \in Plugins : p \in starts' \ starts /\ limit[p] # 0 => attempts'[p] <= limit[p]]_vars
  BY <1>1
<1>3. Spec => [][Next]_vars
  BY DEF Spec
<1>4. QED BY <1>2, <1>3, InductiveInvariant, PTL DEF RestartsInARow

\* Whoever is given up is restarted or given up in Deinitialized().
LEMMA GivenUpInRestart ==
  ASSUME TypeOK, [Next]_vars, NEW p \in Plugins, GivenUp(p)
  PROVE  Restart(p)
<1>1. ASSUME NEW q \in Plugins, Deinitialized(q) PROVE Restart(p)
  <2>1. p = q
    BY <1>1 DEF GivenUp, Deinitialized, Becomes, TypeOK
  <2>2. QED BY <1>1, <2>1 DEF GivenUp, Deinitialized
<1>2. CASE \E q \in Plugins : Activated(q) \/ Activate(q) \/ (\E how \in {"stopping", "failing"} : Deactivate(q, how))
  BY <1>2 DEF GivenUp, Activated, Activate, Deactivate, Becomes, TypeOK
<1>3. CASE UNCHANGED plugin
  BY <1>3 DEF GivenUp
<1>4. QED
  BY <1>1, <1>2, <1>3 DEF Next, Probes, Handles, Clients, vars, pluginVars, DispatchStarts,
     DispatchEnds, Skip, NotYet, EvaluateNothing, EvaluateStarts, Evaluate, JobActivates,
     JobDeactivates, ClientActivates, ClientDeactivates, Crashes, Update, SlotIsDue, WindowEnds

\* Nor does it give a plugin up before the count of the restarts of this window,
\* doubled, meets the limit.
THEOREM NotGivenUpTooSoon == Spec => GivesUpNoSooner
<1>1. ASSUME IInv, [Next]_vars, NEW p \in Plugins, GivenUp(p), attempts[p] < MaxAttempts
      PROVE  limit[p] < Power[attempts[p] + 1]
  <2>1. Restart(p) /\ p \in Restartable /\ ~Allowed(p)
    BY <1>1, GivenUpInRestart DEF IInv, GivenUp
  <2>2. QED BY <1>1, <2>1, RestartStep DEF IInv
<1>2. IInv /\ [Next]_vars =>
        [\A p \in Plugins :
           GivenUp(p) /\ attempts[p] < MaxAttempts => limit[p] < Power[attempts[p] + 1]]_vars
  BY <1>1
<1>3. Spec => [][Next]_vars
  BY DEF Spec
<1>4. QED BY <1>2, <1>3, InductiveInvariant, PTL DEF GivesUpNoSooner

\* How often a plugin is restarted before RegisterRestart() gives it up, for any
\* limits, windows and changes of them.
THEOREM RestartsAreInOrder == Spec => RestartsInOrder
BY NoMoreInARowThanTheLimit, NotGivenUpTooSoon DEF RestartsInOrder

\* The job is there as long as somebody is to be watched, and its countdowns
\* meet zero, for any plugins and intervals.
THEOREM JobIsInOrder == Spec => []JobInOrder
<1>1. IInv => JobInOrder
  BY DEF IInv, JobInOrder
<1>2. QED BY <1>1, InductiveInvariant, PTL
=============================================================================
